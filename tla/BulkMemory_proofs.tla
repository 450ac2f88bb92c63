---------------------------- MODULE BulkMemory_proofs ----------------------------
(***************************************************************************)
(* The bulk operations of BulkMemory, proved for every host, every size of *)
(* the buffers and every bound.                                            *)
(*                                                                         *)
(* The first part is about GF256 alone: what the loops of gf256_init_ put  *)
(* in its tables is multiplication and division of polynomials modulo the  *)
(* chosen one, and any two rows of the Cauchy matrix recover two columns.  *)
(* Nothing of it is found by looking all entries up: exclusive or is       *)
(* linear, so is multiplication, the powers of the generator are followed  *)
(* through eight doublings each, and a polynomial whose generator has no   *)
(* power of a proper divisor of 255 equal to one has all bytes but zero as *)
(* powers.  The second part is the invariant of the operations; the third  *)
(* the self test, which is a client of theirs.                             *)
(***************************************************************************)
EXTENDS BulkMemory, FunctionTheorems, FiniteSetTheorems, SequenceTheorems, WellFoundedInduction,
        TLAPS

-----------------------------------------------------------------------------
(* Exclusive or                                                              *)

Digits == 0..3

\* Exclusive or of two digits to base 4.
XorOf(a, b) == XorDigit[a + 1][b + 1]

\* The table of two-bit sums is a group of exponent two.
LEMMA DigitLaws ==
    /\ \A a, b \in Digits : XorOf(a, b) \in Digits /\ XorOf(a, b) = XorOf(b, a)
    /\ \A a \in Digits : XorOf(a, a) = 0 /\ XorOf(a, 0) = a
    /\ \A a, b, c \in Digits : XorOf(a, XorOf(b, c)) = XorOf(XorOf(a, b), c)
<1>1. \A a, b \in Digits : XorOf(a, b) \in Digits /\ XorOf(a, b) = XorOf(b, a)
  BY DEF Digits, XorOf, XorDigit
<1>2. \A a \in Digits : XorOf(a, a) = 0 /\ XorOf(a, 0) = a
  BY DEF Digits, XorOf, XorDigit
<1>3. \A a, b, c \in Digits : XorOf(a, XorOf(b, c)) = XorOf(XorOf(a, b), c)
  BY DEF Digits, XorOf, XorDigit
<1> QED BY Zenon, <1>1, <1>2, <1>3

\* Four digits, the lowest first, and the byte they are.
Quads == [Digits -> Digits]
ByteOf(d) == d[0] + 4 * d[1] + 16 * d[2] + 64 * d[3]
Joined(d, e) == [k \in Digits |-> XorOf(d[k], e[k])]

\* A number composed of four digits is a byte with these digits.
LEMMA DigitsInByte ==
    ASSUME NEW d \in Quads
    PROVE  /\ ByteOf(d) \in Byte
           /\ (ByteOf(d) \div 1) % 4 = d[0] /\ (ByteOf(d) \div 4) % 4 = d[1]
           /\ (ByteOf(d) \div 16) % 4 = d[2] /\ (ByteOf(d) \div 64) % 4 = d[3]
<1>1. /\ d[0] \in 0..3 /\ d[1] \in 0..3 /\ d[2] \in 0..3 /\ d[3] \in 0..3
      /\ ByteOf(d) = d[0] + 4 * d[1] + 16 * d[2] + 64 * d[3]
  BY DEF Digits, Quads, ByteOf
<1> DEFINE Has(x, a, b, c, e) == /\ x \in 0..255
                                 /\ (x \div 1) % 4 = a /\ (x \div 4) % 4 = b
                                 /\ (x \div 16) % 4 = c /\ (x \div 64) % 4 = e
<1>2. \A a, b, c, e \in 0..3 : Has(a + 4 * b + 16 * c + 64 * e, a, b, c, e)
  <2> TAKE a, b, c, e \in 0..3
  <2> QED OBVIOUS
<1>3. Has(ByteOf(d), d[0], d[1], d[2], d[3])
  <2> HIDE DEF Has
  <2> QED BY <1>1, <1>2
<1> QED BY Zenon, <1>3 DEF Byte

\* Every byte is composed of four digits.
LEMMA DigitsOfByte ==
    ASSUME NEW x \in Byte
    PROVE  \E d \in Quads : x = ByteOf(d)
<1> DEFINE d == [k \in Digits |-> CASE k = 0 -> x % 4 [] k = 1 -> (x \div 4) % 4
                                    [] k = 2 -> (x \div 16) % 4 [] k = 3 -> (x \div 64) % 4]
<1>1. d[0] = x % 4 /\ d[1] = (x \div 4) % 4 /\ d[2] = (x \div 16) % 4 /\ d[3] = (x \div 64) % 4
  BY DEF Digits
<1>2. d \in Quads
  BY DEF Byte, Digits, Quads
<1> HIDE DEF d
<1>3. x = ByteOf(d)
  BY <1>1 DEF Byte, ByteOf
<1> QED BY Zenon, <1>2, <1>3

\* Exclusive or of two bytes works digit by digit.
LEMMA XorOfDigits ==
    ASSUME NEW d \in Quads, NEW e \in Quads
    PROVE  /\ Joined(d, e) \in Quads
           /\ XorByDigits(ByteOf(d), ByteOf(e)) = ByteOf(Joined(d, e))
<1> DEFINE x == ByteOf(d)
           y == ByteOf(e)
<1>1. (x \div 1) % 4 = d[0] /\ (x \div 4) % 4 = d[1] /\ (x \div 16) % 4 = d[2] /\ (x \div 64) % 4 = d[3]
  BY DigitsInByte
<1>2. (y \div 1) % 4 = e[0] /\ (y \div 4) % 4 = e[1] /\ (y \div 16) % 4 = e[2] /\ (y \div 64) % 4 = e[3]
  BY DigitsInByte
<1> HIDE DEF x, y
<1>3. XorByDigits(x, y) =
          1 * XorOf((x \div 1) % 4, (y \div 1) % 4) + 4 * XorOf((x \div 4) % 4, (y \div 4) % 4)
          + 16 * XorOf((x \div 16) % 4, (y \div 16) % 4) + 64 * XorOf((x \div 64) % 4, (y \div 64) % 4)
  BY Zenon DEF XorByDigits, XorOf
<1>4. XorByDigits(x, y) =
          1 * XorOf(d[0], e[0]) + 4 * XorOf(d[1], e[1]) + 16 * XorOf(d[2], e[2]) + 64 * XorOf(d[3], e[3])
  BY Zenon, <1>1, <1>2, <1>3
<1>5. \A k \in Digits : d[k] \in Digits /\ e[k] \in Digits /\ XorOf(d[k], e[k]) \in Digits
  <2>1. \A k \in Digits : d[k] \in Digits /\ e[k] \in Digits
    BY DEF Quads
  <2> QED BY Zenon, <2>1, DigitLaws
<1>6. Joined(d, e) \in Quads
  BY <1>5 DEF Quads, Joined
<1>7. 0 \in Digits /\ 1 \in Digits /\ 2 \in Digits /\ 3 \in Digits
  BY DEF Digits
<1>8. 1 * XorOf(d[0], e[0]) = XorOf(d[0], e[0])
  BY <1>5, <1>7 DEF Digits
<1>9. /\ Joined(d, e)[0] = XorOf(d[0], e[0]) /\ Joined(d, e)[1] = XorOf(d[1], e[1])
      /\ Joined(d, e)[2] = XorOf(d[2], e[2]) /\ Joined(d, e)[3] = XorOf(d[3], e[3])
  BY Zenon, <1>7 DEF Joined
<1> QED BY Zenon, <1>4, <1>6, <1>8, <1>9 DEF ByteOf, x, y

\* The bytes are a group with it.
LEMMA XorLaws ==
    /\ \A x, y \in Byte : XorByDigits(x, y) \in Byte /\ XorByDigits(x, y) = XorByDigits(y, x)
    /\ \A x \in Byte : XorByDigits(x, x) = 0 /\ XorByDigits(x, 0) = x
    /\ \A x, y, z \in Byte :
          XorByDigits(x, XorByDigits(y, z)) = XorByDigits(XorByDigits(x, y), z)
<1>0. \A d \in Quads, k \in Digits : d[k] \in Digits
  BY DEF Quads
<1>1. ASSUME NEW x \in Byte, NEW y \in Byte
      PROVE  XorByDigits(x, y) \in Byte /\ XorByDigits(x, y) = XorByDigits(y, x)
  <2>1. PICK d \in Quads : x = ByteOf(d)
    BY Zenon, DigitsOfByte
  <2>2. PICK e \in Quads : y = ByteOf(e)
    BY Zenon, DigitsOfByte
  <2>3. Joined(d, e) = Joined(e, d)
    BY Zenon, <1>0, DigitLaws DEF Joined
  <2>4. Joined(d, e) \in Quads /\ XorByDigits(x, y) = ByteOf(Joined(d, e))
    BY Zenon, <2>1, <2>2, XorOfDigits
  <2>5. XorByDigits(y, x) = ByteOf(Joined(e, d))
    BY Zenon, <2>1, <2>2, XorOfDigits
  <2>6. ByteOf(Joined(d, e)) \in Byte
    BY Zenon, <2>4, DigitsInByte
  <2> QED BY Zenon, <2>3, <2>4, <2>5, <2>6
<1>2. ASSUME NEW x \in Byte PROVE XorByDigits(x, x) = 0 /\ XorByDigits(x, 0) = x
  <2>1. PICK d \in Quads : x = ByteOf(d)
    BY Zenon, DigitsOfByte
  <2> DEFINE z == [k \in Digits |-> 0]
  <2>2. z \in Quads /\ ByteOf(z) = 0
    BY DEF Digits, Quads, ByteOf
  <2>3. Joined(d, d) = z
    BY Zenon, <1>0, DigitLaws DEF Joined
  <2>4. Joined(d, z) = d
    <3>1. \A k \in Digits : XorOf(d[k], z[k]) = d[k]
      BY Zenon, <1>0, DigitLaws
    <3>2. d = [k \in Digits |-> d[k]]
      BY DEF Quads
    <3>3. Joined(d, z) = [k \in Digits |-> d[k]]
      <4> HIDE DEF z
      <4> QED BY Zenon, <3>1 DEF Joined
    <3> QED BY Zenon, <3>2, <3>3
  <2> HIDE DEF z
  <2>5. XorByDigits(x, x) = ByteOf(Joined(d, d)) /\ XorByDigits(x, ByteOf(z)) = ByteOf(Joined(d, z))
    BY Zenon, <2>1, <2>2, XorOfDigits
  <2> QED BY Zenon, <2>1, <2>2, <2>3, <2>4, <2>5
<1>3. ASSUME NEW x \in Byte, NEW y \in Byte, NEW z \in Byte
      PROVE  XorByDigits(x, XorByDigits(y, z)) = XorByDigits(XorByDigits(x, y), z)
  <2>1. PICK d \in Quads : x = ByteOf(d)
    BY Zenon, DigitsOfByte
  <2>2. PICK e \in Quads : y = ByteOf(e)
    BY Zenon, DigitsOfByte
  <2>3. PICK f \in Quads : z = ByteOf(f)
    BY Zenon, DigitsOfByte
  <2>4. /\ Joined(d, e) \in Quads /\ XorByDigits(x, y) = ByteOf(Joined(d, e))
        /\ Joined(e, f) \in Quads /\ XorByDigits(y, z) = ByteOf(Joined(e, f))
    BY Zenon, <2>1, <2>2, <2>3, XorOfDigits
  <2>5. /\ XorByDigits(x, XorByDigits(y, z)) = ByteOf(Joined(d, Joined(e, f)))
        /\ XorByDigits(XorByDigits(x, y), z) = ByteOf(Joined(Joined(d, e), f))
    <3>1. XorByDigits(ByteOf(d), ByteOf(Joined(e, f))) = ByteOf(Joined(d, Joined(e, f)))
      BY Zenon, <2>4, XorOfDigits
    <3>2. XorByDigits(ByteOf(Joined(d, e)), ByteOf(f)) = ByteOf(Joined(Joined(d, e), f))
      BY Zenon, <2>4, XorOfDigits
    <3> QED BY Zenon, <2>1, <2>3, <2>4, <3>1, <3>2
  <2>6. \A k \in Digits : XorOf(d[k], XorOf(e[k], f[k])) = XorOf(XorOf(d[k], e[k]), f[k])
    <3> SUFFICES ASSUME NEW k \in Digits
                 PROVE  XorOf(d[k], XorOf(e[k], f[k])) = XorOf(XorOf(d[k], e[k]), f[k])
      OBVIOUS
    <3>1. d[k] \in Digits /\ e[k] \in Digits /\ f[k] \in Digits
      BY Zenon, <1>0
    <3>2. \A a, b, c \in Digits : XorOf(a, XorOf(b, c)) = XorOf(XorOf(a, b), c)
      BY Zenon, DigitLaws
    <3> QED BY ZenonT(60), <3>1, <3>2
  <2>7. \A k \in Digits : Joined(e, f)[k] = XorOf(e[k], f[k]) /\ Joined(d, e)[k] = XorOf(d[k], e[k])
    BY Zenon DEF Joined
  <2>8. \A k \in Digits : XorOf(d[k], Joined(e, f)[k]) = XorOf(Joined(d, e)[k], f[k])
    BY Zenon, <2>6, <2>7
  <2>9. Joined(d, Joined(e, f)) = Joined(Joined(d, e), f)
    <3> DEFINE p == Joined(e, f)
               q == Joined(d, e)
    <3>1. \A k \in Digits : XorOf(d[k], p[k]) = XorOf(q[k], f[k])
      BY Zenon, <2>8
    <3> HIDE DEF p, q
    <3>2. Joined(d, p) = Joined(q, f)
      BY Zenon, <3>1 DEF Joined
    <3> QED BY Zenon, <3>2 DEF p, q
  <2> QED BY Zenon, <2>5, <2>9
<1> QED BY Zenon, <1>1, <1>2, <1>3

\* Reading the entries of a table one by one gives the table again.
LEMMA TabulatedIs ==
    ASSUME NEW n \in Nat, NEW s, DOMAIN s = 1..n, s = [i \in 1..n |-> s[i]]
    PROVE  Tabulated(s) = s
<1>1. s \in Seq({s[i] : i \in 1..n})
  OBVIOUS
<1> QED BY <1>1 DEF Tabulated

\* The table of it holds it.
LEMMA XorIsXor == \A x, y \in Byte : Xor(x, y) = XorByDigits(x, y)
<1> DEFINE row(i) == [j \in 1..256 |-> XorByDigits(i - 1, j - 1)]
           table == [i \in 1..256 |-> Tabulated(row(i))]
<1>1. \A i \in 1..256 : Tabulated(row(i)) = row(i)
  <2> SUFFICES ASSUME NEW i \in 1..256 PROVE Tabulated(row(i)) = row(i)
    BY Zenon
  <2>1. PICK s : s = row(i)
    OBVIOUS
  <2>2. DOMAIN s = 1..256 /\ s = [j \in 1..256 |-> s[j]] /\ 256 \in Nat
    BY <2>1
  <2>3. Tabulated(s) = s
    BY Zenon, <2>2, TabulatedIs
  <2> QED BY Zenon, <2>1, <2>3
<1>2. Tabulated(table) = table
  <2>2. DOMAIN table = 1..256 /\ table = [i \in 1..256 |-> table[i]] /\ 256 \in Nat
    OBVIOUS
  <2> HIDE DEF table
  <2> QED BY Zenon, <2>2, TabulatedIs
<1>3. XorTable = table
  BY Zenon, <1>2 DEF XorTable
<1> SUFFICES ASSUME NEW x \in Byte, NEW y \in Byte PROVE Xor(x, y) = XorByDigits(x, y)
  OBVIOUS
<1>4. x + 1 \in 1..256 /\ y + 1 \in 1..256 /\ (x + 1) - 1 = x /\ (y + 1) - 1 = y
  BY DEF Byte
<1>5. table[x + 1] = row(x + 1)
  BY Zenon, <1>1, <1>4
<1>6. row(x + 1)[y + 1] = XorByDigits(x, y)
  BY Zenon, <1>4
<1> HIDE DEF table
<1> QED BY Zenon, <1>3, <1>5, <1>6 DEF Xor

\* Exclusive or of bytes is a byte, commutes and associates.
LEMMA XorClosed == \A x, y \in Byte : XorByDigits(x, y) \in Byte
<1> QED BY Zenon, XorLaws

LEMMA XorCommutes == \A x, y \in Byte : XorByDigits(x, y) = XorByDigits(y, x)
<1> QED BY Zenon, XorLaws

LEMMA XorAssociates ==
    \A x, y, z \in Byte : XorByDigits(x, XorByDigits(y, z)) = XorByDigits(XorByDigits(x, y), z)
<1> QED BY Zenon, XorLaws

\* Four summands can be paired either way.
LEMMA XorInterchange ==
    ASSUME NEW a \in Byte, NEW b \in Byte, NEW c \in Byte, NEW d \in Byte
    PROVE  XorByDigits(XorByDigits(a, b), XorByDigits(c, d))
               = XorByDigits(XorByDigits(a, c), XorByDigits(b, d))
<1>1. XorByDigits(c, d) \in Byte /\ XorByDigits(b, d) \in Byte
  BY Zenon, XorClosed
<1>2. XorByDigits(XorByDigits(a, b), XorByDigits(c, d))
          = XorByDigits(a, XorByDigits(b, XorByDigits(c, d)))
  BY <1>1, XorAssociates
<1>3. XorByDigits(b, XorByDigits(c, d)) = XorByDigits(XorByDigits(b, c), d)
  BY SMT, XorAssociates
<1>4. XorByDigits(c, XorByDigits(b, d)) = XorByDigits(XorByDigits(c, b), d)
  BY SMT, XorAssociates
<1>5. XorByDigits(b, c) = XorByDigits(c, b)
  BY Zenon, XorCommutes
<1>6. XorByDigits(a, XorByDigits(c, XorByDigits(b, d)))
          = XorByDigits(XorByDigits(a, c), XorByDigits(b, d))
  BY <1>1, XorAssociates
<1> QED BY Zenon, <1>2, <1>3, <1>4, <1>5, <1>6

\* A byte shifted up by a bit, by its digits, and the bit that falls out.
Shifted(d) == [k \in Digits |-> 2 * (d[k] % 2) + (IF k = 0 THEN 0 ELSE d[k - 1] \div 2)]
Twice(x) == (2 * x) % 256
TopBit(x) == IF x >= 128 THEN 1 ELSE 0

\* Doubling without reduction, digit by digit: each digit takes the top bit of the one below.
LEMMA ShiftOfDigits ==
    ASSUME NEW d \in Quads
    PROVE  /\ Shifted(d) \in Quads /\ Twice(ByteOf(d)) = ByteOf(Shifted(d))
           /\ TopBit(ByteOf(d)) = d[3] \div 2
<1>1. d[0] \in 0..3 /\ d[1] \in 0..3 /\ d[2] \in 0..3 /\ d[3] \in 0..3
  BY DEF Digits, Quads
<1>2. Shifted(d) \in Quads
  BY DEF Shifted, Quads, Digits
<1>3. /\ Shifted(d)[0] = 2 * (d[0] % 2) + 0
      /\ Shifted(d)[1] = 2 * (d[1] % 2) + d[0] \div 2
      /\ Shifted(d)[2] = 2 * (d[2] % 2) + d[1] \div 2
      /\ Shifted(d)[3] = 2 * (d[3] % 2) + d[2] \div 2
  BY <1>1 DEF Shifted, Digits
<1>4. \A a, b, c, e \in 0..3 :
         /\ (2 * (a + 4 * b + 16 * c + 64 * e)) % 256
              = (2 * (a % 2) + 0) + 4 * (2 * (b % 2) + a \div 2) + 16 * (2 * (c % 2) + b \div 2)
                 + 64 * (2 * (e % 2) + c \div 2)
         /\ (IF a + 4 * b + 16 * c + 64 * e >= 128 THEN 1 ELSE 0) = e \div 2
  OBVIOUS
<1> DEFINE Has(x, a, b, c, e) ==
               /\ (2 * x) % 256
                    = (2 * (a % 2) + 0) + 4 * (2 * (b % 2) + a \div 2) + 16 * (2 * (c % 2) + b \div 2)
                      + 64 * (2 * (e % 2) + c \div 2)
               /\ (IF x >= 128 THEN 1 ELSE 0) = e \div 2
<1>a. \A a, b, c, e \in 0..3 : Has(a + 4 * b + 16 * c + 64 * e, a, b, c, e)
  BY Zenon, <1>4
<1>b. Has(ByteOf(d), d[0], d[1], d[2], d[3])
  <2> HIDE DEF Has
  <2> QED BY <1>1, <1>a DEF ByteOf
<1>5. /\ Twice(ByteOf(d)) = (2 * (d[0] % 2) + 0) + 4 * (2 * (d[1] % 2) + d[0] \div 2)
                            + 16 * (2 * (d[2] % 2) + d[1] \div 2) + 64 * (2 * (d[3] % 2) + d[2] \div 2)
      /\ TopBit(ByteOf(d)) = d[3] \div 2
  BY Zenon, <1>b DEF Twice, TopBit
<1>6. Twice(ByteOf(d)) = ByteOf(Shifted(d))
  BY Zenon, <1>3, <1>5 DEF ByteOf
<1> QED BY Zenon, <1>2, <1>5, <1>6

\* Shifting a sum of digits shifts each of them: no carry.
LEMMA DigitShift ==
    /\ \A a, b \in Digits : XorOf(a, b) \div 2 = XorOf(a \div 2, b \div 2)
    /\ \A a, b, s, t \in Digits :
          2 * (XorOf(a, b) % 2) + (XorOf(s, t) \div 2)
              = XorOf(2 * (a % 2) + (s \div 2), 2 * (b % 2) + (t \div 2))
    /\ \A a, b \in Digits :
          2 * (XorOf(a, b) % 2) + 0 = XorOf(2 * (a % 2) + 0, 2 * (b % 2) + 0)
<1>1. \A a, b \in Digits : XorOf(a, b) \div 2 = XorOf(a \div 2, b \div 2)
  BY DEF Digits, XorOf, XorDigit
<1>2. \A a, b, s, t \in Digits :
          2 * (XorOf(a, b) % 2) + (XorOf(s, t) \div 2)
              = XorOf(2 * (a % 2) + (s \div 2), 2 * (b % 2) + (t \div 2))
  <2>1. \A a, b \in Digits : /\ 2 * (XorOf(a, b) % 2) = XorOf(2 * (a % 2), 2 * (b % 2))
                             /\ XorOf(a, b) \div 2 = XorOf(a \div 2, b \div 2)
    BY DEF Digits, XorOf, XorDigit
  <2>2. \A u, v \in {0, 2}, w, z \in {0, 1} :
           XorOf(u + w, v + z) = XorOf(u, v) + XorOf(w, z)
    BY DEF XorOf, XorDigit
  <2>3. \A a \in Digits : 2 * (a % 2) \in {0, 2} /\ a \div 2 \in {0, 1}
    BY DEF Digits
  <2> SUFFICES ASSUME NEW a \in Digits, NEW b \in Digits, NEW s \in Digits, NEW t \in Digits
               PROVE  2 * (XorOf(a, b) % 2) + (XorOf(s, t) \div 2)
                          = XorOf(2 * (a % 2) + (s \div 2), 2 * (b % 2) + (t \div 2))
    OBVIOUS
  <2>4. XorOf(2 * (a % 2) + (s \div 2), 2 * (b % 2) + (t \div 2))
           = XorOf(2 * (a % 2), 2 * (b % 2)) + XorOf(s \div 2, t \div 2)
    BY Zenon, <2>2, <2>3
  <2> QED BY Zenon, <2>1, <2>4
<1>3. \A a, b \in Digits :
          2 * (XorOf(a, b) % 2) + 0 = XorOf(2 * (a % 2) + 0, 2 * (b % 2) + 0)
  BY DEF Digits, XorOf, XorDigit
<1> QED BY Zenon, <1>1, <1>2, <1>3

\* Shifting is linear.
LEMMA TwiceLinear ==
    ASSUME NEW x \in Byte, NEW y \in Byte
    PROVE  /\ Twice(x) \in Byte
           /\ Twice(XorByDigits(x, y)) = XorByDigits(Twice(x), Twice(y))
           /\ TopBit(XorByDigits(x, y)) = XorOf(TopBit(x), TopBit(y))
<1>1. PICK d \in Quads : x = ByteOf(d)
  BY Zenon, DigitsOfByte
<1>2. PICK e \in Quads : y = ByteOf(e)
  BY Zenon, DigitsOfByte
<1>3. /\ Shifted(d) \in Quads /\ Twice(x) = ByteOf(Shifted(d)) /\ TopBit(x) = d[3] \div 2
      /\ Shifted(e) \in Quads /\ Twice(y) = ByteOf(Shifted(e)) /\ TopBit(y) = e[3] \div 2
  BY Zenon, <1>1, <1>2, ShiftOfDigits
<1>4. Joined(d, e) \in Quads /\ XorByDigits(x, y) = ByteOf(Joined(d, e))
  BY Zenon, <1>1, <1>2, XorOfDigits
<1>5. /\ Twice(XorByDigits(x, y)) = ByteOf(Shifted(Joined(d, e)))
      /\ TopBit(XorByDigits(x, y)) = Joined(d, e)[3] \div 2
  BY Zenon, <1>4, ShiftOfDigits
<1>6. XorByDigits(Twice(x), Twice(y)) = ByteOf(Joined(Shifted(d), Shifted(e)))
  BY Zenon, <1>3, XorOfDigits
<1>7. Twice(x) \in Byte
  BY Zenon, <1>3, DigitsInByte
<1>8. \A k \in Digits : d[k] \in Digits /\ e[k] \in Digits
  BY DEF Quads
<1>9. \A k \in Digits : Joined(d, e)[k] = XorOf(d[k], e[k])
  BY Zenon DEF Joined
<1>10. 3 \in Digits
  BY DEF Digits
<1>11. TopBit(XorByDigits(x, y)) = XorOf(TopBit(x), TopBit(y))
  <2>1. d[3] \in Digits /\ e[3] \in Digits /\ Joined(d, e)[3] = XorOf(d[3], e[3])
    BY Zenon, <1>8, <1>9, <1>10
  <2>2. XorOf(d[3], e[3]) \div 2 = XorOf(d[3] \div 2, e[3] \div 2)
    BY <2>1, DigitShift
  <2> QED BY Zenon, <1>3, <1>5, <2>1, <2>2
<1>12. \A k \in Digits :
          2 * (Joined(d, e)[k] % 2) + (IF k = 0 THEN 0 ELSE Joined(d, e)[k - 1] \div 2)
              = XorOf(Shifted(d)[k], Shifted(e)[k])
  <2> SUFFICES ASSUME NEW k \in Digits
               PROVE  2 * (Joined(d, e)[k] % 2) + (IF k = 0 THEN 0 ELSE Joined(d, e)[k - 1] \div 2)
                          = XorOf(Shifted(d)[k], Shifted(e)[k])
    OBVIOUS
  <2>1. CASE k = 0
    <3>1. Shifted(d)[k] = 2 * (d[k] % 2) + 0 /\ Shifted(e)[k] = 2 * (e[k] % 2) + 0
      BY Zenon, <2>1 DEF Shifted
    <3>2. 2 * (XorOf(d[k], e[k]) % 2) + 0 = XorOf(2 * (d[k] % 2) + 0, 2 * (e[k] % 2) + 0)
      BY <1>8, DigitShift
    <3>3. Joined(d, e)[k] = XorOf(d[k], e[k])
      BY Zenon, <1>9
    <3> QED BY Zenon, <2>1, <3>1, <3>2, <3>3
  <2>2. CASE k # 0
    <3>0. k - 1 \in Digits
      BY <2>2 DEF Digits
    <3>1. /\ Shifted(d)[k] = 2 * (d[k] % 2) + (d[k - 1] \div 2)
          /\ Shifted(e)[k] = 2 * (e[k] % 2) + (e[k - 1] \div 2)
      BY Zenon, <2>2 DEF Shifted
    <3>2. 2 * (XorOf(d[k], e[k]) % 2) + (XorOf(d[k - 1], e[k - 1]) \div 2)
              = XorOf(2 * (d[k] % 2) + (d[k - 1] \div 2), 2 * (e[k] % 2) + (e[k - 1] \div 2))
      BY <1>8, <3>0, DigitShift
    <3>3. Joined(d, e)[k] = XorOf(d[k], e[k]) /\ Joined(d, e)[k - 1] = XorOf(d[k - 1], e[k - 1])
      BY Zenon, <1>9, <3>0
    <3> QED BY Zenon, <2>2, <3>1, <3>2, <3>3
  <2> QED BY Zenon, <2>1, <2>2
<1>13. Shifted(Joined(d, e)) = Joined(Shifted(d), Shifted(e))
  <2> DEFINE a == Joined(d, e)
             b == Shifted(d)
             c == Shifted(e)
  <2>1. \A k \in Digits : 2 * (a[k] % 2) + (IF k = 0 THEN 0 ELSE a[k - 1] \div 2) = XorOf(b[k], c[k])
    BY Zenon, <1>12
  <2> HIDE DEF a, b, c
  <2>2. Shifted(a) = Joined(b, c)
    BY Zenon, <2>1 DEF Shifted, Joined
  <2> QED BY Zenon, <2>2 DEF a, b, c
<1> QED BY Zenon, <1>5, <1>6, <1>7, <1>11, <1>13

\* Multiplication by x, for any polynomial.
LEMMA DoubleIs ==
    ASSUME NEW poly \in Nat, NEW x \in Byte
    PROVE  /\ poly % 256 \in Byte
           /\ Double(x, poly) = XorByDigits(Twice(x), IF TopBit(x) = 1 THEN poly % 256 ELSE 0)
<1>1. poly % 256 \in Byte
  BY DEF Byte
<1>2. Twice(x) \in Byte
  BY Zenon, TwiceLinear
<1>3. CASE x >= 128
  <2>1. x * 2 >= 256 /\ (x * 2) % 256 = Twice(x) /\ TopBit(x) = 1
    BY <1>3 DEF Byte, Twice, TopBit
  <2> QED BY SMT, <1>1, <2>1 DEF Double
<1>4. CASE ~(x >= 128)
  <2>1. ~(x * 2 >= 256) /\ x * 2 = Twice(x) /\ TopBit(x) # 1
    BY <1>4 DEF Byte, Twice, TopBit
  <2>2. XorByDigits(Twice(x), 0) = Twice(x)
    BY Zenon, <1>2, XorLaws
  <2>3. Double(x, poly) = x * 2
    BY Zenon, <2>1 DEF Double
  <2>4. XorByDigits(Twice(x), IF TopBit(x) = 1 THEN poly % 256 ELSE 0) = XorByDigits(Twice(x), 0)
    BY Zenon, <2>1
  <2> QED BY Zenon, <1>1, <2>1, <2>2, <2>3, <2>4
<1> QED BY Zenon, <1>3, <1>4

\* Doubling modulo a polynomial (gf256_init_ builds its powers with it) is linear.
LEMMA DoubleLinear ==
    ASSUME NEW poly \in Nat
    PROVE  /\ \A x \in Byte : Double(x, poly) \in Byte
           /\ \A x, y \in Byte :
                 Double(XorByDigits(x, y), poly) = XorByDigits(Double(x, poly), Double(y, poly))
           /\ Double(0, poly) = 0
<1> DEFINE p == poly % 256
           Part(x) == IF TopBit(x) = 1 THEN p ELSE 0
<1>0. p \in Byte /\ 0 \in Byte
  BY DEF Byte
<1> HIDE DEF p
<1>1. \A x \in Byte : Part(x) \in Byte /\ Twice(x) \in Byte /\ XorByDigits(x, 0) = x
                      /\ XorByDigits(x, x) = 0
  BY Zenon, <1>0, TwiceLinear, XorLaws
<1>2. \A x \in Byte : Double(x, poly) = XorByDigits(Twice(x), Part(x))
  BY Zenon, DoubleIs DEF p
<1>3. \A x, y \in Byte : XorByDigits(x, y) \in Byte /\ XorByDigits(x, y) = XorByDigits(y, x)
  BY Zenon, XorLaws
<1>4. \A x \in Byte : Double(x, poly) \in Byte
  <2> SUFFICES ASSUME NEW x \in Byte PROVE Double(x, poly) \in Byte
    OBVIOUS
  <2>1. Twice(x) \in Byte /\ Part(x) \in Byte
    BY Zenon, <1>1
  <2> HIDE DEF Part
  <2> QED BY Zenon, <1>2, <2>1, XorClosed
<1>5. ASSUME NEW x \in Byte, NEW y \in Byte
      PROVE  Double(XorByDigits(x, y), poly) = XorByDigits(Double(x, poly), Double(y, poly))
  <2>1. Part(XorByDigits(x, y)) = XorByDigits(Part(x), Part(y))
    <3>1. TopBit(XorByDigits(x, y)) = XorOf(TopBit(x), TopBit(y))
      BY Zenon, TwiceLinear
    <3>2. XorOf(0, 0) = 0 /\ XorOf(0, 1) = 1 /\ XorOf(1, 0) = 1 /\ XorOf(1, 1) = 0 /\ 0 # 1
      BY DEF XorOf, XorDigit
    <3>3. TopBit(x) \in {0, 1} /\ TopBit(y) \in {0, 1}
      BY Zenon DEF TopBit
    <3>4. XorByDigits(0, 0) = 0 /\ XorByDigits(p, 0) = p /\ XorByDigits(0, p) = p /\ XorByDigits(p, p) = 0
      BY Zenon, <1>0, <1>1, <1>3
    <3> QED BY Zenon, <3>1, <3>2, <3>3, <3>4
  <2>2. Twice(XorByDigits(x, y)) = XorByDigits(Twice(x), Twice(y))
    BY Zenon, TwiceLinear
  <2>3. XorByDigits(XorByDigits(Twice(x), Twice(y)), XorByDigits(Part(x), Part(y)))
            = XorByDigits(XorByDigits(Twice(x), Part(x)), XorByDigits(Twice(y), Part(y)))
    <3>1. Twice(x) \in Byte /\ Part(x) \in Byte /\ Twice(y) \in Byte /\ Part(y) \in Byte
      BY Zenon, <1>1
    <3> HIDE DEF Part
    <3> QED BY <3>1, XorInterchange
  <2>4. Double(XorByDigits(x, y), poly) = XorByDigits(Twice(XorByDigits(x, y)), Part(XorByDigits(x, y)))
    BY Zenon, <1>2, <1>3
  <2> HIDE DEF Part
  <2> QED BY Zenon, <1>2, <2>1, <2>2, <2>3, <2>4
<1>6. Double(0, poly) = 0
  BY DEF Double
<1> QED BY Zenon, <1>4, <1>5, <1>6

-----------------------------------------------------------------------------
(* Multiplication of polynomials, as Horner's rule has it                    *)

\* Multiplication modulo any polynomial, and a step of Horner's rule.
MulBy(poly, x, y) ==
    FoldLeft(LAMBDA sum, i : XorByDigits(Double(sum, poly), IF Bit(y, 8 - i) = 1 THEN x ELSE 0),
             0, <<1, 2, 3, 4, 5, 6, 7, 8>>)
Step(poly, x, y, i, sum) == XorByDigits(Double(sum, poly), IF Bit(y, 8 - i) = 1 THEN x ELSE 0)

\* The sums that the fold takes over the subsets of the first n places.
Sums(poly, x, y, n, f) ==
    f = [s \in SUBSET (1..n) |->
            IF s = {} THEN 0 ELSE Step(poly, x, y, Max(s), f[s \ {Max(s)}])]

\* A set of naturals has a least element.
LEMMA LeastElement ==
    ASSUME NEW S \in SUBSET Nat, S # {}
    PROVE  \E x \in S : \A y \in S : x =< y
<1> DEFINE R == {ss \in Nat \X Nat : ss[1] < ss[2]}
<1>1. OpToRel(<, Nat) = R
  BY DEF OpToRel
<1>2. PICK x \in S : \A y \in S : ~(<<y, x>> \in R)
  BY <1>1, NatLessThanWellFounded, WFMin, ZenonT(60)
<1>3. ASSUME NEW y \in S
      PROVE  x =< y
  <2>1. x \in Nat /\ y \in Nat /\ <<y, x>> \notin R
    BY <1>2
  <2>2. <<y, x>> \in Nat \X Nat
    BY <2>1
  <2>3. ~(y < x)
    BY <2>1, <2>2
  <2> QED BY <2>1, <2>3
<1> QED BY <1>3

\* The largest of some places, as MulBy's fold picks it.
LEMMA MaxIs ==
    ASSUME NEW n \in Nat, NEW s \in SUBSET (1..n), s # {}
    PROVE  Max(s) \in s /\ \A i \in s : Max(s) >= i
<1> DEFINE At(m) == m \in s /\ \A i \in s : m >= i
<1>1. \E m \in s : \A i \in s : m >= i
  <2> DEFINE top == {k \in 0..n : \A i \in s : i <= k}
  <2>2. n \in top /\ top \subseteq Nat
    OBVIOUS
  <2>3. PICK k \in top : \A l \in top : k <= l
    <3> HIDE DEF top
    <3> QED BY Zenon, <2>2, LeastElement
  <2>4. k \in s
    <3> SUFFICES ASSUME k \notin s PROVE FALSE
      OBVIOUS
    <3>1. k \in 0..n /\ \A i \in s : i <= k /\ i # k /\ i \in 1..n
      BY <2>3
    <3>2. k # 0
      <4>1. PICK i \in s : TRUE
        OBVIOUS
      <4> QED BY <3>1, <4>1
    <3>3. k - 1 \in 0..n /\ \A i \in s : i <= k - 1
      BY <3>1, <3>2
    <3>4. k - 1 \in top
      BY Zenon, <3>3
    <3>5. k <= k - 1
      BY Zenon, <2>3, <3>4
    <3> QED BY <3>1, <3>5
  <2> QED BY <2>3, <2>4
<1> QED BY Zenon, <1>1 DEF Max

\* A fold over the places to n extends to n + 1.
LEMMA SumsGrow ==
    ASSUME NEW poly, NEW x, NEW y, NEW n \in Nat, NEW f, Sums(poly, x, y, n, f)
    PROVE  \E g : Sums(poly, x, y, n + 1, g)
<1> DEFINE g == [s \in SUBSET (1..(n + 1)) |->
                    IF n + 1 \in s THEN Step(poly, x, y, n + 1, f[s \ {n + 1}]) ELSE f[s]]
<1>1. ASSUME NEW s \in SUBSET (1..(n + 1))
      PROVE  g[s] = IF s = {} THEN 0 ELSE Step(poly, x, y, Max(s), g[s \ {Max(s)}])
  <2>0. s # {} => Max(s) \in s /\ \A i \in s : Max(s) >= i
    <3>1. n + 1 \in Nat
      OBVIOUS
    <3> QED BY Zenon, <3>1, MaxIs
  <2>1. CASE n + 1 \in s
    <3>1. Max(s) = n + 1
      <4> HIDE DEF g
      <4>1. Max(s) \in s /\ Max(s) >= n + 1
        BY Zenon, <2>0, <2>1
      <4>2. Max(s) \in 1..(n + 1)
        BY Zenon, <4>1
      <4> QED BY <4>1, <4>2
    <3>2. /\ s \ {n + 1} \in SUBSET (1..n) /\ s \ {n + 1} \in SUBSET (1..(n + 1))
          /\ n + 1 \notin s \ {n + 1}
      OBVIOUS
    <3>3. g[s \ {n + 1}] = f[s \ {n + 1}]
      BY Zenon, <3>2
    <3>4. g[s] = Step(poly, x, y, n + 1, f[s \ {n + 1}])
      BY Zenon, <2>1
    <3> HIDE DEF g
    <3> QED BY Zenon, <2>1, <3>1, <3>3, <3>4
  <2>2. CASE n + 1 \notin s
    <3>1. s \in SUBSET (1..n)
      BY <2>2
    <3>2. g[s] = f[s]
      BY Zenon, <2>2
    <3>3. f[s] = IF s = {} THEN 0 ELSE Step(poly, x, y, Max(s), f[s \ {Max(s)}])
      BY Zenon, <3>1 DEF Sums
    <3>4. n + 1 \notin s \ {Max(s)} /\ s \ {Max(s)} \in SUBSET (1..(n + 1))
      BY Zenon, <2>2
    <3>5. g[s \ {Max(s)}] = f[s \ {Max(s)}]
      BY Zenon, <3>4
    <3> HIDE DEF g
    <3> QED BY Zenon, <3>2, <3>3, <3>5
  <2> QED BY Zenon, <2>1, <2>2
<1>2. Sums(poly, x, y, n + 1, g)
  <2>1. g = [s \in SUBSET (1..(n + 1)) |-> g[s]]
    OBVIOUS
  <2> HIDE DEF g
  <2> QED BY Zenon, <1>1, <2>1 DEF Sums
<1> QED BY Zenon, <1>2

\* The fold over all eight places of a factor exists.
LEMMA SumsExist ==
    ASSUME NEW poly, NEW x, NEW y
    PROVE  \E f : Sums(poly, x, y, 8, f)
<1>0. \E f : Sums(poly, x, y, 0, f)
  <2> DEFINE f == [s \in SUBSET (1..0) |-> 0]
  <2>1. \A s \in SUBSET (1..0) : s = {}
    OBVIOUS
  <2>2. Sums(poly, x, y, 0, f)
    BY Zenon, <2>1 DEF Sums
  <2> QED BY Zenon, <2>2
<1>n. \A n \in Nat : (\E f : Sums(poly, x, y, n, f)) => \E f : Sums(poly, x, y, n + 1, f)
  BY Zenon, SumsGrow
<1>t. /\ 0 \in Nat /\ 1 \in Nat /\ 2 \in Nat /\ 3 \in Nat /\ 4 \in Nat /\ 5 \in Nat /\ 6 \in Nat /\ 7 \in Nat
      /\ 0 + 1 = 1 /\ 1 + 1 = 2 /\ 2 + 1 = 3 /\ 3 + 1 = 4 /\ 4 + 1 = 5 /\ 5 + 1 = 6 /\ 6 + 1 = 7
      /\ 7 + 1 = 8
  OBVIOUS
<1>1. \E f : Sums(poly, x, y, 1, f)
  BY Zenon, <1>0, <1>n, <1>t
<1>2. \E f : Sums(poly, x, y, 2, f)
  BY Zenon, <1>1, <1>n, <1>t
<1>3. \E f : Sums(poly, x, y, 3, f)
  BY Zenon, <1>2, <1>n, <1>t
<1>4. \E f : Sums(poly, x, y, 4, f)
  BY Zenon, <1>3, <1>n, <1>t
<1>5. \E f : Sums(poly, x, y, 5, f)
  BY Zenon, <1>4, <1>n, <1>t
<1>6. \E f : Sums(poly, x, y, 6, f)
  BY Zenon, <1>5, <1>n, <1>t
<1>7. \E f : Sums(poly, x, y, 7, f)
  BY Zenon, <1>6, <1>n, <1>t
<1> QED BY Zenon, <1>7, <1>n, <1>t

\* The sums of Horner's rule.
Chain(poly, x, y, h) == h[0] = 0 /\ \A n \in 1..8 : h[n] = Step(poly, x, y, n, h[n - 1])

\* MulBy is a chain of eight steps of Horner's rule.
LEMMA MulByIs ==
    ASSUME NEW poly, NEW x, NEW y
    PROVE  \E h : Chain(poly, x, y, h) /\ MulBy(poly, x, y) = h[8]
<1> DEFINE seq == <<1, 2, 3, 4, 5, 6, 7, 8>>
           Fits(f) == f = [s \in SUBSET (DOMAIN seq) |->
                            IF s = {} THEN 0 ELSE Step(poly, x, y, seq[Max(s)], f[s \ {Max(s)}])]
           f == CHOOSE f : Fits(f)
<1>1. MulBy(poly, x, y) = f[DOMAIN seq]
  BY Zenon DEF MulBy, FoldLeft, MapThenFoldSet, Step
<1>2. DOMAIN seq = 1..8 /\ \A i \in 1..8 : seq[i] = i
  OBVIOUS
<1>3. \A h : Sums(poly, x, y, 8, h) => Fits(h)
  <2> SUFFICES ASSUME NEW h, Sums(poly, x, y, 8, h) PROVE Fits(h)
    OBVIOUS
  <2>1. \A s \in SUBSET (1..8) : s # {} => seq[Max(s)] = Max(s)
    <3> SUFFICES ASSUME NEW s \in SUBSET (1..8), s # {} PROVE seq[Max(s)] = Max(s)
      OBVIOUS
    <3>1. 8 \in Nat
      OBVIOUS
    <3>2. Max(s) \in s
      BY <3>1, MaxIs
    <3> HIDE DEF seq
    <3> QED BY Zenon, <1>2, <3>2
  <2>2. h = [s \in SUBSET (1..8) |-> IF s = {} THEN 0 ELSE Step(poly, x, y, Max(s), h[s \ {Max(s)}])]
    BY Zenon DEF Sums
  <2> HIDE DEF seq
  <2>3. \A s \in SUBSET (1..8) :
            (IF s = {} THEN 0 ELSE Step(poly, x, y, Max(s), h[s \ {Max(s)}]))
               = (IF s = {} THEN 0 ELSE Step(poly, x, y, seq[Max(s)], h[s \ {Max(s)}]))
    BY Zenon, <2>1
  <2>4. [s \in SUBSET (1..8) |-> IF s = {} THEN 0 ELSE Step(poly, x, y, Max(s), h[s \ {Max(s)}])]
          = [s \in SUBSET (1..8) |-> IF s = {} THEN 0 ELSE Step(poly, x, y, seq[Max(s)], h[s \ {Max(s)}])]
    BY Zenon, <2>3
  <2> QED BY Zenon, <1>2, <2>2, <2>4
<1>4. Fits(f)
  <2>1. \E h : Fits(h)
    <3> HIDE DEF Fits
    <3> QED BY Zenon, <1>3, SumsExist
  <2> HIDE DEF Fits
  <2> QED BY Zenon, <2>1
<1> HIDE DEF f
<1>5. \A s \in SUBSET (1..8) : s # {} => f[s] = Step(poly, x, y, seq[Max(s)], f[s \ {Max(s)}])
  <2> HIDE DEF seq
  <2> QED BY Zenon, <1>2, <1>4
<1>6. f[{}] = 0
  <2> HIDE DEF seq
  <2> QED BY Zenon, <1>2, <1>4
<1>7. ASSUME NEW n \in 1..8
      PROVE  f[1..n] = Step(poly, x, y, n, f[1..(n - 1)])
  <2>0. 8 \in Nat
    OBVIOUS
  <2>1. 1..n \in SUBSET (1..8) /\ 1..n # {}
    OBVIOUS
  <2>2. Max(1..n) \in 1..n /\ \A i \in 1..n : Max(1..n) >= i
    BY <2>0, <2>1, MaxIs
  <2>3. Max(1..n) = n
    BY <2>2
  <2>4. (1..n) \ {n} = 1..(n - 1)
    OBVIOUS
  <2>5. seq[n] = n
    <3> HIDE DEF seq
    <3> QED BY Zenon, <1>2
  <2> HIDE DEF seq
  <2>6. f[1..n] = Step(poly, x, y, seq[Max(1..n)], f[(1..n) \ {Max(1..n)}])
    BY Zenon, <1>5, <2>1
  <2> QED BY Zenon, <2>3, <2>4, <2>5, <2>6
<1> DEFINE h == [n \in 0..8 |-> f[1..n]]
<1>8. /\ h[0] = f[{}] /\ h[8] = f[1..8]
      /\ \A n \in 1..8 : h[n] = f[1..n] /\ h[n - 1] = f[1..(n - 1)]
  <2>1. 1..0 = {} /\ 0 \in 0..8 /\ 8 \in 0..8 /\ \A n \in 1..8 : n \in 0..8 /\ n - 1 \in 0..8
    OBVIOUS
  <2> QED BY Zenon, <2>1
<1> HIDE DEF h, seq, Fits
<1>9. Chain(poly, x, y, h)
  BY SMT, <1>6, <1>7, <1>8 DEF Chain
<1> QED BY Zenon, <1>1, <1>2, <1>8, <1>9

\* What holds at zero and passes from n - 1 to n holds to the end of a range.
LEMMA StepByStep ==
    ASSUME NEW N \in Nat, NEW S, 0 \in S, \A n \in 1..N : n - 1 \in S => n \in S
    PROVE  \A n \in 0..N : n \in S
<1> SUFFICES ASSUME NEW m \in 0..N, m \notin S PROVE FALSE
  OBVIOUS
<1> DEFINE T == {n \in 0..N : n \notin S}
<1>1. PICK k \in T : \A l \in T : k <= l
  <2>1. T # {} /\ T \in SUBSET Nat
    OBVIOUS
  <2> HIDE DEF T
  <2> QED BY Zenon, <2>1, LeastElement
<1>2. k \in 1..N /\ k - 1 \in 0..N
  BY <1>1
<1>3. k - 1 \notin S
  BY Zenon, <1>1, <1>2
<1>4. k <= k - 1
  BY Zenon, <1>1, <1>2, <1>3
<1> QED BY <1>2, <1>4

-----------------------------------------------------------------------------
(* The laws of multiplication                                                *)

\* Zero, one and the size of a byte.
LEMMA ByteFacts == 0 \in Byte /\ 1 \in Byte /\ \A x \in Byte : x \in Nat /\ x < 256
<1> QED BY DEF Byte

\* What a step of Horner's rule adds.
Summand(x, y, n) == IF Bit(y, 8 - n) = 1 THEN x ELSE 0

\* The sums are bytes.
LEMMA ChainIs ==
    ASSUME NEW poly \in Nat, NEW x \in Byte, NEW y, NEW h, Chain(poly, x, y, h)
    PROVE  /\ \A n \in 0..8 : h[n] \in Byte
           /\ \A n \in 1..8 : /\ Summand(x, y, n) \in Byte
                              /\ h[n] = XorByDigits(Double(h[n - 1], poly), Summand(x, y, n))
<1>1. \A n \in 1..8 : /\ Summand(x, y, n) \in Byte
                      /\ h[n] = XorByDigits(Double(h[n - 1], poly), Summand(x, y, n))
  BY Zenon, ByteFacts DEF Chain, Step, Summand
<1> DEFINE S == {n \in 0..8 : h[n] \in Byte}
<1>2. 0 \in S
  <2>1. 0 \in 0..8
    OBVIOUS
  <2> QED BY Zenon, <2>1, ByteFacts DEF Chain
<1>3. \A n \in 1..8 : n - 1 \in S => n \in S
  <2> SUFFICES ASSUME NEW n \in 1..8, n - 1 \in S PROVE n \in S
    OBVIOUS
  <2>1. n \in 0..8
    OBVIOUS
  <2>2. Double(h[n - 1], poly) \in Byte
    <3>1. h[n - 1] \in Byte
      BY Zenon
    <3> QED BY Zenon, <3>1, DoubleLinear
  <2>3. h[n] \in Byte
    BY Zenon, <1>1, <2>2, XorClosed
  <2> QED BY Zenon, <2>1, <2>3
<1>4. 8 \in Nat
  OBVIOUS
<1>5. \A n \in 0..8 : n \in S
  <2> HIDE DEF S
  <2> QED BY Zenon, <1>2, <1>3, <1>4, StepByStep
<1> QED BY Zenon, <1>1, <1>5

\* A product is a byte.
LEMMA MulByInByte ==
    ASSUME NEW poly \in Nat, NEW x \in Byte, NEW y
    PROVE  MulBy(poly, x, y) \in Byte
<1>1. PICK h : Chain(poly, x, y, h) /\ MulBy(poly, x, y) = h[8]
  BY Zenon, MulByIs
<1>2. 8 \in 0..8
  OBVIOUS
<1>3. h[8] \in Byte
  BY <1>1, <1>2, ChainIs
<1> QED BY Zenon, <1>1, <1>3

\* Multiplication is linear in its first factor.
LEMMA MulByLinear ==
    ASSUME NEW poly \in Nat, NEW a \in Byte, NEW b \in Byte, NEW y
    PROVE  MulBy(poly, XorByDigits(a, b), y) = XorByDigits(MulBy(poly, a, y), MulBy(poly, b, y))
<1> DEFINE c == XorByDigits(a, b)
<1>0. c \in Byte
  BY Zenon, XorClosed
<1> HIDE DEF c
<1>1. PICK f : Chain(poly, a, y, f) /\ MulBy(poly, a, y) = f[8]
  BY Zenon, MulByIs
<1>2. PICK g : Chain(poly, b, y, g) /\ MulBy(poly, b, y) = g[8]
  BY Zenon, MulByIs
<1>3. PICK h : Chain(poly, c, y, h) /\ MulBy(poly, c, y) = h[8]
  BY Zenon, MulByIs
<1>a. /\ \A n \in 0..8 : f[n] \in Byte
      /\ \A n \in 1..8 : /\ Summand(a, y, n) \in Byte
                         /\ f[n] = XorByDigits(Double(f[n - 1], poly), Summand(a, y, n))
  BY <1>1, ChainIs
<1>b. /\ \A n \in 0..8 : g[n] \in Byte
      /\ \A n \in 1..8 : /\ Summand(b, y, n) \in Byte
                         /\ g[n] = XorByDigits(Double(g[n - 1], poly), Summand(b, y, n))
  BY <1>2, ChainIs
<1>c. /\ \A n \in 0..8 : h[n] \in Byte
      /\ \A n \in 1..8 : h[n] = XorByDigits(Double(h[n - 1], poly), Summand(c, y, n))
  BY <1>0, <1>3, ChainIs
<1> DEFINE S == {n \in 0..8 : h[n] = XorByDigits(f[n], g[n])}
<1>5. 0 \in S
  <2>1. 0 \in 0..8 /\ XorByDigits(0, 0) = 0
    BY ByteFacts, XorLaws
  <2> QED BY Zenon, <1>1, <1>2, <1>3, <2>1 DEF Chain
<1>6. \A n \in 1..8 : n - 1 \in S => n \in S
  <2> SUFFICES ASSUME NEW n \in 1..8, n - 1 \in S PROVE n \in S
    OBVIOUS
  <2>1. n \in 0..8 /\ n - 1 \in 0..8
    OBVIOUS
  <2> DEFINE u == f[n - 1]
             v == g[n - 1]
  <2>2. u \in Byte /\ v \in Byte /\ h[n - 1] = XorByDigits(u, v)
    BY Zenon, <1>a, <1>b, <2>1
  <2>4. /\ h[n] = XorByDigits(Double(h[n - 1], poly), Summand(c, y, n))
        /\ f[n] = XorByDigits(Double(u, poly), Summand(a, y, n)) /\ Summand(a, y, n) \in Byte
        /\ g[n] = XorByDigits(Double(v, poly), Summand(b, y, n)) /\ Summand(b, y, n) \in Byte
    BY Zenon, <1>a, <1>b, <1>c
  <2> HIDE DEF u, v, S
  <2>5. /\ Double(h[n - 1], poly) = XorByDigits(Double(u, poly), Double(v, poly))
        /\ Double(u, poly) \in Byte /\ Double(v, poly) \in Byte
    BY <2>2, DoubleLinear
  <2>6. Summand(c, y, n) = XorByDigits(Summand(a, y, n), Summand(b, y, n))
    <3>1. XorByDigits(0, 0) = 0
      BY ByteFacts, XorLaws
    <3> QED BY Zenon, <3>1 DEF Summand, c
  <2>7. XorByDigits(XorByDigits(Double(u, poly), Double(v, poly)),
                    XorByDigits(Summand(a, y, n), Summand(b, y, n)))
          = XorByDigits(XorByDigits(Double(u, poly), Summand(a, y, n)),
                        XorByDigits(Double(v, poly), Summand(b, y, n)))
    BY <2>4, <2>5, XorInterchange
  <2>8. h[n] = XorByDigits(f[n], g[n])
    BY Zenon, <2>4, <2>5, <2>6, <2>7
  <2> QED BY Zenon, <2>1, <2>8 DEF S
<1>7. 8 \in Nat /\ 8 \in 0..8
  OBVIOUS
<1>8. \A n \in 0..8 : n \in S
  <2> HIDE DEF S
  <2> QED BY Zenon, <1>5, <1>6, <1>7, StepByStep
<1>9. h[8] = XorByDigits(f[8], g[8])
  BY Zenon, <1>7, <1>8
<1> QED BY Zenon, <1>1, <1>2, <1>3, <1>9 DEF c

\* Doubling a factor doubles the product.
LEMMA MulByDouble ==
    ASSUME NEW poly \in Nat, NEW a \in Byte, NEW y
    PROVE  MulBy(poly, Double(a, poly), y) = Double(MulBy(poly, a, y), poly)
<1> DEFINE c == Double(a, poly)
<1>0. c \in Byte
  BY Zenon, DoubleLinear
<1> HIDE DEF c
<1>1. PICK f : Chain(poly, a, y, f) /\ MulBy(poly, a, y) = f[8]
  BY Zenon, MulByIs
<1>3. PICK h : Chain(poly, c, y, h) /\ MulBy(poly, c, y) = h[8]
  BY Zenon, MulByIs
<1>a. /\ \A n \in 0..8 : f[n] \in Byte
      /\ \A n \in 1..8 : /\ Summand(a, y, n) \in Byte
                         /\ f[n] = XorByDigits(Double(f[n - 1], poly), Summand(a, y, n))
  BY <1>1, ChainIs
<1>c. /\ \A n \in 0..8 : h[n] \in Byte
      /\ \A n \in 1..8 : h[n] = XorByDigits(Double(h[n - 1], poly), Summand(c, y, n))
  BY <1>0, <1>3, ChainIs
<1> DEFINE S == {n \in 0..8 : h[n] = Double(f[n], poly)}
<1>5. 0 \in S
  <2>1. 0 \in 0..8
    OBVIOUS
  <2>2. Double(0, poly) = 0
    BY Zenon, DoubleLinear
  <2> QED BY Zenon, <1>1, <1>3, <2>1, <2>2 DEF Chain
<1>6. \A n \in 1..8 : n - 1 \in S => n \in S
  <2> SUFFICES ASSUME NEW n \in 1..8, n - 1 \in S PROVE n \in S
    OBVIOUS
  <2>1. n \in 0..8 /\ n - 1 \in 0..8
    OBVIOUS
  <2> DEFINE u == f[n - 1]
  <2>2. u \in Byte /\ h[n - 1] = Double(u, poly)
    BY Zenon, <1>a, <2>1
  <2>4. /\ h[n] = XorByDigits(Double(h[n - 1], poly), Summand(c, y, n))
        /\ f[n] = XorByDigits(Double(u, poly), Summand(a, y, n)) /\ Summand(a, y, n) \in Byte
    BY Zenon, <1>a, <1>c
  <2> HIDE DEF u, S
  <2>5. Double(u, poly) \in Byte
    BY Zenon, <2>2, DoubleLinear
  <2>6. Summand(c, y, n) = Double(Summand(a, y, n), poly)
    <3>1. Double(0, poly) = 0
      BY Zenon, DoubleLinear
    <3> QED BY Zenon, <3>1 DEF Summand, c
  <2>7. Double(XorByDigits(Double(u, poly), Summand(a, y, n)), poly)
          = XorByDigits(Double(Double(u, poly), poly), Double(Summand(a, y, n), poly))
    BY <2>4, <2>5, DoubleLinear
  <2>8. h[n] = Double(f[n], poly)
    BY Zenon, <2>2, <2>4, <2>6, <2>7
  <2> QED BY Zenon, <2>1, <2>8 DEF S
<1>7. 8 \in Nat /\ 8 \in 0..8
  OBVIOUS
<1>8. \A n \in 0..8 : n \in S
  <2> HIDE DEF S
  <2> QED BY Zenon, <1>5, <1>6, <1>7, StepByStep
<1>9. h[8] = Double(f[8], poly)
  BY Zenon, <1>7, <1>8
<1> QED BY Zenon, <1>1, <1>3, <1>9 DEF c

\* The last bit of an even byte.
LEMMA XorWithBit ==
    ASSUME NEW q \in 0..127, NEW b \in {0, 1}
    PROVE  XorByDigits(2 * q, b) = 2 * q + b
<1> DEFINE x == 2 * q
<1>1. x \in Byte /\ b \in Byte
  BY DEF Byte
<1>2. CASE b = 0
  <2> HIDE DEF x
  <2>1. XorByDigits(x, 0) = x
    BY Zenon, <1>1, XorLaws
  <2>2. x + 0 = x
    BY <1>1 DEF Byte
  <2> QED BY Zenon, <1>2, <2>1, <2>2 DEF x
<1>3. CASE b = 1
  <2> DEFINE e == [k \in Digits |-> IF k = 0 THEN 1 ELSE 0]
  <2>1. e \in Quads /\ ByteOf(e) = 1
    BY DEF Digits, Quads, ByteOf
  <2>2. PICK d \in Quads : x = ByteOf(d)
    BY Zenon, <1>1, DigitsOfByte
  <2>3. /\ d[0] \in 0..3 /\ d[1] \in 0..3 /\ d[2] \in 0..3 /\ d[3] \in 0..3
        /\ 2 * q = d[0] + 4 * d[1] + 16 * d[2] + 64 * d[3]
    BY <2>2 DEF Digits, Quads, ByteOf
  <2>4. d[0] \in {0, 2}
    <3>1. ASSUME NEW a \in 0..3, NEW c \in 0..3, NEW f \in 0..3, NEW g \in 0..3,
                 2 * q = a + 4 * c + 16 * f + 64 * g
          PROVE  a \in {0, 2}
      BY <3>1
    <3> HIDE DEF e, x
    <3> QED BY <2>3, <3>1
  <2>5. XorByDigits(x, 1) = ByteOf(Joined(d, e))
    BY Zenon, <2>1, <2>2, XorOfDigits
  <2>6. /\ Joined(d, e)[0] = d[0] + 1 /\ Joined(d, e)[1] = d[1] /\ Joined(d, e)[2] = d[2]
        /\ Joined(d, e)[3] = d[3]
    <3>1. /\ Joined(d, e)[0] = XorOf(d[0], 1) /\ Joined(d, e)[1] = XorOf(d[1], 0)
          /\ Joined(d, e)[2] = XorOf(d[2], 0) /\ Joined(d, e)[3] = XorOf(d[3], 0)
      BY DEF Joined, Digits
    <3>2. \A a \in 0..3 : XorOf(a, 0) = a
      BY Zenon, DigitLaws DEF Digits
    <3>3. XorOf(0, 1) = 0 + 1 /\ XorOf(2, 1) = 2 + 1
      BY DEF XorOf, XorDigit
    <3> HIDE DEF e, x
    <3> QED BY SMT, <2>3, <2>4, <3>1, <3>2, <3>3
  <2>7. ByteOf(Joined(d, e)) = 2 * q + 1
    <3> HIDE DEF e, x
    <3> QED BY <2>3, <2>6 DEF ByteOf
  <2> HIDE DEF x
  <2> QED BY Zenon, <1>3, <2>5, <2>7 DEF x
<1> QED BY Zenon, <1>2, <1>3

\* The powers of two that single out a bit.
LEMMA PowersOfTwo ==
    \A n \in {1, 2, 3, 4, 5, 6, 7, 8} :
        2^(8 - n) \in {1, 2, 4, 8, 16, 32, 64, 128} /\ 2^(8 - (n - 1)) = 2 * 2^(8 - n)
<1>1. /\ 2^(8 - 1) = 128 /\ 2^(8 - 2) = 64 /\ 2^(8 - 3) = 32 /\ 2^(8 - 4) = 16
      /\ 2^(8 - 5) = 8 /\ 2^(8 - 6) = 4 /\ 2^(8 - 7) = 2 /\ 2^(8 - 8) = 1
  OBVIOUS
<1>2. /\ 2^(8 - (1 - 1)) = 256 /\ 2^(8 - (2 - 1)) = 128 /\ 2^(8 - (3 - 1)) = 64
      /\ 2^(8 - (4 - 1)) = 32 /\ 2^(8 - (5 - 1)) = 16 /\ 2^(8 - (6 - 1)) = 8
      /\ 2^(8 - (7 - 1)) = 4 /\ 2^(8 - (8 - 1)) = 2
  OBVIOUS
<1>3. ASSUME NEW n \in {1, 2, 3, 4, 5, 6, 7, 8}
      PROVE  2^(8 - n) \in {1, 2, 4, 8, 16, 32, 64, 128} /\ 2^(8 - (n - 1)) = 2 * 2^(8 - n)
  <2>1. CASE n = 1 BY <1>1, <1>2, <2>1
  <2>2. CASE n = 2 BY <1>1, <1>2, <2>2
  <2>3. CASE n = 3 BY <1>1, <1>2, <2>3
  <2>4. CASE n = 4 BY <1>1, <1>2, <2>4
  <2>5. CASE n = 5 BY <1>1, <1>2, <2>5
  <2>6. CASE n = 6 BY <1>1, <1>2, <2>6
  <2>7. CASE n = 7 BY <1>1, <1>2, <2>7
  <2>8. CASE n = 8 BY <1>1, <1>2, <2>8
  <2> QED BY Zenon, <2>1, <2>2, <2>3, <2>4, <2>5, <2>6, <2>7, <2>8
<1> QED BY Zenon, <1>3

\* One and zero.
LEMMA MulByUnits ==
    ASSUME NEW poly \in Nat, NEW x \in Byte
    PROVE  /\ MulBy(poly, 0, x) = 0 /\ MulBy(poly, x, 0) = 0
           /\ MulBy(poly, x, 1) = x /\ MulBy(poly, 1, x) = x
<1>z. 0 \in Byte /\ 1 \in Byte /\ 8 \in Nat /\ 8 \in 0..8 /\ 0 \in 0..8 /\ 0 \in 0..7 /\ 7 \in Nat
      /\ 7 \in 0..7
  BY ByteFacts
<1>x. XorByDigits(0, 0) = 0 /\ Double(0, poly) = 0 /\ XorByDigits(0, x) = x
  <2>1. XorByDigits(0, 0) = 0 /\ XorByDigits(x, 0) = x
    BY Zenon, <1>z, XorLaws
  <2>2. XorByDigits(0, x) = XorByDigits(x, 0)
    BY Zenon, <1>z, XorCommutes
  <2> QED BY Zenon, <2>1, <2>2, DoubleLinear
<1>1. \A y, h : \A w \in Byte, N \in 0..8 :
          Chain(poly, w, y, h) /\ (\A n \in 1..N : Summand(w, y, n) = 0) => h[N] = 0
  <2> SUFFICES ASSUME NEW y, NEW h, NEW w \in Byte, NEW N \in 0..8,
                      Chain(poly, w, y, h), \A n \in 1..N : Summand(w, y, n) = 0
               PROVE  h[N] = 0
    BY Zenon
  <2> DEFINE S == {n \in 0..N : h[n] = 0}
  <2>1. 0 \in S
    <3>1. 0 \in 0..N
      OBVIOUS
    <3> QED BY Zenon, <3>1 DEF Chain
  <2>2. \A n \in 1..N : n - 1 \in S => n \in S
    <3> SUFFICES ASSUME NEW n \in 1..N, n - 1 \in S PROVE n \in S
      OBVIOUS
    <3>1. n \in 0..N /\ n \in 1..8
      OBVIOUS
    <3>2. h[n] = XorByDigits(Double(h[n - 1], poly), Summand(w, y, n))
      BY <3>1, ChainIs
    <3>3. h[n] = 0
      BY Zenon, <1>x, <3>2
    <3> QED BY Zenon, <3>1, <3>3
  <2>3. N \in Nat /\ N \in 0..N
    OBVIOUS
  <2>4. \A n \in 0..N : n \in S
    <3> HIDE DEF S
    <3> QED BY Zenon, <2>1, <2>2, <2>3, StepByStep
  <2> QED BY Zenon, <2>3, <2>4
<1>2. MulBy(poly, 0, x) = 0
  <2>1. PICK h : Chain(poly, 0, x, h) /\ MulBy(poly, 0, x) = h[8]
    BY Zenon, MulByIs
  <2>2. \A n \in 1..8 : Summand(0, x, n) = 0
    BY Zenon DEF Summand
  <2>3. h[8] = 0
    BY <1>1, <1>z, <2>1, <2>2
  <2> QED BY Zenon, <2>1, <2>3
<1>p. /\ 2^0 = 1 /\ 2^1 = 2 /\ 2^2 = 4 /\ 2^3 = 8 /\ 2^4 = 16 /\ 2^5 = 32 /\ 2^6 = 64 /\ 2^7 = 128
  OBVIOUS
<1>q. \A n \in 1..8 : 8 - n \in 0..7
  OBVIOUS
<1>3. MulBy(poly, x, 0) = 0
  <2>1. PICK h : Chain(poly, x, 0, h) /\ MulBy(poly, x, 0) = h[8]
    BY Zenon, MulByIs
  <2>2. \A i \in 0..7 : Bit(0, i) = 0
    <3> SUFFICES ASSUME NEW i \in 0..7 PROVE Bit(0, i) = 0
      OBVIOUS
    <3>1. i = 0 \/ i = 1 \/ i = 2 \/ i = 3 \/ i = 4 \/ i = 5 \/ i = 6 \/ i = 7
      OBVIOUS
    <3>2. PICK v : v = 2^i
      OBVIOUS
    <3>4. v \in {1, 2, 4, 8, 16, 32, 64, 128}
      BY ZenonT(60), <1>p, <3>1, <3>2
    <3>3. (0 \div v) % 2 = 0
      BY <3>4
    <3> QED BY Zenon, <3>2, <3>3 DEF Bit
  <2>3. \A n \in 1..8 : Summand(x, 0, n) = 0
    BY <1>q, <2>2 DEF Summand
  <2>4. h[8] = 0
    BY <1>1, <1>z, <2>1, <2>3
  <2> QED BY Zenon, <2>1, <2>4
<1>4. MulBy(poly, x, 1) = x
  <2>1. PICK h : Chain(poly, x, 1, h) /\ MulBy(poly, x, 1) = h[8]
    BY Zenon, MulByIs
  <2>2. Bit(1, 0) = 1 /\ \A i \in 1..7 : Bit(1, i) = 0
    BY <1>p DEF Bit
  <2>3. Summand(x, 1, 8) = x /\ \A n \in 1..7 : Summand(x, 1, n) = 0
    <3>1. 8 - 8 = 0 /\ \A n \in 1..7 : 8 - n \in 1..7
      OBVIOUS
    <3> QED BY <2>2, <3>1 DEF Summand
  <2>4. h[7] = 0
    <3>1. 7 \in 0..8
      OBVIOUS
    <3> QED BY <1>1, <2>1, <2>3, <3>1
  <2>6. h[8] = XorByDigits(Double(0, poly), Summand(x, 1, 8))
    <3>1. 8 \in 1..8 /\ 8 - 1 = 7
      OBVIOUS
    <3>2. h[8] = XorByDigits(Double(h[8 - 1], poly), Summand(x, 1, 8))
      BY <2>1, <3>1, ChainIs
    <3> QED BY Zenon, <2>4, <3>1, <3>2
  <2> QED BY Zenon, <1>x, <2>1, <2>3, <2>6
<1>5. MulBy(poly, 1, x) = x
  <2>1. PICK h : Chain(poly, 1, x, h) /\ MulBy(poly, 1, x) = h[8]
    BY Zenon, MulByIs
  <2> DEFINE S == {n \in 0..8 : h[n] = x \div 2^(8 - n)}
  <2>2. 0 \in S
    <3>1. h[0] = 0 /\ x \div 2^(8 - 0) = 0 /\ 0 \in 0..8
      BY <2>1 DEF Chain, Byte
    <3> QED BY Zenon, <3>1
  <2>3. \A n \in 1..8 : n - 1 \in S => n \in S
    <3> SUFFICES ASSUME NEW n \in 1..8, n - 1 \in S PROVE n \in S
      OBVIOUS
    <3> DEFINE q == x \div 2^(8 - (n - 1))
               b == (x \div 2^(8 - n)) % 2
    <3>1. q \in 0..127 /\ b \in {0, 1} /\ x \div 2^(8 - n) = 2 * q + b
      <4>1. ASSUME NEW v \in {1, 2, 4, 8, 16, 32, 64, 128}
            PROVE  /\ x \div (2 * v) \in 0..127 /\ (x \div v) % 2 \in {0, 1}
                   /\ x \div v = 2 * (x \div (2 * v)) + ((x \div v) % 2)
        <5>1. x \in 0..255
          BY DEF Byte
        <5> HIDE DEF S, q, b
        <5> QED BY <5>1
      <4>2. n \in {1, 2, 3, 4, 5, 6, 7, 8}
        OBVIOUS
      <4>3. PICK v : v = 2^(8 - n)
        OBVIOUS
      <4>4. v \in {1, 2, 4, 8, 16, 32, 64, 128} /\ 2^(8 - (n - 1)) = 2 * v
        BY ZenonT(60), <4>2, <4>3, PowersOfTwo
      <4>5. /\ x \div (2 * v) \in 0..127 /\ (x \div v) % 2 \in {0, 1}
            /\ x \div v = 2 * (x \div (2 * v)) + ((x \div v) % 2)
        BY SMT, <4>1, <4>4
      <4> HIDE DEF S
      <4> QED BY Zenon, <4>3, <4>4, <4>5
    <3>2. h[n - 1] = q
      BY Zenon
    <3>3. Summand(1, x, n) = b
      BY Zenon, <3>1 DEF Summand, Bit
    <3>4. h[n] = XorByDigits(Double(q, poly), Summand(1, x, n))
      BY <1>z, <2>1, <3>2, ChainIs
    <3> HIDE DEF q, b
    <3>5. q \in Byte /\ Double(q, poly) = 2 * q
      BY <3>1 DEF Byte, Double
    <3>6. h[n] = XorByDigits(2 * q, b)
      BY Zenon, <3>3, <3>4, <3>5
    <3>7. h[n] = x \div 2^(8 - n)
      <4>1. XorByDigits(2 * q, b) = 2 * q + b
        BY <3>1, XorWithBit
      <4> QED BY Zenon, <3>1, <3>6, <4>1
    <3>8. n \in 0..8
      OBVIOUS
    <3> QED BY Zenon, <3>7, <3>8
  <2>4. \A n \in 0..8 : n \in S
    <3> HIDE DEF S
    <3> QED BY Zenon, <1>z, <2>2, <2>3, StepByStep
  <2>5. h[8] = x \div 2^(8 - 8)
    BY Zenon, <1>z, <2>4
  <2>6. x \div 2^(8 - 8) = x
    BY DEF Byte
  <2> QED BY Zenon, <2>1, <2>5, <2>6
<1> QED BY Zenon, <1>2, <1>3, <1>4, <1>5

-----------------------------------------------------------------------------
(* The powers of the generator, in rounds                                    *)

\* What the generator's powers are, as a sequence of so many.
Run(poly, p, n) ==
    /\ p \in Seq(Byte) /\ Len(p) = n /\ p[1] = 1
    /\ \A i \in 1..(n - 1) : p[i + 1] = Double(p[i], poly)

\* A table of a power of two doublings: it goes with doubling, and leads from the
\* first power to the one behind the last.
Leap(poly, s, p, n) ==
    /\ s \in [1..256 -> Byte]
    /\ \A x \in Byte : s[Double(x, poly) + 1] = Double(s[x + 1], poly)
    /\ s[1 + 1] = Double(p[n], poly)

FirstRound(poly) == [powers |-> <<1>>, step |-> Doubles(poly)]
NextRound(last) ==
    [powers |-> last.powers \o [i \in 1..Len(last.powers) |-> last.step[last.powers[i] + 1]],
     step |-> Tabulated([i \in 1..256 |-> last.step[last.step[i] + 1]])]

Rounds(poly, n, f) == f = [k \in 0..n |-> IF k = 0 THEN FirstRound(poly) ELSE NextRound(f[k - 1])]

\* A table of bytes is read one place further on.
LEMMA ByteIndex ==
    /\ \A x \in Byte : x + 1 \in 1..256 /\ (x + 1) - 1 = x
    /\ \A i \in 1..256 : i - 1 \in Byte /\ (i - 1) + 1 = i
<1> QED BY DEF Byte

\* The first table of doubles holds each byte's double.
LEMMA DoublesIs ==
    ASSUME NEW poly \in Nat
    PROVE  /\ Doubles(poly) \in [1..256 -> Byte]
           /\ \A x \in Byte : Doubles(poly)[x + 1] = Double(x, poly)
<1> DEFINE s == [i \in 1..256 |-> Double(i - 1, poly)]
<1>1. DOMAIN s = 1..256 /\ s = [i \in 1..256 |-> s[i]] /\ 256 \in Nat
  OBVIOUS
<1>2. \A x \in Byte : s[x + 1] = Double(x, poly)
  BY Zenon, ByteIndex
<1>3. s \in [1..256 -> Byte]
  <2>1. \A i \in 1..256 : Double(i - 1, poly) \in Byte
    BY Zenon, ByteIndex, DoubleLinear
  <2> QED BY Zenon, <2>1
<1>4. Doubles(poly) = Tabulated(s)
  BY Zenon DEF Doubles
<1> HIDE DEF s
<1>5. Tabulated(s) = s
  BY Zenon, <1>1, TabulatedIs
<1> QED BY Zenon, <1>2, <1>3, <1>4, <1>5

\* Before the first round there is one power, and a step that doubles.
LEMMA FirstRoundIs ==
    ASSUME NEW poly \in Nat
    PROVE  Run(poly, FirstRound(poly).powers, 1)
           /\ Leap(poly, FirstRound(poly).step, FirstRound(poly).powers, 1)
<1>1. FirstRound(poly).powers = <<1>> /\ FirstRound(poly).step = Doubles(poly)
  BY DEF FirstRound
<1>2. Run(poly, <<1>>, 1)
  <2>1. 1 \in Byte
    BY ByteFacts
  <2> QED BY <2>1 DEF Run
<1>3. Leap(poly, Doubles(poly), <<1>>, 1)
  <2>1. <<1>>[1] = 1
    OBVIOUS
  <2>2. \A x \in Byte : Double(x, poly) \in Byte
    BY Zenon, DoubleLinear
  <2> QED BY Zenon, <2>1, <2>2, ByteFacts, DoublesIs DEF Leap
<1> QED BY Zenon, <1>1, <1>2, <1>3

\* Two lists of equal length, one behind the other.
LEMMA ConcatIs ==
    ASSUME NEW n \in Nat, n >= 1, NEW p \in Seq(Byte), NEW t \in Seq(Byte), Len(p) = n, Len(t) = n
    PROVE  /\ p \o t \in Seq(Byte) /\ Len(p \o t) = 2 * n
           /\ \A i \in 1..n : p[i] \in Byte /\ (p \o t)[i] = p[i]
           /\ \A i \in (n + 1)..(2 * n) : (p \o t)[i] = t[i - n]
<1>1. p \o t \in Seq(Byte) /\ Len(p \o t) = 2 * n
  OBVIOUS
<1>2. \A i \in 1..n : p[i] \in Byte /\ (p \o t)[i] = p[i]
  OBVIOUS
<1>3. \A i \in (n + 1)..(2 * n) : (p \o t)[i] = t[i - n]
  OBVIOUS
<1> QED BY Zenon, <1>1, <1>2, <1>3

\* A round doubles the list of powers and squares the step.
LEMMA NextRoundIs ==
    ASSUME NEW poly \in Nat, NEW n \in Nat, n >= 1, NEW r,
           Run(poly, r.powers, n), Leap(poly, r.step, r.powers, n)
    PROVE  /\ Run(poly, NextRound(r).powers, 2 * n)
           /\ Leap(poly, NextRound(r).step, NextRound(r).powers, 2 * n)
<1> DEFINE p == r.powers
           s == r.step
           t == [i \in 1..n |-> s[p[i] + 1]]
           u == [i \in 1..256 |-> s[s[i] + 1]]
<1>0. /\ p \in Seq(Byte) /\ Len(p) = n /\ p[1] = 1 /\ \A i \in 1..(n - 1) : p[i + 1] = Double(p[i], poly)
      /\ s \in [1..256 -> Byte] /\ \A x \in Byte : s[Double(x, poly) + 1] = Double(s[x + 1], poly)
      /\ s[1 + 1] = Double(p[n], poly)
  BY Zenon DEF Run, Leap
<1>1. NextRound(r).powers = p \o t /\ NextRound(r).step = Tabulated(u)
  <2>1. NextRound(r) = [powers |-> p \o t, step |-> Tabulated(u)]
    BY Zenon, <1>0 DEF NextRound
  <2> HIDE DEF p, t, u
  <2> QED BY <2>1
<1>2. Tabulated(u) = u
  <2>1. DOMAIN u = 1..256 /\ u = [i \in 1..256 |-> u[i]] /\ 256 \in Nat
    OBVIOUS
  <2> HIDE DEF u
  <2> QED BY Zenon, <2>1, TabulatedIs
<1> HIDE DEF p, s
<1>3. \A x \in Byte : s[x + 1] \in Byte
  BY Zenon, <1>0, ByteIndex
<1>4. \A i \in 1..n : p[i] \in Byte
  <2> HIDE DEF t, u
  <2>1. p \in Seq(Byte) /\ Len(p) = n
    BY Zenon, <1>0
  <2> QED BY <2>1
<1>5. t \in Seq(Byte) /\ Len(t) = n /\ \A i \in 1..n : t[i] = s[p[i] + 1]
  BY <1>3, <1>4
<1>6. Run(poly, p \o t, 2 * n)
  <2> HIDE DEF t
  <2>1. /\ p \o t \in Seq(Byte) /\ Len(p \o t) = 2 * n
        /\ \A i \in 1..n : (p \o t)[i] = p[i]
        /\ \A i \in (n + 1)..(2 * n) : (p \o t)[i] = t[i - n]
    BY ZenonT(60), <1>0, <1>5, ConcatIs
  <2>2. (p \o t)[1] = 1
    <3>1. 1 \in 1..n
      OBVIOUS
    <3> QED BY Zenon, <1>0, <2>1, <3>1
  <2>3. ASSUME NEW i \in 1..(2 * n - 1)
        PROVE  (p \o t)[i + 1] = Double((p \o t)[i], poly)
    <3>1. CASE i < n
      <4>1. i \in 1..n /\ i + 1 \in 1..n /\ i \in 1..(n - 1)
        BY <3>1
      <4> QED BY Zenon, <1>0, <2>1, <4>1
    <3>2. CASE i = n
      <4>1. n \in 1..n /\ n + 1 \in (n + 1)..(2 * n) /\ (n + 1) - n = 1 /\ 1 \in 1..n
        BY <3>2
      <4>2. (p \o t)[n] = p[n] /\ (p \o t)[n + 1] = t[1] /\ t[1] = s[p[1] + 1]
        BY <1>5, <2>1, <4>1
      <4> QED BY Zenon, <1>0, <3>2, <4>2
    <3>3. CASE i > n
      <4> DEFINE k == i - n
      <4>1. /\ k \in 1..n /\ k + 1 \in 1..n /\ k \in 1..(n - 1)
            /\ i \in (n + 1)..(2 * n) /\ i + 1 \in (n + 1)..(2 * n) /\ (i + 1) - n = k + 1
        BY <3>3
      <4>2. (p \o t)[i] = t[k] /\ (p \o t)[i + 1] = t[(i + 1) - n]
        BY Zenon, <2>1, <4>1
      <4> HIDE DEF k
      <4>3. t[k] = s[p[k] + 1] /\ t[k + 1] = s[p[k + 1] + 1] /\ p[k + 1] = Double(p[k], poly)
            /\ p[k] \in Byte
        BY Zenon, <1>0, <1>4, <1>5, <4>1
      <4>4. s[Double(p[k], poly) + 1] = Double(s[p[k] + 1], poly)
        BY Zenon, <1>0, <4>3
      <4> QED BY Zenon, <4>1, <4>2, <4>3, <4>4
    <3>4. i < n \/ i = n \/ i > n
      OBVIOUS
    <3> QED BY Zenon, <3>1, <3>2, <3>3, <3>4
  <2> QED BY Zenon, <2>1, <2>2, <2>3 DEF Run
<1>7. Leap(poly, u, p \o t, 2 * n)
  <2>1. u \in [1..256 -> Byte]
    <3>1. \A i \in 1..256 : s[s[i] + 1] \in Byte
      BY Zenon, <1>0, <1>3
    <3> QED BY Zenon, <3>1
  <2>2. \A x \in Byte : u[x + 1] = s[s[x + 1] + 1]
    BY Zenon, ByteIndex
  <2>3. \A x \in Byte : u[Double(x, poly) + 1] = Double(u[x + 1], poly)
    <3> SUFFICES ASSUME NEW x \in Byte PROVE u[Double(x, poly) + 1] = Double(u[x + 1], poly)
      OBVIOUS
    <3>1. Double(x, poly) \in Byte
      BY Zenon, DoubleLinear
    <3> HIDE DEF u
    <3>2. u[Double(x, poly) + 1] = s[s[Double(x, poly) + 1] + 1]
      BY Zenon, <2>2, <3>1
    <3>3. s[Double(x, poly) + 1] = Double(s[x + 1], poly) /\ s[x + 1] \in Byte
      BY Zenon, <1>0, <1>3
    <3>4. s[Double(s[x + 1], poly) + 1] = Double(s[s[x + 1] + 1], poly)
      BY Zenon, <1>0, <3>3
    <3> QED BY SMT, <2>2, <3>2, <3>3, <3>4
  <2>4. u[1 + 1] = Double((p \o t)[2 * n], poly)
    <3> HIDE DEF u, t
    <3>1. 1 \in Byte /\ n \in 1..n /\ 2 * n \in (n + 1)..(2 * n) /\ 2 * n - n = n
      BY ByteFacts
    <3>2. (p \o t)[2 * n] = t[n] /\ t[n] = s[p[n] + 1] /\ p[n] \in Byte
      <4>1. (p \o t)[2 * n] = t[2 * n - n]
        BY ZenonT(60), <1>0, <1>5, <3>1, ConcatIs
      <4> QED BY Zenon, <1>4, <1>5, <3>1, <4>1
    <3>3. u[1 + 1] = s[s[1 + 1] + 1]
      BY Zenon, <2>2, <3>1
    <3>4. s[Double(p[n], poly) + 1] = Double(s[p[n] + 1], poly)
      BY Zenon, <1>0, <3>2
    <3> QED BY Zenon, <1>0, <3>2, <3>3, <3>4
  <2> HIDE DEF u, t
  <2> QED BY Zenon, <2>1, <2>3, <2>4 DEF Leap
<1> HIDE DEF u, t
<1> QED BY Zenon, <1>1, <1>2, <1>6, <1>7

\* The fold over the eight rounds exists.
LEMMA RoundsExist ==
    ASSUME NEW poly
    PROVE  \E f : Rounds(poly, 8, f)
<1> DEFINE S == {n \in 0..8 : \E f : Rounds(poly, n, f)}
<1>1. 0 \in S
  <2> DEFINE f == [k \in 0..0 |-> FirstRound(poly)]
  <2>1. \A k \in 0..0 : k = 0
    OBVIOUS
  <2>2. Rounds(poly, 0, f)
    BY Zenon, <2>1 DEF Rounds
  <2>3. 0 \in 0..8
    OBVIOUS
  <2> HIDE DEF f
  <2> QED BY Zenon, <2>2, <2>3
<1>2. \A n \in 1..8 : n - 1 \in S => n \in S
  <2> SUFFICES ASSUME NEW n \in 1..8, n - 1 \in S PROVE n \in S
    OBVIOUS
  <2>1. PICK f : Rounds(poly, n - 1, f)
    OBVIOUS
  <2> HIDE DEF S
  <2> DEFINE g == [k \in 0..n |-> IF k = n THEN NextRound(f[n - 1]) ELSE f[k]]
  <2>2. \A k \in 0..n : g[k] = IF k = 0 THEN FirstRound(poly) ELSE NextRound(g[k - 1])
    <3> SUFFICES ASSUME NEW k \in 0..n
                 PROVE  g[k] = IF k = 0 THEN FirstRound(poly) ELSE NextRound(g[k - 1])
      OBVIOUS
    <3>1. /\ n # 0 /\ n - 1 \in 0..n /\ n - 1 # n /\ k # 0 => k - 1 \in 0..n /\ k - 1 # n
          /\ k # n => k \in 0..(n - 1)
      OBVIOUS
    <3>2. \A j \in 0..(n - 1) : f[j] = IF j = 0 THEN FirstRound(poly) ELSE NextRound(f[j - 1])
      BY Zenon, <2>1 DEF Rounds
    <3>3. g[k] = IF k = n THEN NextRound(f[n - 1]) ELSE f[k]
      BY Zenon
    <3>4. k # 0 => g[k - 1] = f[k - 1]
      <4>1. k # 0 => k - 1 \in 0..n /\ k - 1 # n
        OBVIOUS
      <4> QED BY Zenon, <4>1
    <3> HIDE DEF g
    <3>5. CASE k = n
      <4>1. g[k] = NextRound(f[n - 1])
        BY <3>3, <3>5
      <4>2. k # 0 /\ f[n - 1] = f[k - 1]
        BY <3>5
      <4> QED BY Zenon, <3>4, <4>1, <4>2
    <3>6. CASE k # n
      BY Zenon, <3>1, <3>2, <3>3, <3>4, <3>6
    <3> QED BY Zenon, <3>5, <3>6
  <2>3. g = [k \in 0..n |-> g[k]]
    OBVIOUS
  <2> HIDE DEF g
  <2>4. Rounds(poly, n, g)
    BY Zenon, <2>2, <2>3 DEF Rounds
  <2>5. n \in 0..8
    OBVIOUS
  <2> QED BY Zenon, <2>4, <2>5 DEF S
<1>3. 8 \in Nat /\ 8 \in 0..8
  OBVIOUS
<1>4. \A n \in 0..8 : n \in S
  <2> HIDE DEF S
  <2> QED BY Zenon, <1>1, <1>2, <1>3, StepByStep
<1> QED BY Zenon, <1>3, <1>4

\* The rounds give the first 256 powers.
LEMMA PowersAre ==
    ASSUME NEW poly \in Nat
    PROVE  Run(poly, PowersInRounds(poly), 256)
<1> DEFINE f == CHOOSE f : Rounds(poly, 8, f)
<1>1. PowersInRounds(poly) = f[8].powers
  BY Zenon DEF PowersInRounds, Rounds, FirstRound, NextRound
<1>2. Rounds(poly, 8, f)
  BY Zenon, RoundsExist
<1> HIDE DEF f
<1>3. \A k \in 0..8 : f[k] = IF k = 0 THEN FirstRound(poly) ELSE NextRound(f[k - 1])
  BY Zenon, <1>2 DEF Rounds
<1> DEFINE Good(k, n) == Run(poly, f[k].powers, n) /\ Leap(poly, f[k].step, f[k].powers, n)
<1>4. Good(0, 1)
  <2>1. f[0] = FirstRound(poly)
    BY <1>3
  <2> QED BY Zenon, <2>1, FirstRoundIs
<1>5. ASSUME NEW k \in 1..8, NEW n \in Nat, n >= 1, Good(k - 1, n)
      PROVE  Good(k, 2 * n)
  <2>1. k \in 0..8 /\ k # 0
    OBVIOUS
  <2>2. f[k] = NextRound(f[k - 1])
    BY Zenon, <1>3, <2>1
  <2> QED BY <1>5, <2>2, NextRoundIs
<1> HIDE DEF Good
<1>6. Good(1, 2) BY <1>4, <1>5
<1>7. Good(2, 4) BY <1>6, <1>5
<1>8. Good(3, 8) BY <1>7, <1>5
<1>9. Good(4, 16) BY <1>8, <1>5
<1>10. Good(5, 32) BY <1>9, <1>5
<1>11. Good(6, 64) BY <1>10, <1>5
<1>12. Good(7, 128) BY <1>11, <1>5
<1>13. Good(8, 256) BY <1>12, <1>5
<1> QED BY Zenon, <1>1, <1>13 DEF Good

-----------------------------------------------------------------------------
(* When the powers are all the elements                                      *)

\* g[i] is the generator to the power of i.
PowersOf(poly, g) ==
    /\ g \in [0..255 -> Byte] /\ g[0] = 1
    /\ \A i \in 0..254 : g[i + 1] = Double(g[i], poly)

\* Exponents are added.
LEMMA PowersMultiply ==
    ASSUME NEW poly \in Nat, NEW g, PowersOf(poly, g), NEW j \in 0..255
    PROVE  \A i \in 0..(255 - j) : MulBy(poly, g[i], g[j]) = g[i + j]
<1>0. g \in [0..255 -> Byte] /\ g[0] = 1 /\ \A i \in 0..254 : g[i + 1] = Double(g[i], poly)
  BY Zenon DEF PowersOf
<1> DEFINE S == {i \in 0..(255 - j) : MulBy(poly, g[i], g[j]) = g[i + j]}
<1>1. 0 \in S
  <2>1. 0 \in 0..(255 - j) /\ 0 + j = j
    OBVIOUS
  <2>2. g[j] \in Byte
    BY Zenon, <1>0
  <2>3. MulBy(poly, 1, g[j]) = g[j]
    BY Zenon, <2>2, MulByUnits
  <2> QED BY Zenon, <1>0, <2>1, <2>3
<1>2. \A i \in 1..(255 - j) : i - 1 \in S => i \in S
  <2> SUFFICES ASSUME NEW i \in 1..(255 - j), i - 1 \in S PROVE i \in S
    OBVIOUS
  <2>1. /\ i \in 0..(255 - j) /\ i - 1 \in 0..254 /\ i - 1 \in 0..255 /\ (i - 1) + 1 = i
        /\ (i - 1) + j \in 0..254 /\ ((i - 1) + j) + 1 = i + j
    OBVIOUS
  <2>2. MulBy(poly, g[i - 1], g[j]) = g[(i - 1) + j] /\ g[i - 1] \in Byte
    BY SMT, <1>0, <2>1
  <2>3. g[i] = Double(g[i - 1], poly) /\ g[i + j] = Double(g[(i - 1) + j], poly)
    <3>1. g[(i - 1) + 1] = Double(g[i - 1], poly) /\ g[((i - 1) + j) + 1] = Double(g[(i - 1) + j], poly)
      BY <1>0, <2>1
    <3> QED BY SMT, <2>1, <3>1
  <2>4. MulBy(poly, Double(g[i - 1], poly), g[j]) = Double(MulBy(poly, g[i - 1], g[j]), poly)
    BY Zenon, <2>2, MulByDouble
  <2> QED BY Zenon, <2>1, <2>2, <2>3, <2>4
<1>3. 255 - j \in Nat
  OBVIOUS
<1>4. \A i \in 0..(255 - j) : i \in S
  <2> HIDE DEF S
  <2> QED BY Zenon, <1>1, <1>2, <1>3, StepByStep
<1> QED BY Zenon, <1>4

\* What makes the powers of a generator all different: the last is one, and no
\* proper divisor of 255 gives one.
Primitive(g) ==
    /\ g[255] = 1 /\ g[51] # 1 /\ g[85] # 1
    /\ \A i \in {1, 3, 5, 15, 17} : g[i] # 1

\* The proper divisors of 255.
LEMMA DivisorsOf255 == \A m \in 1..254 : 255 % m = 0 => m \in {1, 3, 5, 15, 17, 51, 85}
<1> QED OBVIOUS

\* Remainders repeat.
LEMMA RemainderAgain ==
    ASSUME NEW m \in 1..254
    PROVE  m % m = 0 /\ \A n \in Int : (n + m) % m = n % m
<1>1. m % m = 0
  OBVIOUS
<1>2. ASSUME NEW n \in Int PROVE (n + m) % m = n % m
  BY SMTT(60)
<1> QED BY Zenon, <1>1, <1>2

\* A power that is one repeats with its exponent; the smallest such exponent divides 255,
\* so a primitive generator has none below 255.
LEMMA NoEarlierOne ==
    ASSUME NEW poly \in Nat, NEW g, PowersOf(poly, g), Primitive(g), NEW k \in 1..254
    PROVE  g[k] # 1
<1> SUFFICES ASSUME g[k] = 1 PROVE FALSE
  OBVIOUS
<1>0. g \in [0..255 -> Byte]
  BY Zenon DEF PowersOf
<1> DEFINE T == {i \in 1..254 : g[i] = 1}
<1>1. PICK m \in T : \A i \in T : m <= i
  <2>1. T # {} /\ T \in SUBSET Nat
    OBVIOUS
  <2> HIDE DEF T
  <2> QED BY Zenon, <2>1, LeastElement
<1>2. m \in 1..254 /\ g[m] = 1
  BY Zenon, <1>1
<1>3. \A i \in 0..(255 - m) : g[i + m] = g[i]
  <2> SUFFICES ASSUME NEW i \in 0..(255 - m) PROVE g[i + m] = g[i]
    OBVIOUS
  <2>1. m \in 0..255 /\ i \in 0..255
    BY <1>2
  <2>2. MulBy(poly, g[i], g[m]) = g[i + m]
    BY ZenonT(60), <2>1, PowersMultiply
  <2>3. g[i] \in Byte
    BY Zenon, <1>0, <2>1
  <2>4. MulBy(poly, g[i], 1) = g[i]
    BY Zenon, <2>3, MulByUnits
  <2> QED BY Zenon, <1>2, <2>2, <2>4
<1>4. 255 % m = 0
  <2> SUFFICES ASSUME 255 % m # 0 PROVE FALSE
    OBVIOUS
  <2> DEFINE U == {i \in 1..255 : g[i] = 1 /\ i % m # 0}
  <2>1. 255 \in U
    BY DEF Primitive
  <2>2. PICK n \in U : \A i \in U : n <= i
    <3>1. U # {} /\ U \in SUBSET Nat
      <4>1. \A i \in U : i \in Nat
        OBVIOUS
      <4> HIDE DEF U
      <4> QED BY SMT, <2>1, <4>1
    <3> HIDE DEF U
    <3> QED BY Zenon, <3>1, LeastElement
  <2>3. n \in 1..255 /\ g[n] = 1 /\ n % m # 0
    BY Zenon, <2>2
  <2>4. CASE n < m
    <3>1. n \in T
      BY <1>2, <2>3, <2>4
    <3>2. m <= n
      BY Zenon, <1>1, <3>1
    <3> HIDE DEF T, U
    <3> QED BY <1>2, <2>3, <2>4, <3>2
  <2>5. CASE n >= m
    <3> HIDE DEF T, U
    <3>1. n - m \in 0..(255 - m) /\ (n - m) + m = n
      BY <1>2, <2>3, <2>5
    <3>2. g[n - m] = 1
      <4>1. g[(n - m) + m] = g[n - m]
        BY Zenon, <1>3, <3>1
      <4> QED BY Zenon, <2>3, <3>1, <4>1
    <3>3. (n - m) % m # 0 /\ n # m
      <4>1. n - m \in Int
        BY <1>2, <2>3
      <4>2. ((n - m) + m) % m = (n - m) % m /\ m % m = 0
        BY Zenon, <1>2, <4>1, RemainderAgain
      <4> QED BY SMT, <2>3, <3>1, <4>2
    <3>4. n - m \in 1..255
      BY <1>2, <2>3, <2>5, <3>3
    <3>5. n - m \in U
      BY Zenon, <3>2, <3>3, <3>4 DEF U
    <3>6. n <= n - m
      BY Zenon, <2>2, <3>5
    <3> QED BY <1>2, <2>3, <3>6
  <2> HIDE DEF T, U
  <2> QED BY <1>2, <2>3, <2>4, <2>5
<1>5. m \in {1, 3, 5, 15, 17, 51, 85}
  BY Zenon, <1>2, <1>4, DivisorsOf255
<1>6. g[m] # 1
  <2> HIDE DEF T
  <2> QED BY <1>5 DEF Primitive
<1> QED BY Zenon, <1>2, <1>6

\* Then they are all the bytes but zero, each once.
AllOnce(g) ==
    /\ \A i, j \in 0..254 : g[i] = g[j] => i = j
    /\ {g[i] : i \in 0..254} = Byte \ {0}

\* The powers of a primitive generator are all the bytes but zero, each once.
LEMMA PowersAreAll ==
    ASSUME NEW poly \in Nat, NEW g, PowersOf(poly, g), Primitive(g)
    PROVE  AllOnce(g)
<1>0. /\ g \in [0..255 -> Byte] /\ g[0] = 1 /\ \A i \in 0..254 : g[i + 1] = Double(g[i], poly)
      /\ g[255] = 1
  BY Zenon DEF PowersOf, Primitive
<1>a. \A n \in 0..255 : \A k \in 0..(255 - n) : MulBy(poly, g[k], g[n]) = g[k + n]
  BY Zenon, PowersMultiply
<1>b. \A k \in 1..254 : g[k] # 1
  BY Zenon, NoEarlierOne
<1>1. ASSUME NEW i \in 0..254, NEW j \in 0..254, i < j, g[i] = g[j] PROVE FALSE
  <2> DEFINE r == 255 - j
  <2>1. /\ r \in 0..255 /\ i \in 0..(255 - r) /\ j \in 0..(255 - r) /\ i + r \in 1..254 /\ j + r = 255
    BY <1>1
  <2> HIDE DEF r
  <2>2. MulBy(poly, g[i], g[r]) = g[i + r] /\ MulBy(poly, g[j], g[r]) = g[j + r]
    <3>1. r \in 0..255
      BY Zenon, <2>1
    <3>2. \A k \in 0..(255 - r) : MulBy(poly, g[k], g[r]) = g[k + r]
      BY Zenon, <1>a, <3>1
    <3>3. i \in 0..(255 - r) /\ j \in 0..(255 - r)
      BY Zenon, <2>1
    <3> QED BY Zenon, <3>2, <3>3
  <2>3. g[i + r] = 1
    BY SMT, <1>0, <1>1, <2>1, <2>2
  <2>4. g[i + r] # 1
    BY Zenon, <1>b, <2>1
  <2> QED BY Zenon, <2>3, <2>4
<1>2. \A i, j \in 0..254 : g[i] = g[j] => i = j
  <2> SUFFICES ASSUME NEW i \in 0..254, NEW j \in 0..254, g[i] = g[j], i # j PROVE FALSE
    BY Zenon
  <2>1. i < j \/ j < i
    OBVIOUS
  <2> QED BY Zenon, <1>1, <2>1
<1>3. \A i \in 0..254 : g[i] # 0
  <2> SUFFICES ASSUME NEW i \in 0..254, g[i] = 0 PROVE FALSE
    OBVIOUS
  <2> DEFINE r == 255 - i
  <2>1. r \in 0..255 /\ i \in 0..(255 - r) /\ i + r = 255
    OBVIOUS
  <2> HIDE DEF r
  <2>2. MulBy(poly, g[i], g[r]) = g[i + r]
    <3>1. r \in 0..255
      BY Zenon, <2>1
    <3>2. \A k \in 0..(255 - r) : MulBy(poly, g[k], g[r]) = g[k + r]
      BY ZenonT(60), <1>a, <3>1
    <3> QED BY ZenonT(60), <2>1, <3>2
  <2>3. g[r] \in Byte
    BY <1>0, <2>1
  <2>4. MulBy(poly, 0, g[r]) = 0
    BY Zenon, <2>3, MulByUnits
  <2>5. 0 = 1
    BY ZenonT(60), <1>0, <2>1, <2>2, <2>4
  <2> QED BY <2>5
<1> DEFINE D == 0..254
           R == Byte \ {0}
           f == [i \in D |-> g[i]]
<1>4. f \in Injection(D, R)
  <2>1. \A i \in D : g[i] \in R
    <3> SUFFICES ASSUME NEW i \in D PROVE g[i] \in R
      OBVIOUS
    <3>1. i \in 0..255
      OBVIOUS
    <3>2. g[i] \in Byte
      BY Zenon, <1>0, <3>1
    <3> QED BY Zenon, <1>3, <3>2
  <2> HIDE DEF R
  <2> QED BY ZenonT(60), <1>2, <2>1 DEF Injection, IsInjective
<1>5. IsFiniteSet(D) /\ Cardinality(D) = 255
  <2>1. 0 \in Int /\ 254 \in Int /\ ~(0 > 254) /\ 254 - 0 + 1 = 255
    OBVIOUS
  <2>2. IsFiniteSet(0..254) /\ Cardinality(0..254) = IF 0 > 254 THEN 0 ELSE 254 - 0 + 1
    BY ZenonT(60), <2>1, FS_Interval
  <2> QED BY SMT, <2>1, <2>2
<1>6. IsFiniteSet(R) /\ Cardinality(R) = 255
  <2>1. R = 1..255 /\ 1 \in Int /\ 255 \in Int /\ ~(1 > 255) /\ 255 - 1 + 1 = 255
    BY DEF Byte
  <2> HIDE DEF R, D, f
  <2> QED BY ZenonT(60), <2>1, FS_Interval
<1> HIDE DEF D, R, f
<1>7. f \in Surjection(D, R)
  <2>1. Cardinality(D) = Cardinality(R)
    BY Zenon, <1>5, <1>6
  <2>2. Cardinality(D) = Cardinality(R) <=> f \in Surjection(D, R)
    BY Zenon, <1>4, <1>6, FS_Injection
  <2> QED BY Zenon, <2>1, <2>2
<1>8. {g[i] : i \in 0..254} = Byte \ {0}
  <2>1. \A i \in D : f[i] = g[i]
    BY Zenon DEF f
  <2>2. f \in [D -> R] /\ \A x \in R : \E i \in D : f[i] = x
    BY Zenon, <1>7 DEF Surjection
  <2>3. \A i \in D : g[i] \in R
    BY <2>1, <2>2
  <2>4. {g[i] : i \in D} = R
    BY Zenon, <2>1, <2>2, <2>3
  <2> QED BY Zenon, <2>4 DEF D, R
<1> QED BY Zenon, <1>2, <1>8 DEF AllOnce

-----------------------------------------------------------------------------
(* The polynomials of the list                                               *)

\* One product by Horner's rule: the sums, each behind its double; the last sum is
\* the product.
Trace(poly, x, y, aa, a, bb, b, cc, c, dd, d, ee, e, ff, f, gg, g, hh, h) ==
    LET summand(i) == IF Bit(y, 8 - i) = 1 THEN x ELSE 0
    IN  /\ Double(0, poly) = aa /\ XorByDigits(aa, summand(1)) = a
        /\ Double(a, poly) = bb /\ XorByDigits(bb, summand(2)) = b
        /\ Double(b, poly) = cc /\ XorByDigits(cc, summand(3)) = c
        /\ Double(c, poly) = dd /\ XorByDigits(dd, summand(4)) = d
        /\ Double(d, poly) = ee /\ XorByDigits(ee, summand(5)) = e
        /\ Double(e, poly) = ff /\ XorByDigits(ff, summand(6)) = f
        /\ Double(f, poly) = gg /\ XorByDigits(gg, summand(7)) = g
        /\ Double(g, poly) = hh /\ XorByDigits(hh, summand(8)) = h

\* The last sum of a trace is the product.
LEMMA TraceEnds ==
    ASSUME NEW poly, NEW x, NEW y, NEW aa, NEW a, NEW bb, NEW b, NEW cc, NEW c, NEW dd, NEW d,
           NEW ee, NEW e, NEW ff, NEW f, NEW gg, NEW g, NEW hh, NEW h,
           Trace(poly, x, y, aa, a, bb, b, cc, c, dd, d, ee, e, ff, f, gg, g, hh, h)
    PROVE  MulBy(poly, x, y) = h
<1>1. PICK s : Chain(poly, x, y, s) /\ MulBy(poly, x, y) = s[8]
  BY MulByIs
<1>2. /\ s[1] = Step(poly, x, y, 1, 0) /\ s[2] = Step(poly, x, y, 2, s[1])
      /\ s[3] = Step(poly, x, y, 3, s[2]) /\ s[4] = Step(poly, x, y, 4, s[3])
      /\ s[5] = Step(poly, x, y, 5, s[4]) /\ s[6] = Step(poly, x, y, 6, s[5])
      /\ s[7] = Step(poly, x, y, 7, s[6]) /\ s[8] = Step(poly, x, y, 8, s[7])
  BY <1>1 DEF Chain
<1>3. Step(poly, x, y, 1, 0) = a
  <2>1. /\ Double(0, poly) = aa
        /\ XorByDigits(aa, IF Bit(y, 8 - 1) = 1 THEN x ELSE 0) = a
    BY Zenon DEF Trace
  <2> QED BY <2>1 DEF Step
<1>4. Step(poly, x, y, 2, a) = b
  <2>1. /\ Double(a, poly) = bb
        /\ XorByDigits(bb, IF Bit(y, 8 - 2) = 1 THEN x ELSE 0) = b
    BY Zenon DEF Trace
  <2> QED BY <2>1 DEF Step
<1>5. Step(poly, x, y, 3, b) = c
  <2>1. /\ Double(b, poly) = cc
        /\ XorByDigits(cc, IF Bit(y, 8 - 3) = 1 THEN x ELSE 0) = c
    BY Zenon DEF Trace
  <2> QED BY <2>1 DEF Step
<1>6. Step(poly, x, y, 4, c) = d
  <2>1. /\ Double(c, poly) = dd
        /\ XorByDigits(dd, IF Bit(y, 8 - 4) = 1 THEN x ELSE 0) = d
    BY Zenon DEF Trace
  <2> QED BY <2>1 DEF Step
<1>7. Step(poly, x, y, 5, d) = e
  <2>1. /\ Double(d, poly) = ee
        /\ XorByDigits(ee, IF Bit(y, 8 - 5) = 1 THEN x ELSE 0) = e
    BY Zenon DEF Trace
  <2> QED BY <2>1 DEF Step
<1>8. Step(poly, x, y, 6, e) = f
  <2>1. /\ Double(e, poly) = ff
        /\ XorByDigits(ff, IF Bit(y, 8 - 6) = 1 THEN x ELSE 0) = f
    BY Zenon DEF Trace
  <2> QED BY <2>1 DEF Step
<1>9. Step(poly, x, y, 7, f) = g
  <2>1. /\ Double(f, poly) = gg
        /\ XorByDigits(gg, IF Bit(y, 8 - 7) = 1 THEN x ELSE 0) = g
    BY Zenon DEF Trace
  <2> QED BY <2>1 DEF Step
<1>10. Step(poly, x, y, 8, g) = h
  <2>1. /\ Double(g, poly) = hh
        /\ XorByDigits(hh, IF Bit(y, 8 - 8) = 1 THEN x ELSE 0) = h
    BY Zenon DEF Trace
  <2> QED BY <2>1 DEF Step
<1> QED BY SMT, <1>1, <1>2, <1>3, <1>4, <1>5, <1>6, <1>7, <1>8, <1>9, <1>10

\* The powers 1 to 17 of a generator, by doubling.
Doublings(poly, p) ==
    /\ Double(1, poly) = p[1] /\ Double(p[1], poly) = p[2] /\ Double(p[2], poly) = p[3]
    /\ Double(p[3], poly) = p[4] /\ Double(p[4], poly) = p[5] /\ Double(p[5], poly) = p[6]
    /\ Double(p[6], poly) = p[7] /\ Double(p[7], poly) = p[8] /\ Double(p[8], poly) = p[9]
    /\ Double(p[9], poly) = p[10] /\ Double(p[10], poly) = p[11] /\ Double(p[11], poly) = p[12]
    /\ Double(p[12], poly) = p[13] /\ Double(p[13], poly) = p[14] /\ Double(p[14], poly) = p[15]
    /\ Double(p[15], poly) = p[16] /\ Double(p[16], poly) = p[17]

\* What shows that a generator is primitive: its first powers, and the products that
\* lead to the powers 34, 51, 85, 170 and 255.
Certified(poly) == \E p, a, b, c, d :
    /\ Doublings(poly, p)
    /\ MulBy(poly, p[17], p[17]) = a /\ MulBy(poly, a, p[17]) = b /\ MulBy(poly, b, a) = c
    /\ MulBy(poly, c, c) = d /\ MulBy(poly, d, c) = 1
    /\ p[1] # 1 /\ p[3] # 1 /\ p[5] # 1 /\ p[15] # 1 /\ p[17] # 1 /\ b # 1 /\ c # 1

\* The sixteen polynomials of the list.
LEMMA PolynomialsAre ==
    \A index \in 0..15 :
        gf256_poly_init(index) \in
            {285, 299, 301, 333, 351, 355, 357, 361, 369, 391, 397, 425, 451, 463, 487, 501}
<1> QED BY DEF gf256_poly_init, GF256_GEN_POLY

\* One certificate for each polynomial: seventeen powers by doubling, five products.
LEMMA Polynomial285 == Certified(285)
<1>1. PICK p : p = <<2, 4, 8, 16, 32, 64, 128, 29, 58, 116, 232, 205, 135, 19, 38, 76, 152>>
  OBVIOUS
<1>2. Doublings(285, p)
  BY <1>1 DEF Doublings, Double, XorByDigits, XorDigit
<1>3. MulBy(285, 152, 152) = 78
  <2>1. Trace(285, 152, 152, 0, 152, 45, 45, 90, 90, 180, 44, 88, 192, 157, 157, 39, 39, 78, 78)
    BY DEF Trace, Bit, Double, XorByDigits, XorDigit
  <2> QED BY <2>1, TraceEnds
<1>4. MulBy(285, 78, 152) = 10
  <2>1. Trace(285, 78, 152, 0, 78, 156, 156, 37, 37, 74, 4, 8, 70, 140, 140, 5, 5, 10, 10)
    BY DEF Trace, Bit, Double, XorByDigits, XorDigit
  <2> QED BY <2>1, TraceEnds
<1>5. MulBy(285, 10, 78) = 214
  <2>1. Trace(285, 10, 78, 0, 0, 0, 10, 20, 20, 40, 40, 80, 90, 180, 190, 97, 107, 214, 214)
    BY DEF Trace, Bit, Double, XorByDigits, XorDigit
  <2> QED BY <2>1, TraceEnds
<1>6. MulBy(285, 214, 214) = 215
  <2>1. Trace(285, 214, 214, 0, 214, 177, 103, 206, 206, 129, 87, 174, 174, 65, 151, 51, 229, 215, 215)
    BY DEF Trace, Bit, Double, XorByDigits, XorDigit
  <2> QED BY <2>1, TraceEnds
<1>7. MulBy(285, 215, 214) = 1
  <2>1. Trace(285, 215, 214, 0, 215, 179, 100, 200, 200, 141, 90, 180, 180, 117, 162, 89, 142, 1, 1)
    BY DEF Trace, Bit, Double, XorByDigits, XorDigit
  <2> QED BY <2>1, TraceEnds
<1>8. p[1] # 1 /\ p[3] # 1 /\ p[5] # 1 /\ p[15] # 1 /\ p[17] = 152
  BY <1>1
<1> QED BY <1>2, <1>3, <1>4, <1>5, <1>6, <1>7, <1>8 DEF Certified

LEMMA Polynomial299 == Certified(299)
<1>1. PICK p : p = <<2, 4, 8, 16, 32, 64, 128, 43, 86, 172, 115, 230, 231, 229, 225, 233, 249>>
  OBVIOUS
<1>2. Doublings(299, p)
  BY <1>1 DEF Doublings, Double, XorByDigits, XorDigit
<1>3. MulBy(299, 249, 249) = 197
  <2>1. Trace(299, 249, 249, 0, 249, 217, 32, 64, 185, 89, 160, 107, 146, 15, 15, 30, 30, 60, 197)
    BY DEF Trace, Bit, Double, XorByDigits, XorDigit
  <2> QED BY <2>1, TraceEnds
<1>4. MulBy(299, 197, 249) = 19
  <2>1. Trace(299, 197, 249, 0, 197, 161, 100, 200, 13, 26, 223, 149, 80, 160, 160, 107, 107, 214, 19)
    BY DEF Trace, Bit, Double, XorByDigits, XorDigit
  <2> QED BY <2>1, TraceEnds
<1>5. MulBy(299, 19, 197) = 235
  <2>1. Trace(299, 19, 197, 0, 19, 38, 53, 106, 106, 212, 212, 131, 131, 45, 62, 124, 124, 248, 235)
    BY DEF Trace, Bit, Double, XorByDigits, XorDigit
  <2> QED BY <2>1, TraceEnds
<1>6. MulBy(299, 235, 235) = 234
  <2>1. Trace(299, 235, 235, 0, 235, 253, 22, 44, 199, 165, 165, 97, 138, 63, 63, 126, 149, 1, 234)
    BY DEF Trace, Bit, Double, XorByDigits, XorDigit
  <2> QED BY <2>1, TraceEnds
<1>7. MulBy(299, 234, 235) = 1
  <2>1. Trace(299, 234, 235, 0, 234, 255, 21, 42, 192, 171, 171, 125, 151, 5, 5, 10, 224, 235, 1)
    BY DEF Trace, Bit, Double, XorByDigits, XorDigit
  <2> QED BY <2>1, TraceEnds
<1>8. p[1] # 1 /\ p[3] # 1 /\ p[5] # 1 /\ p[15] # 1 /\ p[17] = 249
  BY <1>1
<1> QED BY <1>2, <1>3, <1>4, <1>5, <1>6, <1>7, <1>8 DEF Certified

LEMMA Polynomial301 == Certified(301)
<1>1. PICK p : p = <<2, 4, 8, 16, 32, 64, 128, 45, 90, 180, 69, 138, 57, 114, 228, 229, 231>>
  OBVIOUS
<1>2. Doublings(301, p)
  BY <1>1 DEF Doublings, Double, XorByDigits, XorDigit
<1>3. MulBy(301, 231, 231) = 89
  <2>1. Trace(301, 231, 231, 0, 231, 227, 4, 8, 239, 243, 243, 203, 203, 187, 92, 184, 95, 190, 89)
    BY DEF Trace, Bit, Double, XorByDigits, XorDigit
  <2> QED BY <2>1, TraceEnds
<1>4. MulBy(301, 89, 231) = 220
  <2>1. Trace(301, 89, 231, 0, 89, 178, 235, 251, 162, 105, 105, 210, 210, 137, 208, 141, 212, 133, 220)
    BY DEF Trace, Bit, Double, XorByDigits, XorDigit
  <2> QED BY <2>1, TraceEnds
<1>5. MulBy(301, 220, 89) = 190
  <2>1. Trace(301, 220, 89, 0, 0, 0, 220, 149, 149, 7, 219, 155, 71, 142, 142, 49, 49, 98, 190)
    BY DEF Trace, Bit, Double, XorByDigits, XorDigit
  <2> QED BY <2>1, TraceEnds
<1>6. MulBy(301, 190, 190) = 191
  <2>1. Trace(301, 190, 190, 0, 190, 81, 81, 162, 28, 56, 134, 33, 159, 19, 173, 119, 201, 191, 191)
    BY DEF Trace, Bit, Double, XorByDigits, XorDigit
  <2> QED BY <2>1, TraceEnds
<1>7. MulBy(301, 191, 190) = 1
  <2>1. Trace(301, 191, 190, 0, 191, 83, 83, 166, 25, 50, 141, 55, 136, 61, 130, 41, 150, 1, 1)
    BY DEF Trace, Bit, Double, XorByDigits, XorDigit
  <2> QED BY <2>1, TraceEnds
<1>8. p[1] # 1 /\ p[3] # 1 /\ p[5] # 1 /\ p[15] # 1 /\ p[17] = 231
  BY <1>1
<1> QED BY <1>2, <1>3, <1>4, <1>5, <1>6, <1>7, <1>8 DEF Certified

LEMMA Polynomial333 == Certified(333)
<1>1. PICK p : p = <<2, 4, 8, 16, 32, 64, 128, 77, 154, 121, 242, 169, 31, 62, 124, 248, 189>>
  OBVIOUS
<1>2. Doublings(333, p)
  BY <1>1 DEF Doublings, Double, XorByDigits, XorDigit
<1>3. MulBy(333, 189, 189) = 91
  <2>1. Trace(333, 189, 189, 0, 189, 55, 55, 110, 211, 235, 86, 172, 17, 34, 159, 115, 115, 230, 91)
    BY DEF Trace, Bit, Double, XorByDigits, XorDigit
  <2> QED BY <2>1, TraceEnds
<1>4. MulBy(333, 91, 189) = 160
  <2>1. Trace(333, 91, 189, 0, 91, 182, 182, 33, 122, 244, 175, 19, 72, 144, 203, 219, 219, 251, 160)
    BY DEF Trace, Bit, Double, XorByDigits, XorDigit
  <2> QED BY <2>1, TraceEnds
<1>5. MulBy(333, 160, 91) = 28
  <2>1. Trace(333, 160, 91, 0, 0, 0, 160, 13, 13, 26, 186, 57, 153, 127, 127, 254, 94, 188, 28)
    BY DEF Trace, Bit, Double, XorByDigits, XorDigit
  <2> QED BY <2>1, TraceEnds
<1>6. MulBy(333, 28, 28) = 29
  <2>1. Trace(333, 28, 28, 0, 0, 0, 0, 0, 0, 0, 28, 56, 36, 72, 84, 168, 168, 29, 29)
    BY DEF Trace, Bit, Double, XorByDigits, XorDigit
  <2> QED BY <2>1, TraceEnds
<1>7. MulBy(333, 29, 28) = 1
  <2>1. Trace(333, 29, 28, 0, 0, 0, 0, 0, 0, 0, 29, 58, 39, 78, 83, 166, 166, 1, 1)
    BY DEF Trace, Bit, Double, XorByDigits, XorDigit
  <2> QED BY <2>1, TraceEnds
<1>8. p[1] # 1 /\ p[3] # 1 /\ p[5] # 1 /\ p[15] # 1 /\ p[17] = 189
  BY <1>1
<1> QED BY <1>2, <1>3, <1>4, <1>5, <1>6, <1>7, <1>8 DEF Certified

LEMMA Polynomial351 == Certified(351)
<1>1. PICK p : p = <<2, 4, 8, 16, 32, 64, 128, 95, 190, 35, 70, 140, 71, 142, 67, 134, 83>>
  OBVIOUS
<1>2. Doublings(351, p)
  BY <1>1 DEF Doublings, Double, XorByDigits, XorDigit
<1>3. MulBy(351, 83, 83) = 214
  <2>1. Trace(351, 83, 83, 0, 0, 0, 83, 166, 166, 19, 64, 128, 128, 95, 95, 190, 237, 133, 214)
    BY DEF Trace, Bit, Double, XorByDigits, XorDigit
  <2> QED BY <2>1, TraceEnds
<1>4. MulBy(351, 214, 83) = 72
  <2>1. Trace(351, 214, 83, 0, 0, 0, 214, 243, 243, 185, 111, 222, 222, 227, 227, 153, 79, 158, 72)
    BY DEF Trace, Bit, Double, XorByDigits, XorDigit
  <2> QED BY <2>1, TraceEnds
<1>5. MulBy(351, 72, 214) = 26
  <2>1. Trace(351, 72, 214, 0, 72, 144, 216, 239, 239, 129, 201, 205, 205, 197, 141, 69, 13, 26, 26)
    BY DEF Trace, Bit, Double, XorByDigits, XorDigit
  <2> QED BY <2>1, TraceEnds
<1>6. MulBy(351, 26, 26) = 27
  <2>1. Trace(351, 26, 26, 0, 0, 0, 0, 0, 0, 0, 26, 52, 46, 92, 92, 184, 162, 27, 27)
    BY DEF Trace, Bit, Double, XorByDigits, XorDigit
  <2> QED BY <2>1, TraceEnds
<1>7. MulBy(351, 27, 26) = 1
  <2>1. Trace(351, 27, 26, 0, 0, 0, 0, 0, 0, 0, 27, 54, 45, 90, 90, 180, 175, 1, 1)
    BY DEF Trace, Bit, Double, XorByDigits, XorDigit
  <2> QED BY <2>1, TraceEnds
<1>8. p[1] # 1 /\ p[3] # 1 /\ p[5] # 1 /\ p[15] # 1 /\ p[17] = 83
  BY <1>1
<1> QED BY <1>2, <1>3, <1>4, <1>5, <1>6, <1>7, <1>8 DEF Certified

LEMMA Polynomial355 == Certified(355)
<1>1. PICK p : p = <<2, 4, 8, 16, 32, 64, 128, 99, 198, 239, 189, 25, 50, 100, 200, 243, 133>>
  OBVIOUS
<1>2. Doublings(355, p)
  BY <1>1 DEF Doublings, Double, XorByDigits, XorDigit
<1>3. MulBy(355, 133, 133) = 117
  <2>1. Trace(355, 133, 133, 0, 133, 105, 105, 210, 210, 199, 199, 237, 237, 185, 60, 120, 120, 240, 117)
    BY DEF Trace, Bit, Double, XorByDigits, XorDigit
  <2> QED BY <2>1, TraceEnds
<1>4. MulBy(355, 117, 133) = 18
  <2>1. Trace(355, 117, 133, 0, 117, 234, 234, 183, 183, 13, 13, 26, 26, 52, 65, 130, 130, 103, 18)
    BY DEF Trace, Bit, Double, XorByDigits, XorDigit
  <2> QED BY <2>1, TraceEnds
<1>5. MulBy(355, 18, 117) = 240
  <2>1. Trace(355, 18, 117, 0, 0, 0, 18, 36, 54, 108, 126, 252, 252, 155, 137, 113, 113, 226, 240)
    BY DEF Trace, Bit, Double, XorByDigits, XorDigit
  <2> QED BY <2>1, TraceEnds
<1>6. MulBy(355, 240, 240) = 241
  <2>1. Trace(355, 240, 240, 0, 240, 131, 115, 230, 22, 44, 220, 219, 219, 213, 213, 201, 201, 241, 241)
    BY DEF Trace, Bit, Double, XorByDigits, XorDigit
  <2> QED BY <2>1, TraceEnds
<1>7. MulBy(355, 241, 240) = 1
  <2>1. Trace(355, 241, 240, 0, 241, 129, 112, 224, 17, 34, 211, 197, 197, 233, 233, 177, 177, 1, 1)
    BY DEF Trace, Bit, Double, XorByDigits, XorDigit
  <2> QED BY <2>1, TraceEnds
<1>8. p[1] # 1 /\ p[3] # 1 /\ p[5] # 1 /\ p[15] # 1 /\ p[17] = 133
  BY <1>1
<1> QED BY <1>2, <1>3, <1>4, <1>5, <1>6, <1>7, <1>8 DEF Certified

LEMMA Polynomial357 == Certified(357)
<1>1. PICK p : p = <<2, 4, 8, 16, 32, 64, 128, 101, 202, 241, 135, 107, 214, 201, 247, 139, 115>>
  OBVIOUS
<1>2. Doublings(357, p)
  BY <1>1 DEF Doublings, Double, XorByDigits, XorDigit
<1>3. MulBy(357, 115, 115) = 250
  <2>1. Trace(357, 115, 115, 0, 0, 0, 115, 230, 149, 79, 60, 120, 120, 240, 240, 133, 246, 137, 250)
    BY DEF Trace, Bit, Double, XorByDigits, XorDigit
  <2> QED BY <2>1, TraceEnds
<1>4. MulBy(357, 250, 115) = 97
  <2>1. Trace(357, 250, 115, 0, 0, 0, 250, 145, 107, 214, 44, 88, 88, 176, 176, 5, 255, 155, 97)
    BY DEF Trace, Bit, Double, XorByDigits, XorDigit
  <2> QED BY <2>1, TraceEnds
<1>5. MulBy(357, 97, 250) = 137
  <2>1. Trace(357, 97, 250, 0, 97, 194, 163, 35, 66, 132, 229, 175, 206, 249, 249, 151, 246, 137, 137)
    BY DEF Trace, Bit, Double, XorByDigits, XorDigit
  <2> QED BY <2>1, TraceEnds
<1>6. MulBy(357, 137, 137) = 136
  <2>1. Trace(357, 137, 137, 0, 137, 119, 119, 238, 238, 185, 185, 23, 158, 89, 89, 178, 178, 1, 136)
    BY DEF Trace, Bit, Double, XorByDigits, XorDigit
  <2> QED BY <2>1, TraceEnds
<1>7. MulBy(357, 136, 137) = 1
  <2>1. Trace(357, 136, 137, 0, 136, 117, 117, 234, 234, 177, 177, 7, 143, 123, 123, 246, 246, 137, 1)
    BY DEF Trace, Bit, Double, XorByDigits, XorDigit
  <2> QED BY <2>1, TraceEnds
<1>8. p[1] # 1 /\ p[3] # 1 /\ p[5] # 1 /\ p[15] # 1 /\ p[17] = 115
  BY <1>1
<1> QED BY <1>2, <1>3, <1>4, <1>5, <1>6, <1>7, <1>8 DEF Certified

LEMMA Polynomial361 == Certified(361)
<1>1. PICK p : p = <<2, 4, 8, 16, 32, 64, 128, 105, 210, 205, 243, 143, 119, 238, 181, 3, 6>>
  OBVIOUS
<1>2. Doublings(361, p)
  BY <1>1 DEF Doublings, Double, XorByDigits, XorDigit
<1>3. MulBy(361, 6, 6) = 20
  <2>1. Trace(361, 6, 6, 0, 0, 0, 0, 0, 0, 0, 0, 0, 0, 0, 6, 12, 10, 20, 20)
    BY DEF Trace, Bit, Double, XorByDigits, XorDigit
  <2> QED BY <2>1, TraceEnds
<1>4. MulBy(361, 20, 6) = 120
  <2>1. Trace(361, 20, 6, 0, 0, 0, 0, 0, 0, 0, 0, 0, 0, 0, 20, 40, 60, 120, 120)
    BY DEF Trace, Bit, Double, XorByDigits, XorDigit
  <2> QED BY <2>1, TraceEnds
<1>5. MulBy(361, 120, 20) = 127
  <2>1. Trace(361, 120, 20, 0, 0, 0, 0, 0, 0, 0, 120, 240, 240, 137, 241, 139, 139, 127, 127)
    BY DEF Trace, Bit, Double, XorByDigits, XorDigit
  <2> QED BY <2>1, TraceEnds
<1>6. MulBy(361, 127, 127) = 126
  <2>1. Trace(361, 127, 127, 0, 0, 0, 127, 254, 129, 107, 20, 40, 87, 174, 209, 203, 180, 1, 126)
    BY DEF Trace, Bit, Double, XorByDigits, XorDigit
  <2> QED BY <2>1, TraceEnds
<1>7. MulBy(361, 126, 127) = 1
  <2>1. Trace(361, 126, 127, 0, 0, 0, 126, 252, 130, 109, 19, 38, 88, 176, 206, 245, 139, 127, 1)
    BY DEF Trace, Bit, Double, XorByDigits, XorDigit
  <2> QED BY <2>1, TraceEnds
<1>8. p[1] # 1 /\ p[3] # 1 /\ p[5] # 1 /\ p[15] # 1 /\ p[17] = 6
  BY <1>1
<1> QED BY <1>2, <1>3, <1>4, <1>5, <1>6, <1>7, <1>8 DEF Certified

LEMMA Polynomial369 == Certified(369)
<1>1. PICK p : p = <<2, 4, 8, 16, 32, 64, 128, 113, 226, 181, 27, 54, 108, 216, 193, 243, 151>>
  OBVIOUS
<1>2. Doublings(369, p)
  BY <1>1 DEF Doublings, Double, XorByDigits, XorDigit
<1>3. MulBy(369, 151, 151) = 188
  <2>1. Trace(369, 151, 151, 0, 151, 95, 95, 190, 190, 13, 154, 69, 69, 138, 29, 58, 173, 43, 188)
    BY DEF Trace, Bit, Double, XorByDigits, XorDigit
  <2> QED BY <2>1, TraceEnds
<1>4. MulBy(369, 188, 151) = 77
  <2>1. Trace(369, 188, 151, 0, 188, 9, 9, 18, 18, 36, 152, 65, 65, 130, 62, 124, 192, 241, 77)
    BY DEF Trace, Bit, Double, XorByDigits, XorDigit
  <2> QED BY <2>1, TraceEnds
<1>5. MulBy(369, 77, 188) = 219
  <2>1. Trace(369, 77, 188, 0, 77, 154, 154, 69, 8, 16, 93, 186, 247, 159, 210, 213, 213, 219, 219)
    BY DEF Trace, Bit, Double, XorByDigits, XorDigit
  <2> QED BY <2>1, TraceEnds
<1>6. MulBy(369, 219, 219) = 218
  <2>1. Trace(369, 219, 219, 0, 219, 199, 28, 56, 56, 112, 171, 39, 252, 137, 137, 99, 184, 1, 218)
    BY DEF Trace, Bit, Double, XorByDigits, XorDigit
  <2> QED BY <2>1, TraceEnds
<1>7. MulBy(369, 218, 219) = 1
  <2>1. Trace(369, 218, 219, 0, 218, 197, 31, 62, 62, 124, 166, 61, 231, 191, 191, 15, 213, 219, 1)
    BY DEF Trace, Bit, Double, XorByDigits, XorDigit
  <2> QED BY <2>1, TraceEnds
<1>8. p[1] # 1 /\ p[3] # 1 /\ p[5] # 1 /\ p[15] # 1 /\ p[17] = 151
  BY <1>1
<1> QED BY <1>2, <1>3, <1>4, <1>5, <1>6, <1>7, <1>8 DEF Certified

LEMMA Polynomial391 == Certified(391)
<1>1. PICK p : p = <<2, 4, 8, 16, 32, 64, 128, 135, 137, 149, 173, 221, 61, 122, 244, 111, 222>>
  OBVIOUS
<1>2. Doublings(391, p)
  BY <1>1 DEF Doublings, Double, XorByDigits, XorDigit
<1>3. MulBy(391, 222, 222) = 116
  <2>1. Trace(391, 222, 222, 0, 222, 59, 229, 77, 77, 154, 68, 136, 86, 172, 114, 228, 58, 116, 116)
    BY DEF Trace, Bit, Double, XorByDigits, XorDigit
  <2> QED BY <2>1, TraceEnds
<1>4. MulBy(391, 116, 222) = 108
  <2>1. Trace(391, 116, 222, 0, 116, 232, 156, 191, 191, 249, 141, 157, 233, 85, 33, 66, 54, 108, 108)
    BY DEF Trace, Bit, Double, XorByDigits, XorDigit
  <2> QED BY <2>1, TraceEnds
<1>5. MulBy(391, 108, 116) = 170
  <2>1. Trace(391, 108, 116, 0, 0, 0, 108, 216, 180, 239, 131, 129, 129, 133, 233, 85, 85, 170, 170)
    BY DEF Trace, Bit, Double, XorByDigits, XorDigit
  <2> QED BY <2>1, TraceEnds
<1>6. MulBy(391, 170, 170) = 171
  <2>1. Trace(391, 170, 170, 0, 170, 211, 211, 33, 139, 145, 145, 165, 15, 30, 30, 60, 150, 171, 171)
    BY DEF Trace, Bit, Double, XorByDigits, XorDigit
  <2> QED BY <2>1, TraceEnds
<1>7. MulBy(391, 171, 170) = 1
  <2>1. Trace(391, 171, 170, 0, 171, 209, 209, 37, 142, 155, 155, 177, 26, 52, 52, 104, 195, 1, 1)
    BY DEF Trace, Bit, Double, XorByDigits, XorDigit
  <2> QED BY <2>1, TraceEnds
<1>8. p[1] # 1 /\ p[3] # 1 /\ p[5] # 1 /\ p[15] # 1 /\ p[17] = 222
  BY <1>1
<1> QED BY <1>2, <1>3, <1>4, <1>5, <1>6, <1>7, <1>8 DEF Certified

LEMMA Polynomial397 == Certified(397)
<1>1. PICK p : p = <<2, 4, 8, 16, 32, 64, 128, 141, 151, 163, 203, 27, 54, 108, 216, 61, 122>>
  OBVIOUS
<1>2. Doublings(397, p)
  BY <1>1 DEF Doublings, Double, XorByDigits, XorDigit
<1>3. MulBy(397, 122, 122) = 113
  <2>1. Trace(397, 122, 122, 0, 0, 0, 122, 244, 142, 145, 235, 91, 33, 66, 66, 132, 254, 113, 113)
    BY DEF Trace, Bit, Double, XorByDigits, XorDigit
  <2> QED BY <2>1, TraceEnds
<1>4. MulBy(397, 113, 122) = 53
  <2>1. Trace(397, 113, 122, 0, 0, 0, 113, 226, 147, 171, 218, 57, 72, 144, 144, 173, 220, 53, 53)
    BY DEF Trace, Bit, Double, XorByDigits, XorDigit
  <2> QED BY <2>1, TraceEnds
<1>5. MulBy(397, 53, 113) = 78
  <2>1. Trace(397, 53, 113, 0, 0, 0, 53, 106, 95, 190, 139, 155, 155, 187, 187, 251, 251, 123, 78)
    BY DEF Trace, Bit, Double, XorByDigits, XorDigit
  <2> QED BY <2>1, TraceEnds
<1>6. MulBy(397, 78, 78) = 79
  <2>1. Trace(397, 78, 78, 0, 0, 0, 78, 156, 156, 181, 181, 231, 169, 223, 145, 175, 225, 79, 79)
    BY DEF Trace, Bit, Double, XorByDigits, XorDigit
  <2> QED BY <2>1, TraceEnds
<1>7. MulBy(397, 79, 78) = 1
  <2>1. Trace(397, 79, 78, 0, 0, 0, 79, 158, 158, 177, 177, 239, 160, 205, 130, 137, 198, 1, 1)
    BY DEF Trace, Bit, Double, XorByDigits, XorDigit
  <2> QED BY <2>1, TraceEnds
<1>8. p[1] # 1 /\ p[3] # 1 /\ p[5] # 1 /\ p[15] # 1 /\ p[17] = 122
  BY <1>1
<1> QED BY <1>2, <1>3, <1>4, <1>5, <1>6, <1>7, <1>8 DEF Certified

LEMMA Polynomial425 == Certified(425)
<1>1. PICK p : p = <<2, 4, 8, 16, 32, 64, 128, 169, 251, 95, 190, 213, 3, 6, 12, 24, 48>>
  OBVIOUS
<1>2. Doublings(425, p)
  BY <1>1 DEF Doublings, Double, XorByDigits, XorDigit
<1>3. MulBy(425, 48, 48) = 246
  <2>1. Trace(425, 48, 48, 0, 0, 0, 0, 0, 48, 96, 80, 160, 160, 233, 233, 123, 123, 246, 246)
    BY DEF Trace, Bit, Double, XorByDigits, XorDigit
  <2> QED BY <2>1, TraceEnds
<1>4. MulBy(425, 246, 48) = 220
  <2>1. Trace(425, 246, 48, 0, 0, 0, 0, 0, 246, 69, 179, 207, 207, 55, 55, 110, 110, 220, 220)
    BY DEF Trace, Bit, Double, XorByDigits, XorDigit
  <2> QED BY <2>1, TraceEnds
<1>5. MulBy(425, 220, 246) = 198
  <2>1. Trace(425, 220, 246, 0, 220, 17, 205, 51, 239, 119, 171, 255, 255, 87, 139, 191, 99, 198, 198)
    BY DEF Trace, Bit, Double, XorByDigits, XorDigit
  <2> QED BY <2>1, TraceEnds
<1>6. MulBy(425, 198, 198) = 199
  <2>1. Trace(425, 198, 198, 0, 198, 37, 227, 111, 111, 222, 222, 21, 21, 42, 236, 113, 183, 199, 199)
    BY DEF Trace, Bit, Double, XorByDigits, XorDigit
  <2> QED BY <2>1, TraceEnds
<1>7. MulBy(425, 199, 198) = 1
  <2>1. Trace(425, 199, 198, 0, 199, 39, 224, 105, 105, 210, 210, 13, 13, 26, 221, 19, 212, 1, 1)
    BY DEF Trace, Bit, Double, XorByDigits, XorDigit
  <2> QED BY <2>1, TraceEnds
<1>8. p[1] # 1 /\ p[3] # 1 /\ p[5] # 1 /\ p[15] # 1 /\ p[17] = 48
  BY <1>1
<1> QED BY <1>2, <1>3, <1>4, <1>5, <1>6, <1>7, <1>8 DEF Certified

LEMMA Polynomial451 == Certified(451)
<1>1. PICK p : p = <<2, 4, 8, 16, 32, 64, 128, 195, 69, 138, 215, 109, 218, 119, 238, 31, 62>>
  OBVIOUS
<1>2. Doublings(451, p)
  BY <1>1 DEF Doublings, Double, XorByDigits, XorDigit
<1>3. MulBy(451, 62, 62) = 29
  <2>1. Trace(451, 62, 62, 0, 0, 0, 0, 0, 62, 124, 66, 132, 186, 183, 137, 209, 239, 29, 29)
    BY DEF Trace, Bit, Double, XorByDigits, XorDigit
  <2> QED BY <2>1, TraceEnds
<1>4. MulBy(451, 29, 62) = 147
  <2>1. Trace(451, 29, 62, 0, 0, 0, 0, 0, 29, 58, 39, 78, 83, 166, 187, 181, 168, 147, 147)
    BY DEF Trace, Bit, Double, XorByDigits, XorDigit
  <2> QED BY <2>1, TraceEnds
<1>5. MulBy(451, 147, 29) = 172
  <2>1. Trace(451, 147, 29, 0, 0, 0, 0, 0, 0, 0, 147, 229, 118, 236, 127, 254, 254, 63, 172)
    BY DEF Trace, Bit, Double, XorByDigits, XorDigit
  <2> QED BY <2>1, TraceEnds
<1>6. MulBy(451, 172, 172) = 173
  <2>1. Trace(451, 172, 172, 0, 172, 155, 155, 245, 89, 178, 178, 167, 11, 22, 186, 183, 183, 173, 173)
    BY DEF Trace, Bit, Double, XorByDigits, XorDigit
  <2> QED BY <2>1, TraceEnds
<1>7. MulBy(451, 173, 172) = 1
  <2>1. Trace(451, 173, 172, 0, 173, 153, 153, 241, 92, 184, 184, 179, 30, 60, 145, 225, 225, 1, 1)
    BY DEF Trace, Bit, Double, XorByDigits, XorDigit
  <2> QED BY <2>1, TraceEnds
<1>8. p[1] # 1 /\ p[3] # 1 /\ p[5] # 1 /\ p[15] # 1 /\ p[17] = 62
  BY <1>1
<1> QED BY <1>2, <1>3, <1>4, <1>5, <1>6, <1>7, <1>8 DEF Certified

LEMMA Polynomial463 == Certified(463)
<1>1. PICK p : p = <<2, 4, 8, 16, 32, 64, 128, 207, 81, 162, 139, 217, 125, 250, 59, 118, 236>>
  OBVIOUS
<1>2. Doublings(463, p)
  BY <1>1 DEF Doublings, Double, XorByDigits, XorDigit
<1>3. MulBy(463, 236, 236) = 209
  <2>1. Trace(463, 236, 236, 0, 236, 23, 251, 57, 213, 101, 101, 202, 38, 76, 160, 143, 143, 209, 209)
    BY DEF Trace, Bit, Double, XorByDigits, XorDigit
  <2> QED BY <2>1, TraceEnds
<1>4. MulBy(463, 209, 236) = 72
  <2>1. Trace(463, 209, 236, 0, 209, 109, 188, 183, 102, 204, 204, 87, 134, 195, 18, 36, 36, 72, 72)
    BY DEF Trace, Bit, Double, XorByDigits, XorDigit
  <2> QED BY <2>1, TraceEnds
<1>5. MulBy(463, 72, 209) = 61
  <2>1. Trace(463, 72, 209, 0, 72, 144, 216, 127, 127, 254, 182, 163, 163, 137, 137, 221, 221, 117, 61)
    BY DEF Trace, Bit, Double, XorByDigits, XorDigit
  <2> QED BY <2>1, TraceEnds
<1>6. MulBy(463, 61, 61) = 60
  <2>1. Trace(463, 61, 61, 0, 0, 0, 0, 0, 61, 122, 71, 142, 179, 169, 148, 231, 231, 1, 60)
    BY DEF Trace, Bit, Double, XorByDigits, XorDigit
  <2> QED BY <2>1, TraceEnds
<1>7. MulBy(463, 60, 61) = 1
  <2>1. Trace(463, 60, 61, 0, 0, 0, 0, 0, 60, 120, 68, 136, 180, 167, 155, 249, 249, 61, 1)
    BY DEF Trace, Bit, Double, XorByDigits, XorDigit
  <2> QED BY <2>1, TraceEnds
<1>8. p[1] # 1 /\ p[3] # 1 /\ p[5] # 1 /\ p[15] # 1 /\ p[17] = 236
  BY <1>1
<1> QED BY <1>2, <1>3, <1>4, <1>5, <1>6, <1>7, <1>8 DEF Certified

LEMMA Polynomial487 == Certified(487)
<1>1. PICK p : p = <<2, 4, 8, 16, 32, 64, 128, 231, 41, 82, 164, 175, 185, 149, 205, 125, 250>>
  OBVIOUS
<1>2. Doublings(487, p)
  BY <1>1 DEF Doublings, Double, XorByDigits, XorDigit
<1>3. MulBy(487, 250, 250) = 203
  <2>1. Trace(487, 250, 250, 0, 250, 19, 233, 53, 207, 121, 131, 225, 27, 54, 54, 108, 150, 203, 203)
    BY DEF Trace, Bit, Double, XorByDigits, XorDigit
  <2> QED BY <2>1, TraceEnds
<1>4. MulBy(487, 203, 250) = 126
  <2>1. Trace(487, 203, 250, 0, 203, 113, 186, 147, 88, 176, 123, 246, 61, 122, 122, 244, 63, 126, 126)
    BY DEF Trace, Bit, Double, XorByDigits, XorDigit
  <2> QED BY <2>1, TraceEnds
<1>5. MulBy(487, 126, 203) = 133
  <2>1. Trace(487, 126, 203, 0, 126, 252, 130, 227, 227, 33, 33, 66, 60, 120, 120, 240, 142, 251, 133)
    BY DEF Trace, Bit, Double, XorByDigits, XorDigit
  <2> QED BY <2>1, TraceEnds
<1>6. MulBy(487, 133, 133) = 132
  <2>1. Trace(487, 133, 133, 0, 133, 237, 237, 61, 61, 122, 122, 244, 244, 15, 138, 243, 243, 1, 132)
    BY DEF Trace, Bit, Double, XorByDigits, XorDigit
  <2> QED BY <2>1, TraceEnds
<1>7. MulBy(487, 132, 133) = 1
  <2>1. Trace(487, 132, 133, 0, 132, 239, 239, 57, 57, 114, 114, 228, 228, 47, 171, 177, 177, 133, 1)
    BY DEF Trace, Bit, Double, XorByDigits, XorDigit
  <2> QED BY <2>1, TraceEnds
<1>8. p[1] # 1 /\ p[3] # 1 /\ p[5] # 1 /\ p[15] # 1 /\ p[17] = 250
  BY <1>1
<1> QED BY <1>2, <1>3, <1>4, <1>5, <1>6, <1>7, <1>8 DEF Certified

LEMMA Polynomial501 == Certified(501)
<1>1. PICK p : p = <<2, 4, 8, 16, 32, 64, 128, 245, 31, 62, 124, 248, 5, 10, 20, 40, 80>>
  OBVIOUS
<1>2. Doublings(501, p)
  BY <1>1 DEF Doublings, Double, XorByDigits, XorDigit
<1>3. MulBy(501, 80, 80) = 13
  <2>1. Trace(501, 80, 80, 0, 0, 0, 80, 160, 160, 181, 229, 63, 63, 126, 126, 252, 252, 13, 13)
    BY DEF Trace, Bit, Double, XorByDigits, XorDigit
  <2> QED BY <2>1, TraceEnds
<1>4. MulBy(501, 13, 80) = 122
  <2>1. Trace(501, 13, 80, 0, 0, 0, 13, 26, 26, 52, 57, 114, 114, 228, 228, 61, 61, 122, 122)
    BY DEF Trace, Bit, Double, XorByDigits, XorDigit
  <2> QED BY <2>1, TraceEnds
<1>5. MulBy(501, 122, 13) = 93
  <2>1. Trace(501, 122, 13, 0, 0, 0, 0, 0, 0, 0, 0, 0, 122, 244, 142, 233, 233, 39, 93)
    BY DEF Trace, Bit, Double, XorByDigits, XorDigit
  <2> QED BY <2>1, TraceEnds
<1>6. MulBy(501, 93, 93) = 92
  <2>1. Trace(501, 93, 93, 0, 0, 0, 93, 186, 186, 129, 220, 77, 16, 32, 125, 250, 250, 1, 92)
    BY DEF Trace, Bit, Double, XorByDigits, XorDigit
  <2> QED BY <2>1, TraceEnds
<1>7. MulBy(501, 92, 93) = 1
  <2>1. Trace(501, 92, 93, 0, 0, 0, 92, 184, 184, 133, 217, 71, 27, 54, 106, 212, 212, 93, 1)
    BY DEF Trace, Bit, Double, XorByDigits, XorDigit
  <2> QED BY <2>1, TraceEnds
<1>8. p[1] # 1 /\ p[3] # 1 /\ p[5] # 1 /\ p[15] # 1 /\ p[17] = 80
  BY <1>1
<1> QED BY <1>2, <1>3, <1>4, <1>5, <1>6, <1>7, <1>8 DEF Certified

\* Every polynomial of the list has its certificate.
LEMMA AllCertified == \A index \in 0..15 : Certified(gf256_poly_init(index))
<1>1. /\ Certified(285) /\ Certified(299) /\ Certified(301) /\ Certified(333)
      /\ Certified(351) /\ Certified(355) /\ Certified(357) /\ Certified(361)
      /\ Certified(369) /\ Certified(391) /\ Certified(397) /\ Certified(425)
      /\ Certified(451) /\ Certified(463) /\ Certified(487) /\ Certified(501)
  BY Polynomial285, Polynomial299, Polynomial301, Polynomial333,
     Polynomial351, Polynomial355, Polynomial357, Polynomial361,
     Polynomial369, Polynomial391, Polynomial397, Polynomial425,
     Polynomial451, Polynomial463, Polynomial487, Polynomial501
<1> QED BY <1>1, PolynomialsAre

\* The powers of the generator begin as the certificate says.
LEMMA FirstPowers ==
    ASSUME NEW poly, NEW g, PowersOf(poly, g), NEW p, Doublings(poly, p)
    PROVE  g[1] = p[1] /\ g[3] = p[3] /\ g[5] = p[5] /\ g[15] = p[15] /\ g[17] = p[17]
<1>0. g[0] = 1 /\ \A i \in 0..254 : g[i + 1] = Double(g[i], poly)
  BY Zenon DEF PowersOf
<1>1. /\ g[1] = Double(g[0], poly) /\ g[2] = Double(g[1], poly) /\ g[3] = Double(g[2], poly)
      /\ g[4] = Double(g[3], poly) /\ g[5] = Double(g[4], poly) /\ g[6] = Double(g[5], poly)
      /\ g[7] = Double(g[6], poly) /\ g[8] = Double(g[7], poly) /\ g[9] = Double(g[8], poly)
      /\ g[10] = Double(g[9], poly) /\ g[11] = Double(g[10], poly) /\ g[12] = Double(g[11], poly)
      /\ g[13] = Double(g[12], poly) /\ g[14] = Double(g[13], poly) /\ g[15] = Double(g[14], poly)
      /\ g[16] = Double(g[15], poly) /\ g[17] = Double(g[16], poly)
  BY <1>0
<1>2. g[1] = p[1] /\ g[2] = p[2] /\ g[3] = p[3] /\ g[4] = p[4] /\ g[5] = p[5] /\ g[6] = p[6]
  BY <1>0, <1>1 DEF Doublings
<1>3. g[7] = p[7] /\ g[8] = p[8] /\ g[9] = p[9] /\ g[10] = p[10] /\ g[11] = p[11] /\ g[12] = p[12]
  BY <1>1, <1>2 DEF Doublings
<1>4. g[13] = p[13] /\ g[14] = p[14] /\ g[15] = p[15] /\ g[16] = p[16] /\ g[17] = p[17]
  BY <1>1, <1>3 DEF Doublings
<1> QED BY Zenon, <1>2, <1>3, <1>4

\* A certificate shows that no power of a proper divisor of 255 is one.
LEMMA CertifiedIsPrimitive ==
    ASSUME NEW poly \in Nat, Certified(poly), NEW g, PowersOf(poly, g)
    PROVE  Primitive(g)
<1>1. PICK p, a, b, c, d :
        /\ Doublings(poly, p)
        /\ MulBy(poly, p[17], p[17]) = a /\ MulBy(poly, a, p[17]) = b /\ MulBy(poly, b, a) = c
        /\ MulBy(poly, c, c) = d /\ MulBy(poly, d, c) = 1
        /\ p[1] # 1 /\ p[3] # 1 /\ p[5] # 1 /\ p[15] # 1 /\ p[17] # 1 /\ b # 1 /\ c # 1
  BY Zenon DEF Certified
<1>2. g[1] = p[1] /\ g[3] = p[3] /\ g[5] = p[5] /\ g[15] = p[15] /\ g[17] = p[17]
  <2>1. Doublings(poly, p)
    BY Zenon, <1>1
  <2> QED BY <2>1, FirstPowers
<1>3. \A i \in 0..170, j \in 0..85 : MulBy(poly, g[i], g[j]) = g[i + j]
  <2> SUFFICES ASSUME NEW i \in 0..170, NEW j \in 0..85
               PROVE  MulBy(poly, g[i], g[j]) = g[i + j]
    BY Zenon
  <2>1. j \in 0..255 /\ i \in 0..(255 - j)
    OBVIOUS
  <2>2. \A k \in 0..255 : \A l \in 0..(255 - k) : MulBy(poly, g[l], g[k]) = g[l + k]
    BY ZenonT(60), PowersMultiply
  <2> QED BY Zenon, <2>1, <2>2
<1>4. MulBy(poly, g[17], g[17]) = g[34]
  <2>1. 17 \in 0..170 /\ 17 \in 0..85
    OBVIOUS
  <2>2. MulBy(poly, g[17], g[17]) = g[17 + 17]
    BY ZenonT(60), <1>3, <2>1
  <2> QED BY <2>2
<1>5. MulBy(poly, g[34], g[17]) = g[51]
  <2>1. 34 \in 0..170 /\ 17 \in 0..85
    OBVIOUS
  <2>2. MulBy(poly, g[34], g[17]) = g[34 + 17]
    BY ZenonT(60), <1>3, <2>1
  <2> QED BY <2>2
<1>6. MulBy(poly, g[51], g[34]) = g[85]
  <2>1. 51 \in 0..170 /\ 34 \in 0..85
    OBVIOUS
  <2>2. MulBy(poly, g[51], g[34]) = g[51 + 34]
    BY ZenonT(60), <1>3, <2>1
  <2> QED BY <2>2
<1>7. MulBy(poly, g[85], g[85]) = g[170]
  <2>1. 85 \in 0..170 /\ 85 \in 0..85
    OBVIOUS
  <2>2. MulBy(poly, g[85], g[85]) = g[85 + 85]
    BY ZenonT(60), <1>3, <2>1
  <2> QED BY <2>2
<1>8. MulBy(poly, g[170], g[85]) = g[255]
  <2>1. 170 \in 0..170 /\ 85 \in 0..85
    OBVIOUS
  <2>2. MulBy(poly, g[170], g[85]) = g[170 + 85]
    BY ZenonT(60), <1>3, <2>1
  <2> QED BY <2>2
<1>9. g[34] = a /\ g[51] = b
  BY <1>1, <1>2, <1>4, <1>5
<1>10. g[85] = c /\ g[170] = d
  BY <1>1, <1>6, <1>7, <1>9
<1>11. g[255] = 1
  BY <1>1, <1>8, <1>10
<1> QED BY <1>1, <1>2, <1>9, <1>10, <1>11 DEF Primitive

\* The default polynomial is one of the list.
LEMMA PolynomialIs == Polynomial \in Nat /\ Certified(Polynomial)
<1>1. kDefaultPolynomialIndex \in 0..15
  BY DEF kDefaultPolynomialIndex
<1>2. gf256_poly_init(kDefaultPolynomialIndex) \in Nat
  BY <1>1, PolynomialsAre
<1> QED BY Zenon, <1>1, <1>2, AllCertified DEF Polynomial

-----------------------------------------------------------------------------
(* The field of the default polynomial                                       *)

\* An element of a list of bytes is a byte.
LEMMA ElementIn == ASSUME NEW s \in Seq(Byte), NEW k \in 1..Len(s) PROVE s[k] \in Byte
<1> QED OBVIOUS

\* The powers of the generator that the rounds compute.
GeneratorOf(poly) == [i \in 0..255 |-> PowersInRounds(poly)[i + 1]]

\* The list the rounds compute is the list of the generator's powers.
LEMMA GeneratorOfIs ==
    ASSUME NEW poly \in Nat
    PROVE  PowersOf(poly, GeneratorOf(poly))
<1>1. PICK p : p = PowersInRounds(poly)
  OBVIOUS
<1>2. Run(poly, p, 256)
  BY Zenon, <1>1, PowersAre
<1>3. PICK g : g = GeneratorOf(poly)
  OBVIOUS
<1>4. /\ p \in Seq(Byte) /\ Len(p) = 256 /\ p[1] = 1
      /\ \A i \in 1..(256 - 1) : p[i + 1] = Double(p[i], poly)
  BY Zenon, <1>2 DEF Run
<1>5. \A i \in 0..255 : g[i] = p[i + 1]
  BY Zenon, <1>1, <1>3 DEF GeneratorOf
<1>6. ASSUME NEW i \in 0..255 PROVE p[i + 1] \in Byte
  <2>1. i + 1 \in 1..256
    OBVIOUS
  <2>2. p \in Seq(Byte) /\ i + 1 \in 1..Len(p)
    BY Zenon, <1>4, <2>1
  <2> QED BY Zenon, <2>2, ElementIn
<1>7. g = [i \in 0..255 |-> g[i]]
  BY <1>3 DEF GeneratorOf
<1>8. g \in [0..255 -> Byte]
  BY Zenon, <1>5, <1>6, <1>7
<1>9. g[0] = 1
  <2>1. 0 \in 0..255 /\ 0 + 1 = 1
    OBVIOUS
  <2>2. g[0] = p[0 + 1]
    BY Zenon, <1>5, <2>1
  <2> QED BY <1>4, <2>1, <2>2
<1>10. ASSUME NEW i \in 0..254 PROVE g[i + 1] = Double(g[i], poly)
  <2>1. i \in 0..255 /\ i + 1 \in 0..255 /\ i + 1 \in 1..(256 - 1)
    OBVIOUS
  <2>2. p[(i + 1) + 1] = Double(p[i + 1], poly)
    BY <1>4, <2>1
  <2>3. g[i + 1] = p[(i + 1) + 1] /\ g[i] = p[i + 1]
    BY Zenon, <1>5, <2>1
  <2> QED BY Zenon, <2>2, <2>3
<1>11. PowersOf(poly, g)
  BY Zenon, <1>8, <1>9, <1>10 DEF PowersOf
<1> QED BY Zenon, <1>3, <1>11

\* A sequence of the powers 0 to 254.
Lists(q, g) == q \in Seq(Byte) /\ Len(q) = 255 /\ \A i \in 0..254 : q[i + 1] = g[i]

\* The powers that gf256_init_ keeps are those, the last one left out.
LEMMA PowersTable ==
    ASSUME NEW poly \in Nat
    PROVE  Lists(Powers(poly), GeneratorOf(poly))
<1>1. PICK p : p = PowersInRounds(poly)
  OBVIOUS
<1>2. p \in Seq(Byte) /\ Len(p) = 256
  <2>1. Run(poly, p, 256)
    BY Zenon, <1>1, PowersAre
  <2> QED BY Zenon, <2>1 DEF Run
<1>3. \A i \in 1..255 : p[i] \in Byte
  <2> SUFFICES ASSUME NEW i \in 1..255 PROVE p[i] \in Byte
    OBVIOUS
  <2>1. p \in Seq(Byte) /\ i \in 1..Len(p)
    BY <1>2
  <2> QED BY Zenon, <2>1, ElementIn
<1>4. /\ SubSeq(p, 1, 255) \in Seq(Byte)
      /\ Len(SubSeq(p, 1, 255)) = IF 1 <= 255 THEN 255 - 1 + 1 ELSE 0
      /\ \A i \in 1..(255 - 1 + 1) : SubSeq(p, 1, 255)[i] = p[1 + i - 1]
  BY <1>3, SubSeqProperties
<1>5. Powers(poly) = SubSeq(p, 1, 255)
  BY Zenon, <1>1 DEF Powers
<1> DEFINE q == SubSeq(p, 1, 255)
<1>6. q \in Seq(Byte) /\ Len(q) = 255
  BY <1>4
<1>7. ASSUME NEW i \in 0..254 PROVE q[i + 1] = GeneratorOf(poly)[i]
  <2>1. i \in 0..255 /\ i + 1 \in 1..(255 - 1 + 1) /\ 1 + (i + 1) - 1 = i + 1
    OBVIOUS
  <2>2. q[i + 1] = p[1 + (i + 1) - 1]
    BY <1>4, <2>1
  <2>3. q[i + 1] = p[i + 1]
    BY <2>1, <2>2
  <2> HIDE DEF q
  <2>4. GeneratorOf(poly)[i] = p[i + 1]
    BY SMT, <1>1, <2>1 DEF GeneratorOf
  <2> QED BY Zenon, <2>3, <2>4
<1> HIDE DEF q
<1>8. Powers(poly) = q
  BY Zenon, <1>5 DEF q
<1>9. Lists(q, GeneratorOf(poly))
  BY <1>6, <1>7 DEF Lists
<1> QED BY Zenon, <1>8, <1>9

\* Every polynomial that can be chosen is primitive.
LEMMA AllArePrimitive == PrimitivePolynomials = 0..15
<1>1. ASSUME NEW index \in 0..15 PROVE Range(Powers(gf256_poly_init(index))) = Byte \ {0}
  <2>1. PICK poly \in Nat : poly = gf256_poly_init(index)
    BY PolynomialsAre
  <2>2. PICK g : g = GeneratorOf(poly)
    OBVIOUS
  <2>3. PowersOf(poly, g)
    BY Zenon, <2>2, GeneratorOfIs
  <2>4. Certified(poly)
    BY Zenon, <2>1, AllCertified
  <2>5. Primitive(g)
    BY Zenon, <2>3, <2>4, CertifiedIsPrimitive
  <2>6. AllOnce(g)
    BY Zenon, <2>3, <2>5, PowersAreAll
  <2>7. {g[i] : i \in 0..254} = Byte \ {0}
    BY Zenon, <2>6 DEF AllOnce
  <2>8. PICK q : q = Powers(poly)
    OBVIOUS
  <2>9. q \in Seq(Byte) /\ Len(q) = 255 /\ \A i \in 0..254 : q[i + 1] = g[i]
    <3>1. Lists(q, g)
      BY Zenon, <2>2, <2>8, PowersTable
    <3> QED BY <3>1 DEF Lists
  <2>10. DOMAIN q = 1..255
    BY <2>9
  <2>11. {q[n] : n \in 1..255} = {g[i] : i \in 0..254}
    <3>1. \A n \in 1..255 : n - 1 \in 0..254 /\ (n - 1) + 1 = n
      OBVIOUS
    <3>2. \A n \in 1..255 : q[n] = g[n - 1]
      <4> SUFFICES ASSUME NEW n \in 1..255 PROVE q[n] = g[n - 1]
        OBVIOUS
      <4>1. PICK i \in 0..254 : i = n - 1
        BY <3>1
      <4>2. q[i + 1] = g[i]
        BY <2>9
      <4>3. i + 1 = n
        BY <4>1
      <4> QED BY Zenon, <4>1, <4>2, <4>3
    <3>3. \A i \in 0..254 : i + 1 \in 1..255
      OBVIOUS
    <3>4. \A i \in 0..254 : q[i + 1] = g[i]
      BY Zenon, <2>9
    <3>5. ASSUME NEW x \in {q[n] : n \in 1..255} PROVE x \in {g[i] : i \in 0..254}
      <4>1. PICK n \in 1..255 : x = q[n]
        BY Zenon
      <4>2. n - 1 \in 0..254 /\ x = g[n - 1]
        BY <3>1, <3>2, <4>1
      <4> QED BY Zenon, <4>2
    <3>6. ASSUME NEW x \in {g[i] : i \in 0..254} PROVE x \in {q[n] : n \in 1..255}
      <4>1. PICK i \in 0..254 : x = g[i]
        BY Zenon
      <4>2. i + 1 \in 1..255 /\ x = q[i + 1]
        BY <3>3, <3>4, <4>1
      <4> QED BY SMT, <4>2
    <3> QED BY Zenon, <3>5, <3>6
  <2>12. Range(q) = {q[n] : n \in 1..255}
    BY Zenon, <2>10 DEF Range
  <2> QED BY Zenon, <2>1, <2>7, <2>8, <2>11, <2>12
<1> QED BY Zenon, <1>1 DEF PrimitivePolynomials

\* The powers of the generator of the chosen polynomial.
Generator == GeneratorOf(Polynomial)

\* The default polynomial's generator runs through all bytes but zero and returns to one.
LEMMA GeneratorIs ==
    /\ Polynomial \in Nat /\ PowersOf(Polynomial, Generator) /\ Primitive(Generator)
    /\ Generator \in [0..255 -> Byte] /\ Generator[0] = 1 /\ Generator[255] = 1
<1>1. Polynomial \in Nat /\ Certified(Polynomial)
  BY Zenon, PolynomialIs
<1>2. PowersOf(Polynomial, Generator)
  BY Zenon, <1>1, GeneratorOfIs DEF Generator
<1>3. Primitive(Generator)
  BY Zenon, <1>1, <1>2, CertifiedIsPrimitive
<1> QED BY Zenon, <1>1, <1>2, <1>3 DEF PowersOf, Primitive

\* Beyond 255 the powers begin again.
Around(n) == IF n <= 255 THEN Generator[n] ELSE Generator[n - 255]

\* Beyond 255 the powers begin again.
LEMMA AroundIs ==
    /\ \A n \in 0..510 : Around(n) \in Byte
    /\ \A n \in 0..509 : Around(n + 1) = Double(Around(n), Polynomial)
<1>0. /\ Generator \in [0..255 -> Byte] /\ Generator[0] = 1 /\ Generator[255] = 1
      /\ \A i \in 0..254 : Generator[i + 1] = Double(Generator[i], Polynomial)
  BY Zenon, GeneratorIs DEF PowersOf
<1>1. \A n \in 0..510 : Around(n) \in Byte
  BY <1>0 DEF Around
<1>2. ASSUME NEW n \in 0..509 PROVE Around(n + 1) = Double(Around(n), Polynomial)
  <2>1. CASE n <= 254
    <3>1. n \in 0..254 /\ n <= 255 /\ n + 1 <= 255
      BY <2>1
    <3> QED BY SMT, <1>0, <3>1 DEF Around
  <2>2. CASE n = 255
    <3>1. Around(n) = Generator[0] /\ Around(n + 1) = Generator[1]
      BY <1>0, <2>2 DEF Around
    <3>2. 0 \in 0..254 /\ 0 + 1 = 1
      OBVIOUS
    <3>3. Generator[0 + 1] = Double(Generator[0], Polynomial)
      BY SMT, <1>0, <3>2
    <3> QED BY Zenon, <3>1, <3>2, <3>3
  <2>3. CASE n > 255
    <3> DEFINE m == n - 255
    <3>1. m \in 0..254 /\ ~(n <= 255) /\ ~(n + 1 <= 255) /\ (n + 1) - 255 = m + 1
      BY <2>3
    <3>2. Around(n) = Generator[m] /\ Around(n + 1) = Generator[m + 1]
      BY SMT, <3>1 DEF Around
    <3> HIDE DEF m
    <3>3. Generator[m + 1] = Double(Generator[m], Polynomial)
      BY SMT, <1>0, <3>1
    <3> QED BY Zenon, <3>2, <3>3
  <2> QED BY <2>1, <2>2, <2>3
<1> QED BY SMT, <1>1, <1>2

\* Powers multiply by adding their exponents.
LEMMA ExponentsAdd ==
    ASSUME NEW j \in 0..255
    PROVE  \A i \in 0..255 : MulBy(Polynomial, Generator[i], Generator[j]) = Around(i + j)
<1>0. /\ Polynomial \in Nat /\ Generator \in [0..255 -> Byte] /\ Generator[0] = 1
      /\ \A i \in 0..254 : Generator[i + 1] = Double(Generator[i], Polynomial)
  BY Zenon, GeneratorIs DEF PowersOf
<1> DEFINE S == {i \in 0..255 : MulBy(Polynomial, Generator[i], Generator[j]) = Around(i + j)}
<1>1. 0 \in S
  <2>1. 0 \in 0..255 /\ 0 + j = j /\ j <= 255
    OBVIOUS
  <2>2. Generator[j] \in Byte
    BY Zenon, <1>0
  <2>3. MulBy(Polynomial, 1, Generator[j]) = Generator[j]
    BY Zenon, <1>0, <2>2, MulByUnits
  <2>4. Around(0 + j) = Generator[j]
    BY SMT, <2>1 DEF Around
  <2> QED BY Zenon, <1>0, <2>1, <2>3, <2>4
<1>2. \A i \in 1..255 : i - 1 \in S => i \in S
  <2> SUFFICES ASSUME NEW i \in 1..255, i - 1 \in S PROVE i \in S
    OBVIOUS
  <2>1. /\ i \in 0..255 /\ i - 1 \in 0..254 /\ i - 1 \in 0..255 /\ (i - 1) + 1 = i
        /\ (i - 1) + j \in 0..509 /\ ((i - 1) + j) + 1 = i + j
    OBVIOUS
  <2>2. MulBy(Polynomial, Generator[i - 1], Generator[j]) = Around((i - 1) + j)
        /\ Generator[i - 1] \in Byte
    BY SMT, <1>0, <2>1
  <2> HIDE DEF S
  <2>3. Generator[i] = Double(Generator[i - 1], Polynomial)
    <3>1. Generator[(i - 1) + 1] = Double(Generator[i - 1], Polynomial)
      BY <1>0, <2>1
    <3> QED BY SMT, <2>1, <3>1
  <2>4. Around(i + j) = Double(Around((i - 1) + j), Polynomial)
    <3>1. Around(((i - 1) + j) + 1) = Double(Around((i - 1) + j), Polynomial)
      BY <2>1, AroundIs
    <3> QED BY Zenon, <2>1, <3>1
  <2>5. MulBy(Polynomial, Double(Generator[i - 1], Polynomial), Generator[j])
            = Double(MulBy(Polynomial, Generator[i - 1], Generator[j]), Polynomial)
    BY <1>0, <2>2, MulByDouble
  <2>6. MulBy(Polynomial, Generator[i], Generator[j]) = Around(i + j)
    BY Zenon, <2>2, <2>3, <2>4, <2>5
  <2> QED BY Zenon, <2>1, <2>6 DEF S
<1>3. 255 \in Nat
  OBVIOUS
<1>4. \A i \in 0..255 : i \in S
  <2> HIDE DEF S
  <2> QED BY Zenon, <1>1, <1>2, <1>3, StepByStep
<1> QED BY Zenon, <1>4

\* The field's product is multiplication modulo Polynomial.
LEMMA FieldProductIs ==
    \A x, y \in Byte : FieldProduct(x, y) = MulBy(Polynomial, x, y)
<1> DEFINE row(i) == [j \in 1..256 |-> MulBy(Polynomial, j - 1, i - 1)]
           table == [i \in 1..256 |-> Tabulated(row(i))]
<1>1. \A i \in 1..256 : Tabulated(row(i)) = row(i)
  <2> SUFFICES ASSUME NEW i \in 1..256 PROVE Tabulated(row(i)) = row(i)
    BY Zenon
  <2>1. PICK s : s = row(i)
    OBVIOUS
  <2>2. DOMAIN s = 1..256 /\ s = [j \in 1..256 |-> s[j]] /\ 256 \in Nat
    BY <2>1
  <2>3. Tabulated(s) = s
    BY Zenon, <2>2, TabulatedIs
  <2> QED BY Zenon, <2>1, <2>3
<1>2. Tabulated(table) = table
  <2>2. DOMAIN table = 1..256 /\ table = [i \in 1..256 |-> table[i]] /\ 256 \in Nat
    OBVIOUS
  <2> HIDE DEF table
  <2> QED BY Zenon, <2>2, TabulatedIs
<1>3. FieldProducts = table
  BY Zenon, <1>2 DEF FieldProducts, MulBy
<1> SUFFICES ASSUME NEW x \in Byte, NEW y \in Byte
             PROVE  FieldProduct(x, y) = MulBy(Polynomial, x, y)
  OBVIOUS
<1>4. x + 1 \in 1..256 /\ y + 1 \in 1..256 /\ (x + 1) - 1 = x /\ (y + 1) - 1 = y
  BY Zenon, ByteIndex
<1>5. table[y + 1] = row(y + 1)
  BY Zenon, <1>1, <1>4
<1>6. row(y + 1)[x + 1] = MulBy(Polynomial, x, y)
  BY Zenon, <1>4
<1> HIDE DEF table
<1> QED BY Zenon, <1>3, <1>5, <1>6 DEF FieldProduct

\* The laws of multiplication in the field of the default polynomial.
LEMMA FieldProductLaws ==
    /\ \A x, y \in Byte : FieldProduct(x, y) \in Byte
    /\ \A x \in Byte : /\ FieldProduct(0, x) = 0 /\ FieldProduct(x, 0) = 0
                       /\ FieldProduct(x, 1) = x /\ FieldProduct(1, x) = x
    /\ \A x, y, z \in Byte :
          FieldProduct(XorByDigits(x, y), z) = XorByDigits(FieldProduct(x, z), FieldProduct(y, z))
<1>0. Polynomial \in Nat /\ 0 \in Byte /\ 1 \in Byte
  BY Zenon, GeneratorIs, ByteFacts
<1>1. \A x, y \in Byte : FieldProduct(x, y) \in Byte
  BY SMT, <1>0, FieldProductIs, MulByInByte
<1>2. ASSUME NEW x \in Byte
      PROVE  /\ FieldProduct(0, x) = 0 /\ FieldProduct(x, 0) = 0
             /\ FieldProduct(x, 1) = x /\ FieldProduct(1, x) = x
  <2>1. /\ FieldProduct(0, x) = MulBy(Polynomial, 0, x) /\ FieldProduct(x, 0) = MulBy(Polynomial, x, 0)
        /\ FieldProduct(x, 1) = MulBy(Polynomial, x, 1) /\ FieldProduct(1, x) = MulBy(Polynomial, 1, x)
    BY Zenon, <1>0, FieldProductIs
  <2> QED BY Zenon, <1>0, <2>1, MulByUnits
<1>3. ASSUME NEW x \in Byte, NEW y \in Byte, NEW z \in Byte
      PROVE  FieldProduct(XorByDigits(x, y), z) = XorByDigits(FieldProduct(x, z), FieldProduct(y, z))
  <2>1. XorByDigits(x, y) \in Byte
    BY Zenon, XorClosed
  <2>2. /\ FieldProduct(XorByDigits(x, y), z) = MulBy(Polynomial, XorByDigits(x, y), z)
        /\ FieldProduct(x, z) = MulBy(Polynomial, x, z) /\ FieldProduct(y, z) = MulBy(Polynomial, y, z)
    BY Zenon, <2>1, FieldProductIs
  <2>3. MulBy(Polynomial, XorByDigits(x, y), z)
            = XorByDigits(MulBy(Polynomial, x, z), MulBy(Polynomial, y, z))
    BY <1>0, MulByLinear
  <2> QED BY Zenon, <2>2, <2>3
<1> QED BY Zenon, <1>1, <1>2, <1>3

-----------------------------------------------------------------------------
(* The tables of powers and logarithms                                       *)

\* Joining two lists, place by place.
LEMMA JoinIs ==
    ASSUME NEW S, NEW s \in Seq(S), NEW t \in Seq(S)
    PROVE  /\ s \o t \in Seq(S) /\ Len(s \o t) = Len(s) + Len(t)
           /\ \A i \in 1..Len(s) : (s \o t)[i] = s[i]
           /\ \A i \in 1..Len(t) : (s \o t)[i + Len(s)] = t[i]
<1>1. /\ s \o t \in Seq(S) /\ Len(s \o t) = Len(s) + Len(t)
      /\ \A i \in 1..Len(s) + Len(t) :
            (s \o t)[i] = IF i <= Len(s) THEN s[i] ELSE t[i - Len(s)]
  BY ConcatProperties
<1>0. Len(s) \in Nat /\ Len(t) \in Nat
  OBVIOUS
<1>2. \A i \in 1..Len(s) : (s \o t)[i] = s[i]
  BY <1>0, <1>1
<1>3. ASSUME NEW i \in 1..Len(t) PROVE (s \o t)[i + Len(s)] = t[i]
  <2>1. i + Len(s) \in 1..(Len(s) + Len(t)) /\ ~(i + Len(s) <= Len(s)) /\ (i + Len(s)) - Len(s) = i
    BY <1>0
  <2>2. (s \o t)[i + Len(s)] = t[(i + Len(s)) - Len(s)]
    BY <1>1, <2>1
  <2> QED BY <2>1, <2>2
<1> QED BY <1>1, <1>2, <1>3

\* A table written twice, a last entry that is 1, and a rest.
\* A table that starts with a sequence, the sequence again, and a one.
StartsTwice(table, p, n) ==
    /\ \A i \in 1..n : table[i] = p[i] /\ table[i + n] = p[i]
    /\ table[(n + n) + 1] = 1

\* The first entries of the table of powers, as gf256_explog_init lays it out.
LEMMA TwiceAndOne ==
    ASSUME NEW n \in Nat, n > 0, NEW p \in Seq(Byte), Len(p) = n, NEW z \in Seq(Byte),
           NEW table, table = p \o p \o << 1 >> \o z
    PROVE  StartsTwice(table, p, n)
<1> DEFINE twice == p \o p
           three == twice \o <<1>>
           all == three \o z
<1>1. /\ twice \in Seq(Byte) /\ Len(twice) = n + n
      /\ \A i \in 1..n : twice[i] = p[i] /\ twice[i + n] = p[i]
  BY JoinIs
<1> HIDE DEF twice
<1>2. <<1>> \in Seq(Byte) /\ Len(<<1>>) = 1 /\ <<1>>[1] = 1
  BY ByteFacts
<1>3. /\ three \in Seq(Byte) /\ Len(three) = (n + n) + 1
      /\ \A i \in 1..(n + n) : three[i] = twice[i]
      /\ three[(n + n) + 1] = 1
  <2>1. n + n \in Nat /\ 1 \in Nat /\ 1 \in 1..1 /\ 1 + (n + n) = (n + n) + 1
    OBVIOUS
  <2>a. PICK one : one = <<1>>
    OBVIOUS
  <2>b. one \in Seq(Byte) /\ Len(one) = 1 /\ one[1] = 1
    BY <1>2, <2>a
  <2>2. /\ twice \o one \in Seq(Byte) /\ Len(twice \o one) = (n + n) + 1
        /\ \A i \in 1..(n + n) : (twice \o one)[i] = twice[i]
        /\ \A i \in 1..1 : (twice \o one)[i + (n + n)] = one[i]
    <3>1. /\ twice \o one \in Seq(Byte) /\ Len(twice \o one) = Len(twice) + Len(one)
          /\ \A i \in 1..Len(twice) : (twice \o one)[i] = twice[i]
          /\ \A i \in 1..Len(one) : (twice \o one)[i + Len(twice)] = one[i]
      <4>1. twice \in Seq(Byte) /\ one \in Seq(Byte)
        BY Zenon, <1>1, <2>b
      <4> QED BY <4>1, JoinIs
    <3> QED BY Zenon, <1>1, <2>b, <3>1
  <2>3. (twice \o one)[1 + (n + n)] = one[1]
    BY Zenon, <2>1, <2>2
  <2>4. (twice \o one)[(n + n) + 1] = 1
    BY <2>1, <2>3, <2>b
  <2> QED BY Zenon, <2>2, <2>4, <2>a
<1> HIDE DEF three
<1>4. \A i \in 1..((n + n) + 1) : all[i] = three[i]
  <2>1. Len(z) \in Nat
    OBVIOUS
  <2>2. (n + n) + 1 \in Nat
    OBVIOUS
  <2> QED BY <1>3, <2>1, <2>2, JoinIs
<1>5. ASSUME NEW i \in 1..n PROVE all[i] = p[i] /\ all[i + n] = p[i]
  <2>1. i \in 1..((n + n) + 1) /\ i \in 1..(n + n) /\ i + n \in 1..((n + n) + 1) /\ i + n \in 1..(n + n)
    OBVIOUS
  <2> HIDE DEF all
  <2> QED BY Zenon, <1>1, <1>3, <1>4, <2>1
<1>6. all[(n + n) + 1] = 1
  <2>1. (n + n) + 1 \in 1..((n + n) + 1)
    OBVIOUS
  <2> HIDE DEF all
  <2> QED BY Zenon, <1>3, <1>4, <2>1
<1>7. table = all
  BY Zenon DEF all, three, twice
<1> QED BY Zenon, <1>5, <1>6, <1>7 DEF StartsTwice

\* GF256_EXP_TABLE holds the powers, around the corner to exponent 510.
LEMMA ExpTable ==
    \A n \in 0..510 : GF256_EXP_TABLE[n + 1] = Around(n)
<1>1. PICK p : p = Powers(Polynomial)
  OBVIOUS
<1>2. p \in Seq(Byte) /\ Len(p) = 255 /\ \A i \in 0..254 : p[i + 1] = Generator[i]
  <2>1. Lists(p, Generator)
    BY Zenon, <1>1, GeneratorIs, PowersTable DEF Generator
  <2> QED BY <2>1 DEF Lists
<1>3. PICK z : z = [i \in 1..514 |-> 0]
  OBVIOUS
<1>4. z \in Seq(Byte)
  BY <1>3, ByteFacts
<1>5. PICK all : all = p \o p \o <<1>> \o z
  OBVIOUS
<1>6. GF256_EXP_TABLE = all
  BY Zenon, <1>1, <1>3, <1>5 DEF GF256_EXP_TABLE
<1>7. PICK len \in Nat : len = 255
  OBVIOUS
<1>8. /\ \A i \in 1..len : all[i] = p[i] /\ all[i + len] = p[i]
      /\ all[(len + len) + 1] = 1
  <2>1. len > 0 /\ Len(p) = len /\ p \in Seq(Byte)
    BY <1>2, <1>7
  <2>2. StartsTwice(all, p, len)
    BY Zenon, <1>4, <1>5, <2>1, TwiceAndOne
  <2> QED BY Zenon, <2>2 DEF StartsTwice
<1>9. Generator[0] = 1 /\ Generator[255] = 1
  BY Zenon, GeneratorIs
<1> SUFFICES ASSUME NEW n \in 0..510 PROVE all[n + 1] = Around(n)
  BY <1>6
<1>10. CASE n <= 254
  <2>1. n + 1 \in 1..len /\ n \in 0..254 /\ n <= 255
    BY <1>7, <1>10
  <2>2. Around(n) = Generator[n]
    BY <2>1 DEF Around
  <2>3. p[n + 1] = Generator[n]
    BY Zenon, <1>2, <2>1
  <2>4. all[n + 1] = p[n + 1]
    BY Zenon, <1>8, <2>1
  <2> QED BY Zenon, <2>2, <2>3, <2>4
<1>11. CASE n > 254 /\ n <= 509
  <2>1. PICK m \in 0..254 : m = n - 255
    BY <1>11
  <2>2. m + 1 \in 1..len /\ n + 1 = (m + 1) + len
    BY <1>7, <2>1
  <2>3. all[n + 1] = Generator[m]
    <3>1. all[(m + 1) + len] = p[m + 1] /\ p[m + 1] = Generator[m]
      BY Zenon, <1>2, <1>8, <2>2
    <3> QED BY Zenon, <2>2, <3>1
  <2>4. Around(n) = Generator[m]
    BY <1>9, <1>11, <2>1 DEF Around
  <2> QED BY Zenon, <2>3, <2>4
<1>12. CASE n = 510
  <2>1. Around(n) = 1
    BY <1>9, <1>12 DEF Around
  <2>2. n + 1 = (len + len) + 1
    BY <1>7, <1>12
  <2> QED BY Zenon, <1>8, <2>1, <2>2
<1> QED BY <1>10, <1>11, <1>12

\* The logarithm of a byte that is not zero.
Log(x) == GF256_LOG_TABLE[x + 1]

\* The greatest of a single number and 0.
LEMMA MaxOfOne ==
    ASSUME NEW m \in Nat
    PROVE  Max({m} \cup {0}) = m
<1> DEFINE At(k) == \A y \in {m} \cup {0} : k >= y
           top == CHOOSE k \in {m} \cup {0} : At(k)
<1>1. m \in {m} \cup {0} /\ At(m)
  OBVIOUS
<1>2. top \in {m} \cup {0} /\ At(top)
  <2> HIDE DEF At
  <2> QED BY Zenon, <1>1
<1>3. Max({m} \cup {0}) = top
  BY Zenon DEF Max
<1> HIDE DEF top
<1>4. top = m
  BY <1>2
<1> QED BY Zenon, <1>3, <1>4

\* GF256_LOG_TABLE inverts the table of powers.
LEMMA LogTable ==
    \A x \in 1..255 : Log(x) \in 1..255 /\ Generator[Log(x)] = x
<1>1. PICK p : p = Powers(Polynomial)
  OBVIOUS
<1> DEFINE found(i) == {j \in 1..254 : p[j + 1] = i + 1}
<1>2. PICK t : t = [i \in 1..254 |-> Max(found(i) \cup {0})]
  BY Zenon
<1>3. GF256_LOG_TABLE = <<512, 255>> \o t
  BY ZenonT(60), <1>1, <1>2 DEF GF256_LOG_TABLE
<1>4. \A i \in 0..254 : p[i + 1] = Generator[i]
  <2>1. Lists(p, Generator)
    BY Zenon, <1>1, GeneratorIs, PowersTable DEF Generator
  <2> QED BY <2>1 DEF Lists
<1>5. Generator[0] = 1 /\ Generator[255] = 1
  BY Zenon, GeneratorIs
<1>6. /\ \A i, j \in 0..254 : Generator[i] = Generator[j] => i = j
      /\ {Generator[i] : i \in 0..254} = Byte \ {0}
  <2>1. Polynomial \in Nat /\ PowersOf(Polynomial, Generator) /\ Primitive(Generator)
    BY Zenon, GeneratorIs
  <2>2. AllOnce(Generator)
    BY Zenon, <2>1, PowersAreAll
  <2> QED BY Zenon, <2>2 DEF AllOnce
<1>7. ASSUME NEW i \in 1..254
      PROVE  t[i] \in 1..254 /\ Generator[t[i]] = i + 1
  <2>1. i + 1 \in Byte \ {0} /\ i + 1 # 1
    BY DEF Byte
  <2>2. PICK m \in 0..254 : Generator[m] = i + 1
    <3>1. i + 1 \in {Generator[j] : j \in 0..254}
      BY Zenon, <1>6, <2>1
    <3> QED BY Zenon, <3>1
  <2>3. m # 0
    BY Zenon, <1>5, <2>1, <2>2
  <2>4. m \in 1..254
    BY <2>3
  <2>5. \A j \in 1..254 : j \in 0..254
    OBVIOUS
  <2>6. \A j \in 1..254 : p[j + 1] = i + 1 <=> j = m
    <3> SUFFICES ASSUME NEW j \in 1..254 PROVE p[j + 1] = i + 1 <=> j = m
      BY Zenon
    <3>1. j \in 0..254
      BY Zenon, <2>5
    <3>2. p[j + 1] = Generator[j]
      BY Zenon, <1>4, <3>1
    <3>3. Generator[j] = Generator[m] => j = m
      BY Zenon, <1>6, <3>1
    <3> QED BY Zenon, <2>2, <3>2, <3>3
  <2>7. found(i) = {m}
    BY <2>4, <2>6
  <2>8. t[i] = m
    <3>1. t[i] = Max(found(i) \cup {0})
      BY Zenon, <1>2
    <3>2. m \in Nat
      OBVIOUS
    <3> HIDE DEF found
    <3> QED BY Zenon, <2>7, <3>1, <3>2, MaxOfOne
  <2> QED BY Zenon, <2>2, <2>4, <2>8
<1>8. t \in Seq(Int) /\ Len(t) = 254
  <2>1. DOMAIN t = 1..254 /\ t = [i \in 1..254 |-> t[i]]
    BY Zenon, <1>2
  <2>2. \A i \in 1..254 : t[i] \in Int
    <3>1. \A n \in 1..254 : n \in Int
      OBVIOUS
    <3> QED BY Zenon, <1>7, <3>1
  <2>3. t \in [1..254 -> Int] /\ 254 \in Nat
    BY SMT, <2>1, <2>2
  <2>4. Len(t) = 254
    BY <2>1, <2>3
  <2>5. t \in Seq(Int)
    <3>1. PICK n \in Nat : n = 254
      OBVIOUS
    <3>2. t \in [1..n -> Int]
      BY Zenon, <2>3, <3>1
    <3> QED BY Zenon, <3>2, SeqDef
  <2> QED BY Zenon, <2>4, <2>5
<1>9. PICK all : all = <<512, 255>> \o t
  OBVIOUS
<1>10. all[2] = 255 /\ \A i \in 1..254 : all[i + 2] = t[i]
  <2>1. PICK s : s = <<512, 255>>
    OBVIOUS
  <2>2. s \in Seq(Int) /\ Len(s) = 2 /\ s[2] = 255
    BY <2>1
  <2>3. /\ \A i \in 1..2 : (s \o t)[i] = s[i]
        /\ \A i \in 1..254 : (s \o t)[i + 2] = t[i]
    <3>1. /\ \A i \in 1..Len(s) : (s \o t)[i] = s[i]
          /\ \A i \in 1..Len(t) : (s \o t)[i + Len(s)] = t[i]
      <4>1. s \in Seq(Int) /\ t \in Seq(Int)
        BY Zenon, <1>8, <2>2
      <4> QED BY <4>1, JoinIs
    <3>2. Len(s) = 2 /\ Len(t) = 254
      BY <1>8, <2>2
    <3>3. \A i \in 1..2 : (s \o t)[i] = s[i]
      BY Zenon, <3>1, <3>2
    <3>4. ASSUME NEW i \in 1..254 PROVE (s \o t)[i + 2] = t[i]
      <4>1. i \in 1..Len(t)
        BY <3>2
      <4>2. (s \o t)[i + Len(s)] = t[i]
        BY Zenon, <3>1, <4>1
      <4> QED BY <3>2, <4>2
    <3> QED BY Zenon, <3>3, <3>4
  <2>4. all = s \o t
    BY Zenon, <1>9, <2>1
  <2>5. all[2] = 255
    <3>1. 2 \in 1..2
      OBVIOUS
    <3>2. all[2] = s[2]
      BY Zenon, <2>3, <2>4, <3>1
    <3> QED BY <2>2, <3>2
  <2> QED BY Zenon, <2>3, <2>4, <2>5
<1> SUFFICES ASSUME NEW x \in 1..255 PROVE Log(x) \in 1..255 /\ Generator[Log(x)] = x
  BY Zenon
<1>11. Log(x) = all[x + 1]
  BY SMT, <1>3, <1>9 DEF Log
<1>12. CASE x = 1
  <2>1. x + 1 = 2 /\ 255 \in 1..255
    BY <1>12
  <2> QED BY <1>5, <1>10, <1>11, <1>12, <2>1
<1>13. CASE x # 1
  <2>1. PICK i \in 1..254 : i = x - 1
    BY <1>13
  <2>2. i + 2 = x + 1 /\ i + 1 = x
    BY <2>1
  <2>3. Log(x) = t[i]
    BY <1>10, <1>11, <2>2
  <2>4. t[i] \in 1..254 /\ Generator[t[i]] = i + 1
    BY Zenon, <1>7
  <2>6. Log(x) \in 1..255
    <3>1. PICK l \in 1..254 : l = t[i]
      BY Zenon, <2>4
    <3> QED BY <2>3, <3>1
  <2>7. Generator[Log(x)] = x
    BY Zenon, <2>2, <2>3, <2>4
  <2> QED BY Zenon, <2>6, <2>7
<1> QED BY Zenon, <1>12, <1>13

-----------------------------------------------------------------------------
(* The tables of products and quotients                                      *)

\* A sequence of n elements, whatever they are.
Row(t, n) == t = [i \in 1..n |-> t[i]]

\* It stands in s behind an element a.
Leads(s, a, t, n) == s[1] = a /\ \A i \in 1..n : s[i + 1] = t[i]

\* A table with one entry put in front of a row.
LEMMA Behind ==
    ASSUME NEW n \in Nat, NEW a, NEW t, Row(t, n)
    PROVE  Leads(<<a>> \o t, a, t, n)
<1> DEFINE S == {a} \cup {t[i] : i \in 1..n}
<1>1. PICK s : s = <<a>>
  OBVIOUS
<1>2. s \in Seq(S) /\ Len(s) = 1 /\ s[1] = a
  BY <1>1
<1>3. t \in [1..n -> S]
  <2>1. \A i \in 1..n : t[i] \in S
    OBVIOUS
  <2> HIDE DEF S
  <2> QED BY Zenon, <2>1 DEF Row
<1> HIDE DEF S
<1>4. t \in Seq(S)
  BY Zenon, <1>3, SeqDef
<1>5. Len(t) = n
  BY <1>3
<1>6. /\ \A i \in 1..Len(s) : (s \o t)[i] = s[i]
      /\ \A i \in 1..Len(t) : (s \o t)[i + Len(s)] = t[i]
  <2>1. s \in Seq(S)
    BY <1>2
  <2> QED BY <1>4, <2>1, JoinIs
<1>7. (s \o t)[1] = a
  BY <1>2, <1>6
<1>8. \A i \in 1..n : (s \o t)[i + 1] = t[i]
  BY Zenon, <1>2, <1>5, <1>6
<1> QED BY Zenon, <1>1, <1>7, <1>8 DEF Leads

\* A table whose first row and first column are zero, and whose other cells are
\* given.
Bordered(table, cells, n) ==
    \A x, y \in 0..n : table[y + 1][x + 1] = IF x = 0 \/ y = 0 THEN 0 ELSE cells[y][x]

\* A table with a row of zeros above and a column of zeros on the left.
LEMMA TableWithZeros ==
    ASSUME NEW n \in Nat, NEW zero, \A i \in 1..(n + 1) : zero[i] = 0, NEW cells,
           \A y \in 1..n : Row(cells[y], n)
    PROVE  Bordered(<<zero>> \o [y \in 1..n |-> <<0>> \o cells[y]], cells, n)
<1>1. PICK rows : rows = [y \in 1..n |-> <<0>> \o cells[y]]
  OBVIOUS
<1>2. PICK table : table = <<zero>> \o rows
  OBVIOUS
<1>3. table[1] = zero /\ \A y \in 1..n : table[y + 1] = rows[y]
  <2>1. Row(rows, n)
    BY Zenon, <1>1 DEF Row
  <2>2. Leads(table, zero, rows, n)
    BY Zenon, <1>2, <2>1, Behind
  <2> QED BY Zenon, <2>2 DEF Leads
<1>4. ASSUME NEW x \in 0..n, NEW y \in 0..n
      PROVE  table[y + 1][x + 1] = IF x = 0 \/ y = 0 THEN 0 ELSE cells[y][x]
  <2>1. CASE y = 0
    <3>1. x + 1 \in 1..(n + 1) /\ y + 1 = 1
      BY <2>1
    <3>2. zero[x + 1] = 0
      BY Zenon, <3>1
    <3>3. table[y + 1] = zero
      BY Zenon, <1>3, <3>1
    <3> QED BY Zenon, <2>1, <3>2, <3>3
  <2>2. CASE y # 0
    <3>1. y \in 1..n
      BY <2>2
    <3>2. table[y + 1] = <<0>> \o cells[y]
      BY Zenon, <1>1, <1>3, <3>1
    <3>3. /\ (<<0>> \o cells[y])[1] = 0
          /\ \A i \in 1..n : (<<0>> \o cells[y])[i + 1] = cells[y][i]
      <4>1. Leads(<<0>> \o cells[y], 0, cells[y], n)
        BY Zenon, <3>1, Behind
      <4> QED BY Zenon, <4>1 DEF Leads
    <3>4. CASE x = 0
      <4>1. x + 1 = 1
        BY <3>4
      <4> QED BY Zenon, <3>2, <3>3, <3>4, <4>1
    <3>5. CASE x # 0
      <4>1. x \in 1..n
        BY <3>5
      <4> QED BY Zenon, <2>2, <3>2, <3>3, <3>5, <4>1
    <3> QED BY Zenon, <3>4, <3>5
  <2> QED BY Zenon, <2>1, <2>2
<1>5. Bordered(table, cells, n)
  BY Zenon, <1>4 DEF Bordered
<1> QED BY Zenon, <1>1, <1>2, <1>5

\* Bytes are the numbers to 255.
LEMMA ByteIs == Byte = 0..255 /\ \A x \in Byte : x # 0 => x \in 1..255
<1> QED BY DEF Byte

\* The sums and differences of logarithms are indices of the table of powers.
LogsFit(a, b) == b % 256 = b /\ a + b \in 0..510 /\ a + (255 - b) \in 0..510

\* A sum or difference of two logarithms is inside the table of powers.
LEMMA LogRange ==
    ASSUME NEW x \in 1..255, NEW y \in 1..255
    PROVE  LogsFit(Log(x), Log(y))
<1>1. PICK a \in 1..255 : a = Log(x)
  BY Zenon, LogTable
<1>2. PICK b \in 1..255 : b = Log(y)
  BY Zenon, LogTable
<1>3. LogsFit(a, b)
  BY DEF LogsFit
<1> QED BY Zenon, <1>1, <1>2, <1>3

\* GF256_MUL_TABLE as gf256_muldiv_init fills it: by adding logarithms.
LEMMA MulTable ==
    \A x, y \in Byte : gf256_mul(x, y) = IF x = 0 \/ y = 0 THEN 0 ELSE Around(Log(x) + Log(y))
<1>1. PICK n \in Nat : n = 255
  OBVIOUS
<1>2. PICK exp : exp = GF256_EXP_TABLE
  OBVIOUS
<1>3. PICK log : log = GF256_LOG_TABLE
  OBVIOUS
<1>4. PICK cells :
        cells = [y \in 1..255 |-> [x \in 1..255 |-> exp[log[x + 1] + (log[y + 1] % 256) + 1]]]
  BY Zenon
<1>5. GF256_MUL_TABLE = <<ZeroRow>> \o [y \in 1..n |-> <<0>> \o cells[y]]
  <2>1. GF256_MUL_TABLE = <<ZeroRow>> \o [y \in 1..255 |-> <<0>> \o
                            [x \in 1..255 |-> exp[log[x + 1] + (log[y + 1] % 256) + 1]]]
    BY <1>2, <1>3 DEF GF256_MUL_TABLE
  <2>2. PICK D : D = 1..255
    OBVIOUS
  <2>4. \A y \in D : cells[y] = [x \in 1..255 |-> exp[log[x + 1] + (log[y + 1] % 256) + 1]]
    BY Zenon, <1>4, <2>2
  <2>5. [y \in D |-> <<0>> \o cells[y]]
            = [y \in D |-> <<0>> \o [x \in 1..255 |-> exp[log[x + 1] + (log[y + 1] % 256) + 1]]]
    BY Zenon, <2>4
  <2>3. GF256_MUL_TABLE = <<ZeroRow>> \o [y \in 1..255 |-> <<0>> \o cells[y]]
    BY Zenon, <2>1, <2>2, <2>5
  <2> QED BY Zenon, <1>1, <2>3
<1>6. \A i \in 1..(n + 1) : ZeroRow[i] = 0
  BY <1>1 DEF ZeroRow
<1>7. \A y \in 1..n : Row(cells[y], n)
  <2>1. \A y \in 1..255 : cells[y] = [x \in 1..255 |-> cells[y][x]]
    BY Zenon, <1>4
  <2> QED BY Zenon, <1>1, <2>1 DEF Row
<1>8. Bordered(GF256_MUL_TABLE, cells, n)
  <2>1. Bordered(<<ZeroRow>> \o [y \in 1..n |-> <<0>> \o cells[y]], cells, n)
    BY Zenon, <1>6, <1>7, TableWithZeros
  <2> QED BY Zenon, <1>5, <2>1
<1> SUFFICES ASSUME NEW x \in Byte, NEW y \in Byte
             PROVE  gf256_mul(x, y) = IF x = 0 \/ y = 0 THEN 0 ELSE Around(Log(x) + Log(y))
  OBVIOUS
<1>9. gf256_mul(x, y) = IF x = 0 \/ y = 0 THEN 0 ELSE cells[y][x]
  <2>1. x \in 0..n /\ y \in 0..n
    BY <1>1 DEF Byte
  <2> QED BY Zenon, <1>8, <2>1 DEF gf256_mul, Bordered
<1>10. ASSUME x # 0, y # 0 PROVE cells[y][x] = Around(Log(x) + Log(y))
  <2>1. x \in 1..255 /\ y \in 1..255
    BY Zenon, <1>10, ByteIs
  <2>3. cells[y][x] = exp[Log(x) + (Log(y) % 256) + 1]
    BY Zenon, <1>3, <1>4, <2>1 DEF Log
  <2>4. Log(y) % 256 = Log(y) /\ Log(x) + Log(y) \in 0..510
    <3>1. LogsFit(Log(x), Log(y))
      BY Zenon, <2>1, LogRange
    <3> QED BY <3>1 DEF LogsFit
  <2>5. exp[(Log(x) + Log(y)) + 1] = Around(Log(x) + Log(y))
    BY Zenon, <1>2, <2>4, ExpTable
  <2> QED BY Zenon, <2>3, <2>4, <2>5
<1> QED BY Zenon, <1>9, <1>10

\* GF256_DIV_TABLE as gf256_muldiv_init fills it: by subtracting logarithms.
LEMMA DivTable ==
    \A x, y \in Byte :
        gf256_div(x, y) = IF x = 0 \/ y = 0 THEN 0 ELSE Around(Log(x) + (255 - Log(y)))
<1>1. PICK n \in Nat : n = 255
  OBVIOUS
<1>2. PICK exp : exp = GF256_EXP_TABLE
  OBVIOUS
<1>3. PICK log : log = GF256_LOG_TABLE
  OBVIOUS
<1>4. PICK cells :
        cells = [y \in 1..255 |-> [x \in 1..255 |-> exp[log[x + 1] + (255 - (log[y + 1] % 256)) + 1]]]
  BY Zenon
<1>5. GF256_DIV_TABLE = <<ZeroRow>> \o [y \in 1..n |-> <<0>> \o cells[y]]
  <2>1. GF256_DIV_TABLE = <<ZeroRow>> \o [y \in 1..255 |-> <<0>> \o
                            [x \in 1..255 |-> exp[log[x + 1] + (255 - (log[y + 1] % 256)) + 1]]]
    BY <1>2, <1>3 DEF GF256_DIV_TABLE
  <2>2. PICK D : D = 1..255
    OBVIOUS
  <2>4. \A y \in D : cells[y] = [x \in 1..255 |-> exp[log[x + 1] + (255 - (log[y + 1] % 256)) + 1]]
    BY Zenon, <1>4, <2>2
  <2>5. [y \in D |-> <<0>> \o cells[y]]
            = [y \in D |-> <<0>> \o [x \in 1..255 |-> exp[log[x + 1] + (255 - (log[y + 1] % 256)) + 1]]]
    BY ZenonT(60), <2>4
  <2>3. GF256_DIV_TABLE = <<ZeroRow>> \o [y \in 1..255 |-> <<0>> \o cells[y]]
    BY Zenon, <2>1, <2>2, <2>5
  <2> QED BY <1>1, <2>3
<1>6. \A i \in 1..(n + 1) : ZeroRow[i] = 0
  BY <1>1 DEF ZeroRow
<1>7. \A y \in 1..n : Row(cells[y], n)
  <2>1. \A y \in 1..255 : cells[y] = [x \in 1..255 |-> cells[y][x]]
    BY Zenon, <1>4
  <2> QED BY <1>1, <2>1 DEF Row
<1>8. Bordered(GF256_DIV_TABLE, cells, n)
  <2>1. Bordered(<<ZeroRow>> \o [y \in 1..n |-> <<0>> \o cells[y]], cells, n)
    BY Zenon, <1>6, <1>7, TableWithZeros
  <2> QED BY Zenon, <1>5, <2>1
<1> SUFFICES ASSUME NEW x \in Byte, NEW y \in Byte
             PROVE  gf256_div(x, y) = IF x = 0 \/ y = 0 THEN 0
                                      ELSE Around(Log(x) + (255 - Log(y)))
  OBVIOUS
<1>9. gf256_div(x, y) = IF x = 0 \/ y = 0 THEN 0 ELSE cells[y][x]
  <2>1. x \in 0..n /\ y \in 0..n
    BY <1>1 DEF Byte
  <2> QED BY Zenon, <1>8, <2>1 DEF gf256_div, Bordered
<1>10. ASSUME x # 0, y # 0 PROVE cells[y][x] = Around(Log(x) + (255 - Log(y)))
  <2>1. x \in 1..255 /\ y \in 1..255
    BY Zenon, <1>10, ByteIs
  <2>3. cells[y][x] = exp[Log(x) + (255 - (Log(y) % 256)) + 1]
    BY Zenon, <1>3, <1>4, <2>1 DEF Log
  <2>4. Log(y) % 256 = Log(y) /\ Log(x) + (255 - Log(y)) \in 0..510
    <3>1. LogsFit(Log(x), Log(y))
      BY Zenon, <2>1, LogRange
    <3> QED BY <3>1 DEF LogsFit
  <2>5. exp[(Log(x) + (255 - Log(y))) + 1] = Around(Log(x) + (255 - Log(y)))
    BY Zenon, <1>2, <2>4, ExpTable
  <2> QED BY SMT, <2>3, <2>4, <2>5
<1> QED BY Zenon, <1>9, <1>10

-----------------------------------------------------------------------------
(* Products and inverses by logarithms                                       *)

\* The bytes but zero are the powers of the generator; the product of two powers is
\* the power of the sum, and only the first power and the last are 1.
LEMMA Exponents ==
    /\ \A x \in 1..255 : x \in Byte /\ Log(x) \in 0..255 /\ Log(x) \in 1..255
                            /\ Generator[Log(x)] = x
    /\ \A i \in 0..255 : Generator[i] \in 1..255 /\ Generator[i] \in Byte
    /\ \A i, j \in 0..255 : FieldProduct(Generator[i], Generator[j]) = Around(i + j)
    /\ \A i \in 0..255 : Generator[i] = 1 => i = 0 \/ i = 255
    /\ Generator[0] = 1 /\ Generator[255] = 1
<1>1. /\ Polynomial \in Nat /\ PowersOf(Polynomial, Generator) /\ Primitive(Generator)
      /\ Generator[0] = 1 /\ Generator[255] = 1 /\ Generator \in [0..255 -> Byte]
  BY Zenon, GeneratorIs
<1>2. ASSUME NEW x \in 1..255
      PROVE  x \in Byte /\ Log(x) \in 0..255 /\ Log(x) \in 1..255 /\ Generator[Log(x)] = x
  <2>1. PICK l \in 1..255 : l = Log(x) /\ Generator[l] = x
    BY Zenon, LogTable
  <2>2. x \in Byte /\ l \in 0..255
    BY DEF Byte
  <2> QED BY Zenon, <2>1, <2>2
<1>3. ASSUME NEW i \in 0..255 PROVE Generator[i] \in 1..255 /\ Generator[i] \in Byte
  <2>1. Generator[i] \in Byte
    BY Zenon, <1>1
  <2>2. Generator[i] # 0
    <3>1. CASE i = 255
      BY <1>1, <3>1
    <3>2. CASE i # 255
      <4>1. AllOnce(Generator)
        BY Zenon, <1>1, PowersAreAll
      <4>2. i \in 0..254
        BY <3>2
      <4>3. Generator[i] \in {Generator[k] : k \in 0..254}
        BY Zenon, <4>2
      <4>4. {Generator[k] : k \in 0..254} = Byte \ {0}
        BY Zenon, <4>1 DEF AllOnce
      <4> QED BY <4>3, <4>4
    <3> QED BY <3>1, <3>2
  <2> QED BY Zenon, <2>1, <2>2, ByteIs
<1>4. ASSUME NEW i \in 0..255, NEW j \in 0..255
      PROVE  FieldProduct(Generator[i], Generator[j]) = Around(i + j)
  <2>1. MulBy(Polynomial, Generator[i], Generator[j]) = Around(i + j)
    BY Zenon, ExponentsAdd
  <2>2. Generator[i] \in Byte /\ Generator[j] \in Byte
    BY Zenon, <1>1
  <2> QED BY Zenon, <2>1, <2>2, FieldProductIs
<1>6. ASSUME NEW k \in 1..254 PROVE Generator[k] # 1
  <2>1. Polynomial \in Nat /\ PowersOf(Polynomial, Generator) /\ Primitive(Generator)
    BY Zenon, <1>1
  <2> QED BY Zenon, <2>1, NoEarlierOne
<1>5. ASSUME NEW i \in 0..255, Generator[i] = 1 PROVE i = 0 \/ i = 255
  <2> SUFFICES ASSUME i # 0, i # 255 PROVE FALSE
    OBVIOUS
  <2>1. i \in 1..254
    OBVIOUS
  <2> QED BY Zenon, <1>5, <1>6, <2>1
<1> QED BY Zenon, <1>1, <1>2, <1>3, <1>4, <1>5

\* Multiplication of elements is addition of logarithms, so it commutes.
LEMMA ProductByLogs ==
    /\ \A x, y \in 1..255 : /\ FieldProduct(x, y) = Around(Log(x) + Log(y))
                            /\ FieldProduct(x, y) = FieldProduct(y, x)
    /\ \A x, y \in Byte : FieldProduct(x, y) = FieldProduct(y, x)
    /\ \A x, y \in Byte : gf256_mul(x, y) = FieldProduct(x, y)
<1>1. ASSUME NEW x \in 1..255, NEW y \in 1..255
      PROVE  FieldProduct(x, y) = Around(Log(x) + Log(y))
  <2>1. PICK i \in 0..255 : i = Log(x) /\ Generator[i] = x
    BY Zenon, Exponents
  <2>2. PICK j \in 0..255 : j = Log(y) /\ Generator[j] = y
    BY Zenon, Exponents
  <2>a. \A a, b \in 0..255 : FieldProduct(Generator[a], Generator[b]) = Around(a + b)
    BY Zenon, Exponents
  <2>3. FieldProduct(Generator[i], Generator[j]) = Around(i + j)
    BY Zenon, <2>a
  <2> QED BY Zenon, <2>1, <2>2, <2>3
<1>2. ASSUME NEW x \in 1..255, NEW y \in 1..255 PROVE FieldProduct(x, y) = FieldProduct(y, x)
  <2>1. PICK i \in 0..255 : i = Log(x)
    BY Zenon, Exponents
  <2>2. PICK j \in 0..255 : j = Log(y)
    BY Zenon, Exponents
  <2>3. i + j = j + i
    OBVIOUS
  <2>4. FieldProduct(x, y) = Around(i + j) /\ FieldProduct(y, x) = Around(j + i)
    BY Zenon, <1>1, <2>1, <2>2
  <2> QED BY Zenon, <2>3, <2>4
<1>3. \A x \in Byte : FieldProduct(0, x) = 0 /\ FieldProduct(x, 0) = 0
  BY Zenon, FieldProductLaws
<1>4. ASSUME NEW x \in Byte, NEW y \in Byte PROVE FieldProduct(x, y) = FieldProduct(y, x)
  <2>1. CASE x = 0 \/ y = 0
    BY Zenon, <1>3, <2>1
  <2>2. CASE x # 0 /\ y # 0
    <3>1. x \in 1..255 /\ y \in 1..255
      BY Zenon, <2>2, ByteIs
    <3> QED BY Zenon, <1>2, <3>1
  <2> QED BY Zenon, <2>1, <2>2
<1>5. ASSUME NEW x \in Byte, NEW y \in Byte PROVE gf256_mul(x, y) = FieldProduct(x, y)
  <2>1. gf256_mul(x, y) = IF x = 0 \/ y = 0 THEN 0 ELSE Around(Log(x) + Log(y))
    BY Zenon, MulTable
  <2>2. CASE x = 0 \/ y = 0
    BY Zenon, <1>3, <2>1, <2>2
  <2>3. CASE x # 0 /\ y # 0
    BY Zenon, <1>1, <2>1, <2>3, ByteIs
  <2> QED BY Zenon, <2>2, <2>3
<1> QED BY Zenon, <1>1, <1>2, <1>4, <1>5

\* The inverse of an element that is not zero has the opposite exponent.
Inverted(y) == Generator[255 - Log(y)]

\* Sums of two exponents that lead to 1, or back to an exponent.
LEMMA AroundSums ==
    /\ Around(255) = 1
    /\ \A i \in 1..255 : Around(i + 255) = Generator[i]
    /\ \A i, j \in 1..255 : Around(i + j) = 1 => Generator[255 - j] = Generator[i]
    /\ \A i, j \in 1..255 : \E m \in 1..255 :
          /\ Around(i + j) = Generator[m] /\ Around(m + (255 - j)) = Generator[i]
<1>0. Generator[0] = 1 /\ Generator[255] = 1
  BY Zenon, Exponents
<1>1. Around(255) = 1
  BY <1>0 DEF Around
<1>2. \A i \in 1..255 : Around(i + 255) = Generator[i]
  BY DEF Around
<1>3. ASSUME NEW i \in 1..255, NEW j \in 1..255, Around(i + j) = 1
      PROVE  Generator[255 - j] = Generator[i]
  <2>1. PICK n : n = i + j
    OBVIOUS
  <2>2. CASE n <= 255
    <3>1. n \in 0..255 /\ Generator[n] = 1
      BY <1>3, <2>1, <2>2 DEF Around
    <3>2. n = 0 \/ n = 255
      BY Zenon, <3>1, Exponents
    <3> QED BY <2>1, <3>2
  <2>3. CASE n > 255
    <3>1. PICK k : k = n - 255
      OBVIOUS
    <3>2. k \in 0..255 /\ Generator[k] = 1
      BY <1>3, <2>1, <2>3, <3>1 DEF Around
    <3>3. k = 0 \/ k = 255
      BY Zenon, <3>2, Exponents
    <3>4. i = 255 /\ j = 255
      BY <2>1, <2>3, <3>1, <3>3
    <3> QED BY <1>0, <3>4
  <2> QED BY <2>1, <2>2, <2>3
<1>4. ASSUME NEW i \in 1..255, NEW j \in 1..255
      PROVE  \E m \in 1..255 : /\ Around(i + j) = Generator[m]
                               /\ Around(m + (255 - j)) = Generator[i]
  <2>1. CASE i + j <= 255
    <3>1. PICK m \in 1..255 : m = i + j
      BY <2>1
    <3>2. Around(i + j) = Generator[m]
      BY <2>1, <3>1 DEF Around
    <3>3. m + (255 - j) = i + 255
      BY <3>1
    <3> QED BY ZenonT(60), <1>2, <3>2, <3>3
  <2>2. CASE i + j > 255
    <3>1. PICK m \in 1..255 : m = (i + j) - 255
      BY <2>2
    <3>2. Around(i + j) = Generator[m]
      BY <2>2, <3>1 DEF Around
    <3>3. m + (255 - j) = i
      BY <3>1
    <3>4. Around(i) = Generator[i]
      BY DEF Around
    <3> QED BY <3>2, <3>3, <3>4
  <2> QED BY <2>1, <2>2
<1> QED BY Zenon, <1>1, <1>2, <1>3, <1>4

\* Going back 255 minus the logarithm inverts.
LEMMA InvertedIs ==
    ASSUME NEW y \in 1..255
    PROVE  /\ Inverted(y) \in 1..255 /\ Inverted(y) \in Byte
           /\ FieldProduct(Inverted(y), y) = 1
           /\ \A x \in Byte : FieldProduct(x, y) = 1 => x = Inverted(y)
<1>1. PICK j \in 1..255 : j = Log(y) /\ Generator[j] = y
  BY ZenonT(60), Exponents
<1>2. PICK r \in 0..255 : r = 255 - j
  OBVIOUS
<1>3. j \in 0..255 /\ r + j = 255
  BY <1>2
<1>4. Inverted(y) = Generator[r]
  BY Zenon, <1>1, <1>2 DEF Inverted
<1>5. Generator[r] \in 1..255 /\ Generator[r] \in Byte
  BY Zenon, Exponents
<1>6. FieldProduct(Generator[r], Generator[j]) = Around(r + j)
  <2>1. \A a, b \in 0..255 : FieldProduct(Generator[a], Generator[b]) = Around(a + b)
    BY Zenon, Exponents
  <2> QED BY Zenon, <1>3, <2>1
<1>7. FieldProduct(Inverted(y), y) = 1
  BY Zenon, <1>1, <1>3, <1>4, <1>6, AroundSums
<1>8. ASSUME NEW x \in Byte, FieldProduct(x, y) = 1 PROVE x = Inverted(y)
  <2>1. x # 0
    <3>1. FieldProduct(0, y) = 0
      <4>1. y \in Byte
        BY Zenon, Exponents
      <4> QED BY Zenon, <4>1, FieldProductLaws
    <3> QED BY <1>8, <3>1
  <2>2. x \in 1..255
    BY Zenon, <2>1, ByteIs
  <2>3. PICK i \in 1..255 : i = Log(x) /\ Generator[i] = x
    BY ZenonT(60), <2>2, Exponents
  <2>4. Around(i + j) = 1
    BY Zenon, <1>1, <1>8, <2>2, <2>3, ProductByLogs
  <2>5. Generator[255 - j] = Generator[i]
    <3>1. \A a, b \in 1..255 : Around(a + b) = 1 => Generator[255 - b] = Generator[a]
      BY Zenon, AroundSums
    <3> QED BY ZenonT(60), <2>4, <3>1
  <2> QED BY Zenon, <1>2, <1>4, <2>3, <2>5
<1> QED BY Zenon, <1>4, <1>5, <1>7, <1>8

-----------------------------------------------------------------------------
(* Quotients, inverses and squares                                           *)

\* The inverse of the specification is that element.
LEMMA InverseIs ==
    /\ FieldInverse(0) = 0
    /\ \A y \in 1..255 : FieldInverse(y) = Inverted(y)
<1> DEFINE entry(i) == IF i = 1 THEN 0 ELSE CHOOSE x \in Byte : FieldProducts[i][x + 1] = 1
           table == [i \in 1..256 |-> entry(i)]
<1>1. FieldInverses = table
  <2>1. DOMAIN table = 1..256 /\ table = [i \in 1..256 |-> table[i]] /\ 256 \in Nat
    OBVIOUS
  <2>2. Tabulated(table) = table
    <3> HIDE DEF table
    <3> QED BY Zenon, <2>1, TabulatedIs
  <2> QED BY Zenon, <2>2 DEF FieldInverses
<1>2. \A i \in 1..256 : table[i] = entry(i)
  BY Zenon
<1> HIDE DEF table
<1>3. FieldInverse(0) = 0
  <2>1. 0 + 1 \in 1..256 /\ 0 + 1 = 1
    OBVIOUS
  <2>2. FieldInverse(0) = entry(0 + 1)
    BY Zenon, <1>1, <1>2, <2>1 DEF FieldInverse
  <2> QED BY Zenon, <2>1, <2>2
<1>4. ASSUME NEW y \in 1..255 PROVE FieldInverse(y) = Inverted(y)
  <2>1. y + 1 \in 1..256 /\ y + 1 # 1
    OBVIOUS
  <2>2. FieldInverse(y) = CHOOSE x \in Byte : FieldProducts[y + 1][x + 1] = 1
    BY Zenon, <1>1, <1>2, <2>1 DEF FieldInverse
  <2>3. /\ Inverted(y) \in Byte /\ FieldProduct(Inverted(y), y) = 1
        /\ \A x \in Byte : FieldProduct(x, y) = 1 => x = Inverted(y)
    BY Zenon, InvertedIs
  <2>4. /\ Inverted(y) \in Byte /\ FieldProducts[y + 1][Inverted(y) + 1] = 1
        /\ \A x \in Byte : FieldProducts[y + 1][x + 1] = 1 => x = Inverted(y)
    BY Zenon, <2>3 DEF FieldProduct
  <2> DEFINE chosen == CHOOSE x \in Byte : FieldProducts[y + 1][x + 1] = 1
  <2>5. chosen \in Byte /\ FieldProducts[y + 1][chosen + 1] = 1
    BY Zenon, <2>4
  <2> QED BY Zenon, <2>2, <2>4, <2>5
<1> QED BY Zenon, <1>3, <1>4

\* The division table holds the quotients of the field.
LEMMA DivisionIs ==
    /\ \A x, y \in Byte : gf256_div(x, y) = FieldQuotient(x, y)
    /\ \A x, y \in Byte : y # 0 => gf256_div(FieldProduct(x, y), y) = x
<1>0. \A x \in Byte : FieldProduct(0, x) = 0 /\ FieldProduct(x, 0) = 0
  BY Zenon, FieldProductLaws
<1>1. ASSUME NEW x \in 1..255, NEW y \in 1..255
      PROVE  gf256_div(x, y) = FieldProduct(x, Inverted(y))
  <2>1. PICK i \in 0..255 : i = Log(x) /\ Generator[i] = x
    BY ZenonT(60), Exponents
  <2>2. PICK j \in 1..255 : j = Log(y)
    BY Zenon, Exponents
  <2>3. 255 - j \in 0..255
    OBVIOUS
  <2>4. FieldProduct(Generator[i], Generator[255 - j]) = Around(i + (255 - j))
    <3>1. \A a, b \in 0..255 : FieldProduct(Generator[a], Generator[b]) = Around(a + b)
      BY Zenon, Exponents
    <3> QED BY ZenonT(60), <2>3, <3>1
  <2>5. gf256_div(x, y) = Around(Log(x) + (255 - Log(y)))
    <3>1. x \in Byte /\ y \in Byte /\ x # 0 /\ y # 0
      BY DEF Byte
    <3> QED BY SMT, <3>1, DivTable
  <2> QED BY Zenon, <2>1, <2>2, <2>4, <2>5 DEF Inverted
<1>2. ASSUME NEW x \in Byte, NEW y \in Byte PROVE gf256_div(x, y) = FieldQuotient(x, y)
  <2>1. gf256_div(x, y) = IF x = 0 \/ y = 0 THEN 0 ELSE Around(Log(x) + (255 - Log(y)))
    BY SMT, DivTable
  <2>2. CASE y = 0
    BY Zenon, <1>0, <2>1, <2>2, InverseIs DEF FieldQuotient
  <2>3. CASE y # 0
    <3>1. y \in 1..255
      BY Zenon, <2>3, ByteIs
    <3>2. FieldInverse(y) = Inverted(y) /\ Inverted(y) \in Byte
      BY Zenon, <3>1, InverseIs, InvertedIs
    <3>3. CASE x = 0
      BY Zenon, <1>0, <2>1, <3>2, <3>3 DEF FieldQuotient
    <3>4. CASE x # 0
      <4>1. x \in 1..255
        BY SMT, <3>4, ByteIs
      <4> QED BY Zenon, <1>1, <3>1, <3>2, <4>1 DEF FieldQuotient
    <3> QED BY Zenon, <3>3, <3>4
  <2> QED BY Zenon, <2>2, <2>3
<1>3. ASSUME NEW x \in Byte, NEW y \in Byte, y # 0
      PROVE  gf256_div(FieldProduct(x, y), y) = x
  <2>1. y \in 1..255
    BY Zenon, <1>3, ByteIs
  <2>2. CASE x = 0
    <3>1. FieldProduct(x, y) = 0 /\ 0 \in Byte
      BY Zenon, <1>0, <2>2, ByteFacts
    <3>2. gf256_div(0, y) = 0
      BY SMT, <3>1, DivTable
    <3> QED BY Zenon, <2>2, <3>1, <3>2
  <2>3. CASE x # 0
    <3>1. x \in 1..255
      BY Zenon, <2>3, ByteIs
    <3>2. PICK i \in 1..255 : i = Log(x) /\ Generator[i] = x
      BY ZenonT(60), <3>1, Exponents
    <3>3. PICK j \in 1..255 : j = Log(y)
      BY Zenon, <2>1, Exponents
    <3>4. PICK m \in 1..255 : Around(i + j) = Generator[m] /\ Around(m + (255 - j)) = Generator[i]
      BY ZenonT(60), AroundSums
    <3>5. FieldProduct(x, y) = Generator[m]
      BY ZenonT(60), <2>1, <3>1, <3>2, <3>3, <3>4, ProductByLogs
    <3>6. m \in 0..255 /\ 255 - j \in 0..255
      OBVIOUS
    <3>7. Generator[m] \in 1..255
      BY Zenon, <3>6, Exponents
    <3>8. gf256_div(Generator[m], y) = FieldProduct(Generator[m], Inverted(y))
      BY Zenon, <1>1, <2>1, <3>7
    <3>9. FieldProduct(Generator[m], Generator[255 - j]) = Around(m + (255 - j))
      <4>1. \A a, b \in 0..255 : FieldProduct(Generator[a], Generator[b]) = Around(a + b)
        BY Zenon, Exponents
      <4> QED BY ZenonT(60), <3>6, <4>1
    <3>10. Inverted(y) = Generator[255 - j]
      BY Zenon, <3>3 DEF Inverted
    <3> QED BY Zenon, <3>2, <3>4, <3>5, <3>8, <3>9, <3>10
  <2> QED BY Zenon, <2>2, <2>3
<1> QED BY Zenon, <1>2, <1>3

\* A row read entry by entry is the row.
LEMMA TabledRow ==
    ASSUME NEW n \in Nat, NEW t, Row(t, n), DOMAIN t = 1..n
    PROVE  Tabulated(t) = t
<1> QED BY Zenon, TabulatedIs DEF Row

\* GF256_INV_TABLE and GF256_SQR_TABLE hold inverses and squares.
LEMMA InversesAndSquares ==
    /\ \A y \in Byte : gf256_inv(y) = FieldInverse(y)
    /\ \A x \in Byte : gf256_sqr(x) = FieldProduct(x, x)
<1> DEFINE inv == [i \in 1..256 |-> GF256_DIV_TABLE[i][2]]
           sqr == [i \in 1..256 |-> GF256_MUL_TABLE[i][i]]
<1>1. GF256_INV_TABLE = inv
  <2>1. Row(inv, 256) /\ DOMAIN inv = 1..256 /\ 256 \in Nat
    BY DEF Row
  <2>2. Tabulated(inv) = inv
    <3> HIDE DEF inv
    <3> QED BY Zenon, <2>1, TabledRow
  <2> QED BY Zenon, <2>2 DEF GF256_INV_TABLE
<1>2. GF256_SQR_TABLE = sqr
  <2>1. Row(sqr, 256) /\ DOMAIN sqr = 1..256 /\ 256 \in Nat
    BY DEF Row
  <2>2. Tabulated(sqr) = sqr
    <3> HIDE DEF sqr
    <3> QED BY Zenon, <2>1, TabledRow
  <2> QED BY Zenon, <2>2 DEF GF256_SQR_TABLE
<1>3. ASSUME NEW y \in Byte PROVE gf256_inv(y) = FieldInverse(y)
  <2>1. y + 1 \in 1..256 /\ 1 + 1 = 2
    BY DEF Byte
  <2>2. gf256_inv(y) = GF256_DIV_TABLE[y + 1][2]
    BY Zenon, <1>1, <2>1 DEF gf256_inv
  <2>3. gf256_div(1, y) = GF256_DIV_TABLE[y + 1][1 + 1]
    BY Zenon DEF gf256_div
  <2>4. gf256_div(1, y) = FieldProduct(1, FieldInverse(y))
    BY Zenon, ByteFacts, DivisionIs DEF FieldQuotient
  <2>5. FieldInverse(y) \in Byte
    <3>1. CASE y = 0
      BY Zenon, <3>1, InverseIs, ByteFacts
    <3>2. CASE y # 0
      BY ZenonT(60), <3>2, ByteIs, InverseIs, InvertedIs
    <3> QED BY Zenon, <3>1, <3>2
  <2>6. FieldProduct(1, FieldInverse(y)) = FieldInverse(y)
    BY Zenon, <2>5, FieldProductLaws
  <2> QED BY <2>2, <2>3, <2>4, <2>6
<1>4. ASSUME NEW x \in Byte PROVE gf256_sqr(x) = FieldProduct(x, x)
  <2>1. x + 1 \in 1..256
    BY Zenon, ByteIndex
  <2>2. gf256_sqr(x) = GF256_MUL_TABLE[x + 1][x + 1]
    BY Zenon, <1>2, <2>1 DEF gf256_sqr
  <2>3. gf256_mul(x, x) = FieldProduct(x, x)
    BY Zenon, ProductByLogs
  <2> QED BY Zenon, <2>2, <2>3 DEF gf256_mul
<1> QED BY Zenon, <1>3, <1>4

-----------------------------------------------------------------------------
(* The tables of half bytes                                                  *)

\* A number's halves of four bits, the high one not shifted down.
Halves(x, lo, hi) ==
    x % 16 = lo /\ (x \div 16) * 16 = hi /\ x \div 16 \in 0..15 /\ lo \in 0..15

\* The two half bytes of a byte given by its digits.
LEMMA HalvesOfDigits ==
    ASSUME NEW a \in 0..3, NEW b \in 0..3, NEW c \in 0..3, NEW e \in 0..3, NEW x,
           x = a + 4 * b + 16 * c + 64 * e
    PROVE  Halves(x, a + 4 * b, 16 * c + 64 * e)
<1>1. PICK q \in 0..15 : q = c + 4 * e
  OBVIOUS
<1>2. PICK r \in 0..15 : r = a + 4 * b
  OBVIOUS
<1>3. x = 16 * q + r /\ 16 * q = 16 * c + 64 * e
  BY <1>1, <1>2
<1>4. x % 16 = r /\ x \div 16 = q
  <2>1. \A m \in 0..15, n \in 0..15 : (16 * m + n) % 16 = n /\ (16 * m + n) \div 16 = m
    OBVIOUS
  <2>2. (16 * q + r) % 16 = r /\ (16 * q + r) \div 16 = q
    BY <2>1
  <2>3. x = 16 * q + r
    BY <1>3
  <2> QED BY Zenon, <2>2, <2>3
<1>5. q * 16 = 16 * c + 64 * e
  BY <1>1
<1>6. r \in 0..15 /\ q \in 0..15
  OBVIOUS
<1> QED BY Zenon, <1>2, <1>4, <1>5, <1>6 DEF Halves

\* A byte is the exclusive or of its low and its high half.
LEMMA XorOfHalves ==
    ASSUME NEW x \in Byte
    PROVE  /\ x % 16 \in 0..15 /\ x \div 16 \in 0..15
           /\ x % 16 \in Byte /\ (x \div 16) * 16 \in Byte
           /\ XorByDigits(x % 16, (x \div 16) * 16) = x
<1>1. PICK d \in Quads : x = ByteOf(d)
  BY Zenon, DigitsOfByte
<1>2. /\ d[0] \in 0..3 /\ d[1] \in 0..3 /\ d[2] \in 0..3 /\ d[3] \in 0..3
      /\ d = [k \in Digits |-> d[k]]
  BY DEF Quads, Digits
<1>3. x = d[0] + 4 * d[1] + 16 * d[2] + 64 * d[3]
  BY Zenon, <1>1 DEF ByteOf
<1>4. /\ x % 16 = d[0] + 4 * d[1] /\ (x \div 16) * 16 = 16 * d[2] + 64 * d[3]
      /\ x \div 16 \in 0..15 /\ d[0] + 4 * d[1] \in 0..15
  <2>1. Halves(x, d[0] + 4 * d[1], 16 * d[2] + 64 * d[3])
    BY <1>2, <1>3, HalvesOfDigits
  <2> QED BY Zenon, <2>1 DEF Halves
<1> DEFINE lo == [k \in Digits |-> IF k < 2 THEN d[k] ELSE 0]
           hi == [k \in Digits |-> IF k < 2 THEN 0 ELSE d[k]]
<1>5. lo \in Quads /\ hi \in Quads
  BY <1>2 DEF Quads, Digits
<1>6. /\ lo[0] = d[0] /\ lo[1] = d[1] /\ lo[2] = 0 /\ lo[3] = 0
      /\ hi[0] = 0 /\ hi[1] = 0 /\ hi[2] = d[2] /\ hi[3] = d[3]
  BY DEF Digits
<1>7. \A k \in Digits : XorOf(lo[k], hi[k]) = d[k]
  <2>1. \A a \in Digits : XorOf(a, 0) = a /\ XorOf(0, a) = a
    <3>1. 0 \in Digits
      BY DEF Digits
    <3> QED BY Zenon, <3>1, DigitLaws
  <2> HIDE DEF lo, hi
  <2>2. Digits = {0, 1, 2, 3} /\ \A k \in Digits : d[k] \in Digits
    BY <1>2 DEF Digits
  <2> QED BY ZenonT(60), <1>6, <2>1, <2>2
<1> HIDE DEF lo, hi
<1>8. Joined(lo, hi) = d
  BY Zenon, <1>2, <1>7 DEF Joined
<1>9. ByteOf(lo) = x % 16
  BY <1>2, <1>4, <1>6 DEF ByteOf
<1>10. ByteOf(hi) = (x \div 16) * 16
  BY <1>2, <1>4, <1>6 DEF ByteOf
<1>11. XorByDigits(ByteOf(lo), ByteOf(hi)) = ByteOf(Joined(lo, hi))
  BY Zenon, <1>5, XorOfDigits
<1>12. ByteOf(lo) \in Byte /\ ByteOf(hi) \in Byte
  BY Zenon, <1>5, DigitsInByte
<1>13. XorByDigits(x % 16, (x \div 16) * 16) = x
  BY Zenon, <1>1, <1>8, <1>9, <1>10, <1>11
<1>14. x % 16 \in 0..15
  BY Zenon, <1>4
<1> QED BY Zenon, <1>4, <1>9, <1>10, <1>12, <1>13, <1>14

\* The two half-byte tables hold the products with the low and the high half.
LEMMA HalfTables ==
    ASSUME NEW y \in Byte, NEW k \in 0..15
    PROVE  /\ TABLE_LO_Y[y + 1][k + 1] = gf256_mul(k, y)
           /\ TABLE_HI_Y[y + 1][k + 1] = gf256_mul(k * 16, y)
<1> DEFINE lowRow(i) == [n \in 1..16 |-> GF256_MUL_TABLE[i][n]]
           highRow(i) == [n \in 1..16 |-> GF256_MUL_TABLE[i][(n - 1) * 16 + 1]]
           low == [i \in 1..256 |-> Tabulated(lowRow(i))]
           high == [i \in 1..256 |-> Tabulated(highRow(i))]
<1>1. \A i \in 1..256 : Tabulated(lowRow(i)) = lowRow(i) /\ Tabulated(highRow(i)) = highRow(i)
  <2> SUFFICES ASSUME NEW i \in 1..256
               PROVE  Tabulated(lowRow(i)) = lowRow(i) /\ Tabulated(highRow(i)) = highRow(i)
    BY Zenon
  <2>1. /\ Row(lowRow(i), 16) /\ DOMAIN lowRow(i) = 1..16
        /\ Row(highRow(i), 16) /\ DOMAIN highRow(i) = 1..16 /\ 16 \in Nat
    BY DEF Row
  <2> HIDE DEF lowRow, highRow
  <2> QED BY Zenon, <2>1, TabledRow
<1>2. Tabulated(low) = low /\ Tabulated(high) = high
  <2>1. Row(low, 256) /\ DOMAIN low = 1..256 /\ Row(high, 256) /\ DOMAIN high = 1..256 /\ 256 \in Nat
    BY DEF Row
  <2> HIDE DEF low, high
  <2> QED BY Zenon, <2>1, TabledRow
<1>3. TABLE_LO_Y = low
  BY Zenon, <1>2 DEF TABLE_LO_Y
<1>4. TABLE_HI_Y = high
  BY Zenon, <1>2 DEF TABLE_HI_Y
<1>5. y + 1 \in 1..256
  BY Zenon, ByteIndex
<1>6. k + 1 \in 1..16 /\ (k + 1) - 1 = k
  OBVIOUS
<1>7. TABLE_LO_Y[y + 1] = lowRow(y + 1) /\ TABLE_HI_Y[y + 1] = highRow(y + 1)
  BY Zenon, <1>1, <1>3, <1>4, <1>5
<1>8. lowRow(y + 1)[k + 1] = GF256_MUL_TABLE[y + 1][k + 1]
  BY Zenon, <1>6
<1>9. highRow(y + 1)[k + 1] = GF256_MUL_TABLE[y + 1][k * 16 + 1]
  BY Zenon, <1>6
<1> HIDE DEF lowRow, highRow
<1> QED BY Zenon, <1>7, <1>8, <1>9 DEF gf256_mul

\* A vector lane's exclusive or of two partial products is the product.
LEMMA NibblesAgree ==
    \A x, y \in Byte : NibbleProduct(x, y) = FieldProduct(x, y)
<1> SUFFICES ASSUME NEW x \in Byte, NEW y \in Byte
             PROVE  NibbleProduct(x, y) = FieldProduct(x, y)
  OBVIOUS
<1>1. PICK lo : lo = x % 16
  OBVIOUS
<1>2. PICK k : k = x \div 16
  OBVIOUS
<1>3. /\ lo \in 0..15 /\ k \in 0..15 /\ lo \in Byte /\ k * 16 \in Byte
      /\ XorByDigits(lo, k * 16) = x
  BY Zenon, <1>1, <1>2, XorOfHalves
<1>4. NibbleProduct(x, y) = Xor(TABLE_LO_Y[y + 1][lo + 1], TABLE_HI_Y[y + 1][k + 1])
  BY Zenon, <1>1, <1>2 DEF NibbleProduct
<1>5. TABLE_LO_Y[y + 1][lo + 1] = gf256_mul(lo, y) /\ TABLE_HI_Y[y + 1][k + 1] = gf256_mul(k * 16, y)
  BY Zenon, <1>3, HalfTables
<1>6. /\ gf256_mul(lo, y) = FieldProduct(lo, y)
      /\ gf256_mul(k * 16, y) = FieldProduct(k * 16, y)
  BY Zenon, <1>3, ProductByLogs
<1>7. FieldProduct(lo, y) \in Byte /\ FieldProduct(k * 16, y) \in Byte
  BY Zenon, <1>3, FieldProductLaws
<1>8. Xor(FieldProduct(lo, y), FieldProduct(k * 16, y))
          = XorByDigits(FieldProduct(lo, y), FieldProduct(k * 16, y))
  BY Zenon, <1>7, XorIsXor
<1>9. FieldProduct(XorByDigits(lo, k * 16), y)
          = XorByDigits(FieldProduct(lo, y), FieldProduct(k * 16, y))
  BY ZenonT(60), <1>3, FieldProductLaws
<1> QED BY Zenon, <1>3, <1>4, <1>5, <1>6, <1>8, <1>9

\* Products, quotients, inverses and squares that are looked up, the half-byte tables of
\* gf256_mul_mem_init among them, are those of the field.
LEMMA TablesAreRight == ProductsAgree /\ QuotientsAgree /\ UnitsAgree
<1>1. ProductsAgree
  <2> SUFFICES ASSUME NEW x \in Byte, NEW y \in Byte
               PROVE  /\ Xor(x, y) \in Byte /\ FieldProduct(x, y) \in Byte
                      /\ gf256_mul(x, y) = FieldProduct(x, y)
                      /\ NibbleProduct(x, y) = FieldProduct(x, y)
    BY Zenon DEF ProductsAgree
  <2>1. Xor(x, y) \in Byte
    BY Zenon, XorIsXor, XorClosed
  <2>2. FieldProduct(x, y) \in Byte
    BY Zenon, FieldProductLaws
  <2> QED BY Zenon, <2>1, <2>2, ProductByLogs, NibblesAgree
<1>2. QuotientsAgree
  BY Zenon, DivisionIs, InversesAndSquares DEF QuotientsAgree
<1>3. UnitsAgree
  <2>1. \A x \in Byte : FieldProduct(x, 0) = 0 /\ FieldProduct(x, 1) = x
    BY Zenon, FieldProductLaws
  <2>2. \A x \in Byte : Xor(x, 0) = x
    <3>1. \A x \in Byte : XorByDigits(x, 0) = x
      BY Zenon, XorLaws
    <3> QED BY Zenon, <3>1, XorIsXor, ByteFacts
  <2>3. ASSUME NEW x \in Byte PROVE FieldInverse(x) \in Byte
    <3>1. CASE x = 0
      BY Zenon, <3>1, InverseIs, ByteFacts
    <3>2. CASE x # 0
      BY ZenonT(60), <3>2, ByteIs, InverseIs, InvertedIs
    <3> QED BY Zenon, <3>1, <3>2
  <2>4. FieldInverse(1) = 1
    <3>1. 1 \in 1..255 /\ 1 \in Byte
      BY DEF Byte
    <3>2. FieldProduct(1, 1) = 1
      BY Zenon, <3>1, FieldProductLaws
    <3>3. 1 = Inverted(1)
      BY Zenon, <3>1, <3>2, InvertedIs
    <3> QED BY Zenon, <3>1, <3>3, InverseIs
  <2> QED BY Zenon, <2>1, <2>2, <2>3, <2>4 DEF UnitsAgree
<1> QED BY Zenon, <1>1, <1>2, <1>3

-----------------------------------------------------------------------------
(* What the tables are for                                                   *)

\* The part of the self test that looks at single elements passes.
LEMMA MultiplicationTestIs == MultiplicationTest
<1> SUFFICES ASSUME NEW i \in Byte, NEW j \in Byte
             PROVE  LET product == gf256_mul(i, j)
                    IN  /\ i # 0 /\ j # 0 => /\ gf256_div(product, i) = j
                                            /\ gf256_div(product, j) = i
                        /\ i = 0 \/ j = 0 => product = 0
                        /\ j = 1 => product = i
  BY Zenon DEF MultiplicationTest
<1>1. gf256_mul(i, j) = FieldProduct(i, j) /\ FieldProduct(i, j) = FieldProduct(j, i)
  BY Zenon, ProductByLogs
<1>2. j # 0 => gf256_div(FieldProduct(i, j), j) = i
  BY Zenon, DivisionIs
<1>3. i # 0 => gf256_div(FieldProduct(j, i), i) = j
  BY Zenon, DivisionIs
<1>4. i = 0 \/ j = 0 => FieldProduct(i, j) = 0
  BY Zenon, FieldProductLaws
<1>5. j = 1 => FieldProduct(i, j) = i
  BY Zenon, FieldProductLaws
<1> QED BY Zenon, <1>1, <1>2, <1>3, <1>4, <1>5

-----------------------------------------------------------------------------
(* The Cauchy matrix                                                         *)

\* Nothing is lost in an exclusive or.
LEMMA XorCancels ==
    /\ \A x, a, b \in Byte : XorByDigits(x, a) = XorByDigits(x, b) => a = b
    /\ \A x, a, b \in Byte : XorByDigits(a, x) = XorByDigits(b, x) => a = b
    /\ \A a, b \in Byte : XorByDigits(a, b) = 0 => a = b
<1>1. \A x \in Byte : XorByDigits(x, x) = 0 /\ XorByDigits(x, 0) = x /\ XorByDigits(0, x) = x
  <2>1. \A x \in Byte : XorByDigits(x, x) = 0 /\ XorByDigits(x, 0) = x
    BY Zenon, XorLaws
  <2> QED BY Zenon, <2>1, XorCommutes, ByteFacts
<1>2. ASSUME NEW x \in Byte, NEW a \in Byte PROVE XorByDigits(x, XorByDigits(x, a)) = a
  <2>1. XorByDigits(x, XorByDigits(x, a)) = XorByDigits(XorByDigits(x, x), a)
    BY Zenon, XorAssociates
  <2> QED BY Zenon, <1>1, <2>1
<1>3. \A x, a, b \in Byte : XorByDigits(x, a) = XorByDigits(x, b) => a = b
  <2> SUFFICES ASSUME NEW x \in Byte, NEW a \in Byte, NEW b \in Byte,
                      XorByDigits(x, a) = XorByDigits(x, b)
               PROVE  a = b
    BY Zenon
  <2>1. XorByDigits(x, XorByDigits(x, a)) = a /\ XorByDigits(x, XorByDigits(x, b)) = b
    BY <1>2
  <2> QED BY <2>1
<1>4. \A x, a, b \in Byte : XorByDigits(a, x) = XorByDigits(b, x) => a = b
  <2> SUFFICES ASSUME NEW x \in Byte, NEW a \in Byte, NEW b \in Byte,
                      XorByDigits(a, x) = XorByDigits(b, x)
               PROVE  a = b
    BY Zenon
  <2>1. XorByDigits(a, x) = XorByDigits(x, a)
    BY Zenon, XorCommutes
  <2>2. XorByDigits(b, x) = XorByDigits(x, b)
    BY Zenon, XorCommutes
  <2>3. XorByDigits(x, a) = XorByDigits(x, b) => a = b
    BY Zenon, <1>3
  <2> QED BY ONLY <2>1, <2>2, <2>3, XorByDigits(a, x) = XorByDigits(b, x)
<1>5. \A a, b \in Byte : XorByDigits(a, b) = 0 => a = b
  <2> SUFFICES ASSUME NEW a \in Byte, NEW b \in Byte, XorByDigits(a, b) = 0 PROVE a = b
    BY Zenon
  <2>1. XorByDigits(a, XorByDigits(a, b)) = b
    BY Zenon, <1>2
  <2> QED BY <1>1, <2>1
<1> QED BY Zenon, <1>3, <1>4, <1>5

\* Inversion undoes itself.
LEMMA InvertedTwice ==
    /\ \A y \in 1..255 : Inverted(y) \in 1..255 /\ Inverted(Inverted(y)) = y
    /\ \A y, z \in 1..255 : Inverted(y) = Inverted(z) => y = z
<1>1. ASSUME NEW y \in 1..255 PROVE Inverted(y) \in 1..255 /\ Inverted(Inverted(y)) = y
  <2>1. Inverted(y) \in 1..255 /\ Inverted(y) \in Byte /\ FieldProduct(Inverted(y), y) = 1
    BY Zenon, InvertedIs
  <2>2. y \in Byte
    BY Zenon, Exponents
  <2>3. FieldProduct(y, Inverted(y)) = 1
    BY Zenon, <2>1, <2>2, ProductByLogs
  <2>4. y = Inverted(Inverted(y))
    BY Zenon, <2>1, <2>2, <2>3, InvertedIs
  <2> QED BY Zenon, <2>1, <2>4
<1> QED BY Zenon, <1>1

\* A product with one factor fixed, and not zero, is never the same for two others.
LEMMA ProductCancels ==
    ASSUME NEW a \in Byte, NEW b \in Byte, NEW d \in Byte, d # 0,
           FieldProduct(a, d) = FieldProduct(b, d)
    PROVE  a = b
<1>1. gf256_div(FieldProduct(a, d), d) = a /\ gf256_div(FieldProduct(b, d), d) = b
  BY Zenon, DivisionIs
<1> QED BY Zenon, <1>1

\* The field has no divisors of zero.
LEMMA ProductNotZero ==
    ASSUME NEW a \in 1..255, NEW b \in 1..255
    PROVE  FieldProduct(a, b) # 0
<1>1. a \in Byte /\ b \in Byte /\ a # 0 /\ b # 0 /\ 0 \in Byte
  BY DEF Byte
<1>2. FieldProduct(0, b) = 0
  BY Zenon, <1>1, FieldProductLaws
<1>3. FieldProduct(a, b) = FieldProduct(0, b) => a = 0
  BY Zenon, <1>1, ProductCancels
<1> QED BY Zenon, <1>1, <1>2, <1>3

\* The element of the matrix, without its table: Place is what is inverted.
Place(row, column) == XorByDigits(row + kCauchyMaxColumns, column)

\* The difference a Cauchy element is the inverse of is never zero.
LEMMA PlaceIs ==
    ASSUME NEW row \in 0..(kCauchyMaxRows - 1), NEW j \in 0..(kCauchyMaxColumns - 1)
    PROVE  /\ row + kCauchyMaxColumns \in Byte /\ j \in Byte
           /\ Place(row, j) \in 1..255 /\ Place(row, j) \in Byte
           /\ CauchyElement(row, j) = Inverted(Place(row, j))
<1>1. row + kCauchyMaxColumns \in Byte /\ j \in Byte /\ row + kCauchyMaxColumns # j
  BY DEF Byte, kCauchyMaxRows, kCauchyMaxColumns
<1>2. Place(row, j) \in Byte
  BY Zenon, <1>1, XorClosed DEF Place
<1>3. Place(row, j) # 0
  BY Zenon, <1>1, XorCancels DEF Place
<1>4. Place(row, j) \in 1..255
  BY Zenon, <1>2, <1>3, ByteIs
<1>5. CauchyElement(row, j) = gf256_inv(Place(row, j))
  BY Zenon, <1>1, XorIsXor DEF CauchyElement, Place
<1>6. gf256_inv(Place(row, j)) = FieldInverse(Place(row, j))
  BY Zenon, <1>2, InversesAndSquares
<1>7. FieldInverse(Place(row, j)) = Inverted(Place(row, j))
  BY Zenon, <1>4, InverseIs
<1> QED BY Zenon, <1>1, <1>2, <1>4, <1>5, <1>6, <1>7

\* The ratio of two elements of a row differs from 1 by a multiple of the first.
LEMMA RatioIs ==
    ASSUME NEW row \in 0..(kCauchyMaxRows - 1), NEW j \in 0..(kCauchyMaxColumns - 1),
           NEW k \in 0..(kCauchyMaxColumns - 1)
    PROVE  LET u == Place(row, j)
               ratio == gf256_div(CauchyElement(row, j), CauchyElement(row, k))
           IN  /\ ratio \in Byte /\ ratio # 0
               /\ ratio = XorByDigits(1, FieldProduct(Inverted(u), XorByDigits(j, k)))
<1> DEFINE u == Place(row, j)
           v == Place(row, k)
           d == XorByDigits(j, k)
           x == Inverted(u)
<1>1. /\ u \in 1..255 /\ u \in Byte /\ v \in 1..255 /\ v \in Byte /\ j \in Byte /\ k \in Byte
      /\ row + kCauchyMaxColumns \in Byte
      /\ CauchyElement(row, j) = Inverted(u) /\ CauchyElement(row, k) = Inverted(v)
  BY SMT, PlaceIs
<1>2. d \in Byte
  BY Zenon, <1>1, XorClosed
<1>3. v = XorByDigits(u, d)
  <2>1. PICK r \in Byte : r = row + kCauchyMaxColumns
    BY Zenon, <1>1
  <2>2. u = XorByDigits(r, j) /\ v = XorByDigits(r, k)
    BY Zenon, <2>1 DEF Place
  <2>3. XorByDigits(u, d) = XorByDigits(r, XorByDigits(j, XorByDigits(j, k)))
    <3>1. j \in Byte /\ d \in Byte
      BY Zenon, <1>1, <1>2
    <3> HIDE DEF d
    <3>2. XorByDigits(XorByDigits(r, j), d) = XorByDigits(r, XorByDigits(j, d))
      BY Zenon, <3>1, XorAssociates
    <3>3. d = XorByDigits(j, k)
      BY Zenon DEF d
    <3> HIDE DEF u
    <3> QED BY Zenon, <2>2, <3>2, <3>3
  <2>4. XorByDigits(j, XorByDigits(j, k)) = XorByDigits(XorByDigits(j, j), k)
    BY ZenonT(60), <1>1, XorAssociates
  <2>5. XorByDigits(j, j) = 0 /\ XorByDigits(0, k) = k
    <3>1. XorByDigits(j, j) = 0 /\ XorByDigits(k, 0) = k
      BY Zenon, <1>1, XorLaws
    <3> QED BY Zenon, <1>1, <3>1, XorCommutes, ByteFacts
  <2> HIDE DEF u, v, d
  <2> QED BY Zenon, <2>2, <2>3, <2>4, <2>5
<1> HIDE DEF u, v, d
<1>4. x \in 1..255 /\ x \in Byte /\ FieldProduct(x, u) = 1
  BY Zenon, <1>1, InvertedIs
<1>5. Inverted(v) \in 1..255 /\ Inverted(v) \in Byte /\ Inverted(Inverted(v)) = v
  BY Zenon, <1>1, InvertedIs, InvertedTwice
<1> HIDE DEF x
<1>6. gf256_div(x, Inverted(v)) = FieldProduct(x, v)
  <2>1. gf256_div(x, Inverted(v)) = FieldProduct(x, FieldInverse(Inverted(v)))
    BY Zenon, <1>4, <1>5, DivisionIs DEF FieldQuotient
  <2>2. FieldInverse(Inverted(v)) = Inverted(Inverted(v))
    BY Zenon, <1>5, InverseIs
  <2> QED BY Zenon, <1>5, <2>1, <2>2
<1>7. FieldProduct(x, v) = XorByDigits(1, FieldProduct(x, d))
  <2>1. FieldProduct(XorByDigits(u, d), x) = XorByDigits(FieldProduct(u, x), FieldProduct(d, x))
    BY ZenonT(60), <1>1, <1>2, <1>4, FieldProductLaws
  <2>2. /\ FieldProduct(x, v) = FieldProduct(v, x) /\ FieldProduct(x, u) = FieldProduct(u, x)
        /\ FieldProduct(x, d) = FieldProduct(d, x)
    BY Zenon, <1>1, <1>2, <1>4, ProductByLogs
  <2> QED BY Zenon, <1>3, <1>4, <2>1, <2>2
<1>8. FieldProduct(x, v) # 0 /\ FieldProduct(x, v) \in Byte
  BY ZenonT(60), <1>1, <1>4, ProductNotZero, FieldProductLaws
<1>9. gf256_div(CauchyElement(row, j), CauchyElement(row, k)) = FieldProduct(x, v)
  BY Zenon, <1>1, <1>6 DEF x
<1> QED BY Zenon, <1>7, <1>8, <1>9 DEF u, d, x

\* Two rows of the Cauchy matrix are nowhere proportional.
LEMMA RatiosDiffer ==
    ASSUME NEW a \in 0..(kCauchyMaxRows - 1), NEW b \in 0..(kCauchyMaxRows - 1),
           NEW j \in 0..(kCauchyMaxColumns - 1), NEW k \in 0..(kCauchyMaxColumns - 1), j # k,
           gf256_div(CauchyElement(a, j), CauchyElement(a, k))
               = gf256_div(CauchyElement(b, j), CauchyElement(b, k))
    PROVE  a = b
<1>1. PICK u \in 1..255 : u = Place(a, j)
  BY Zenon, PlaceIs
<1>2. PICK v \in 1..255 : v = Place(b, j)
  BY Zenon, PlaceIs
<1>3. j \in Byte /\ k \in Byte /\ a + kCauchyMaxColumns \in Byte /\ b + kCauchyMaxColumns \in Byte
  BY Zenon, PlaceIs
<1>4. PICK d \in Byte : d = XorByDigits(j, k)
  BY Zenon, <1>3, XorClosed
<1>5. d # 0
  BY Zenon, <1>3, <1>4, XorCancels
<1>6. Inverted(u) \in Byte /\ Inverted(v) \in Byte
  BY Zenon, InvertedIs
<1>7. FieldProduct(Inverted(u), d) \in Byte /\ FieldProduct(Inverted(v), d) \in Byte
  BY Zenon, <1>6, FieldProductLaws
<1>8. XorByDigits(1, FieldProduct(Inverted(u), d)) = XorByDigits(1, FieldProduct(Inverted(v), d))
  <2>1. gf256_div(CauchyElement(a, j), CauchyElement(a, k))
            = XorByDigits(1, FieldProduct(Inverted(Place(a, j)), XorByDigits(j, k)))
    BY Zenon, RatioIs
  <2>2. gf256_div(CauchyElement(b, j), CauchyElement(b, k))
            = XorByDigits(1, FieldProduct(Inverted(Place(b, j)), XorByDigits(j, k)))
    BY Zenon, RatioIs
  <2> QED BY Zenon, <1>1, <1>2, <1>4, <2>1, <2>2
<1>9. FieldProduct(Inverted(u), d) = FieldProduct(Inverted(v), d)
  BY Zenon, <1>7, <1>8, ByteFacts, XorCancels
<1>10. Inverted(u) = Inverted(v)
  BY Zenon, <1>5, <1>6, <1>9, ProductCancels
<1>11. u = v
  BY Zenon, <1>10, InvertedTwice
<1>12. a + kCauchyMaxColumns = b + kCauchyMaxColumns
  BY Zenon, <1>1, <1>2, <1>3, <1>11, XorCancels DEF Place
<1> QED BY <1>12 DEF kCauchyMaxColumns

\* So any two rows recover any two lost columns.
LEMMA PairsAreRecovered == PairsRecovered
<1> DEFINE Rows == 0..(kCauchyMaxRows - 1)
           ratio(row, j, k) == gf256_div(CauchyElement(row, j), CauchyElement(row, k))
           ratios(j, k) == {ratio(row, j, k) : row \in Rows}
<1>1. ASSUME NEW j \in 0..(kCauchyMaxColumns - 1), NEW k \in 0..(kCauchyMaxColumns - 1), j < k
      PROVE  Cardinality(ratios(j, k) \ {0}) = kCauchyMaxRows
  <2>1. j # k
    BY <1>1 DEF kCauchyMaxColumns
  <2>2. \A row \in Rows : ratio(row, j, k) # 0
    BY Zenon, RatioIs
  <2>3. \A a, b \in Rows : ratio(a, j, k) = ratio(b, j, k) => a = b
    BY Zenon, <2>1, RatiosDiffer
  <2> DEFINE f == [row \in Rows |-> ratio(row, j, k)]
  <2> HIDE DEF ratio
  <2>4. ratios(j, k) \ {0} = ratios(j, k)
    BY Zenon, <2>2
  <2>5. f \in Bijection(Rows, ratios(j, k))
    BY <2>3 DEF Bijection, Injection, Surjection, IsInjective
  <2>6. ExistsBijection(Rows, ratios(j, k))
    BY Zenon, <2>5 DEF ExistsBijection
  <2>7. IsFiniteSet(Rows) /\ Cardinality(Rows) = kCauchyMaxRows
    <3>1. Rows = 0..191 /\ kCauchyMaxRows = 192 /\ 0 \in Int /\ 191 \in Int
      BY DEF kCauchyMaxRows, kCauchyMaxColumns
    <3> HIDE DEF Rows
    <3>2. /\ IsFiniteSet(0..191)
          /\ Cardinality(0..191) = IF 0 > 191 THEN 0 ELSE 191 - 0 + 1
      BY ONLY <3>1, FS_Interval
    <3> QED BY <3>1, <3>2
  <2> HIDE DEF Rows, ratios
  <2>8. Cardinality(ratios(j, k)) = Cardinality(Rows)
    BY Zenon, <2>6, <2>7, FS_Bijection
  <2> QED BY Zenon, <2>4, <2>7, <2>8
<1> QED BY Zenon, <1>1 DEF PairsRecovered

-----------------------------------------------------------------------------
(* The invariant                                                             *)

\* The tables are written together, for the features that were found, on a host
\* with the announced byte order; who may ask for products finds them.
TablesInv ==
    /\ host \in Hosts
    /\ status \in {NotCalled, 0, -1, -2, -3} /\ test \in 0..5
    /\ filled # {} => IsExpectedEndian /\ filled = TablesWritten(cpu)
    /\ status = 0 => filled # {}
    /\ Initialized /\ status >= 0 => filled # {}
    /\ test # 0 => filled # {}

MemoryInv == mem \in Memories /\ before \in Memories

NeedsProducts(name) == name \in {"mul", "muladd", "div"}

\* The loops of a list read only these tables.
Readable(list, tables) ==
    list \in Seq(LoopTypes) /\ \A k \in 1..Len(list) : list[k].table \in tables

\* The last loop of a list repeats until less is left than this.
EndsAt(list, width) ==
    list # <<>> /\ list[Len(list)].again /\ list[Len(list)].width <= width

TablesFor(name, written) == IF NeedsProducts(name) THEN written ELSE {"none"}

\* The tail of an operation treats less than this.
TailLimit(name) == IF NeedsProducts(name) THEN 8 ELSE 16

\* The loops that are left read tables that were written, and leave no more than
\* the tail treats.
LoopsInv ==
    /\ Readable(loops, TablesFor(function, filled))
    /\ IF loops = <<>> THEN left < TailLimit(function) ELSE EndsAt(loops, TailLimit(function))

CallInv ==
    /\ call \in {Idle} \cup Abstract!Requests
    /\ call # Idle =>
        /\ NeedsProducts(call.op) => filled # {}
        /\ function = Function(call) /\ factor = Factor(call)
        /\ done \in Nat /\ left \in Nat
        /\ Shortcut => done = 0
        /\ LoopsInv
        /\ PrefixDone

IInv == TablesInv /\ MemoryInv /\ CallInv

-----------------------------------------------------------------------------
(* The field and the abstract operations                                     *)

\* What the loops look up, as products and quotients of the field.
LEMMA FieldFacts ==
    ASSUME NEW x \in Byte, NEW y \in Byte
    PROVE  /\ gf256_mul(x, y) = FieldProduct(x, y)
           /\ NibbleProduct(x, y) = FieldProduct(x, y)
           /\ Xor(x, y) \in Byte /\ FieldProduct(x, y) \in Byte
           /\ gf256_inv(y) = FieldInverse(y) /\ FieldInverse(y) \in Byte
           /\ FieldQuotient(x, y) = FieldProduct(x, FieldInverse(y))
           /\ FieldProduct(x, 0) = 0 /\ FieldProduct(x, 1) = x
           /\ Xor(x, 0) = x /\ FieldInverse(1) = 1
<1>1. /\ Xor(x, y) \in Byte /\ FieldProduct(x, y) \in Byte
      /\ gf256_mul(x, y) = FieldProduct(x, y)
      /\ NibbleProduct(x, y) = FieldProduct(x, y)
    BY Zenon, TablesAreRight DEF ProductsAgree
<1>2. gf256_inv(y) = FieldInverse(y)
    BY Zenon, TablesAreRight DEF QuotientsAgree
<1>3. /\ FieldProduct(x, 0) = 0 /\ FieldProduct(x, 1) = x
      /\ Xor(x, 0) = x /\ FieldInverse(1) = 1
    BY Zenon, TablesAreRight DEF UnitsAgree
<1>4. FieldInverse(y) \in Byte
    BY Zenon, TablesAreRight DEF UnitsAgree
<1>5. FieldQuotient(x, y) = FieldProduct(x, FieldInverse(y))
    BY Zenon DEF FieldQuotient
<1> QED  BY Zenon, <1>1, <1>2, <1>3, <1>4, <1>5

\* A treated byte is a byte.
LEMMA ValueInByte ==
    ASSUME NEW m \in Memories, NEW r \in Abstract!Requests, NEW i \in Places
    PROVE  Abstract!Value(m, r, i) \in Byte
<1>1. /\ m[r.x][i] \in Byte /\ m[r.y][i] \in Byte /\ m[r.z][i] \in Byte /\ r.c \in Byte
      /\ r.op \in {"add", "add2", "addset", "mul", "muladd", "div", "swap"}
    BY SMT DEF Memories, Abstract!Requests
<1>2. \A x, y \in Byte : Xor(x, y) \in Byte /\ FieldProduct(x, y) \in Byte /\ FieldQuotient(x, y) \in Byte
    <2> SUFFICES ASSUME NEW x \in Byte, NEW y \in Byte
                 PROVE  Xor(x, y) \in Byte /\ FieldProduct(x, y) \in Byte /\ FieldQuotient(x, y) \in Byte
        OBVIOUS
    <2>1. /\ Xor(x, y) \in Byte /\ FieldProduct(x, y) \in Byte /\ FieldInverse(y) \in Byte
          /\ FieldQuotient(x, y) = FieldProduct(x, FieldInverse(y))
        BY Zenon, FieldFacts
    <2>2. FieldProduct(x, FieldInverse(y)) \in Byte
        BY Zenon, FieldFacts, <2>1
    <2> QED  BY Zenon, <2>1, <2>2
<1> QED  BY SMT, <1>1, <1>2 DEF Abstract!Value

\* Place i of buffer b after it was treated.
PlaceTreated(m, r, b, i) ==
    IF r.op = "swap" /\ b = r.x THEN m[r.z][i]
    ELSE IF b = r.z THEN Abstract!Value(m, r, i) ELSE m[b][i]

\* Treated, place by place.
LEMMA TreatedAt ==
    ASSUME NEW m \in Memories, NEW r \in Abstract!Requests, NEW n \in Nat
    PROVE  /\ Abstract!Treated(m, r, n) \in Memories
           /\ \A b \in Buffers, i \in Places :
                  Abstract!Treated(m, r, n)[b][i] =
                      IF i >= n THEN m[b][i] ELSE PlaceTreated(m, r, b, i)
<1>1. /\ r.x \in Buffers /\ r.z \in Buffers
      /\ \A i \in Places : Abstract!Value(m, r, i) \in Byte
    BY ValueInByte DEF Abstract!Requests
<1>2. Places \subseteq Int
    BY SMT, SizeAssumption DEF Places
<1> DEFINE z == [i \in Places |-> IF i < n THEN Abstract!Value(m, r, i) ELSE m[r.z][i]]
           x == [i \in Places |-> IF i < n THEN m[r.z][i] ELSE m[r.x][i]]
<1>3. z \in [Places -> Byte] /\ x \in [Places -> Byte]
    BY SMT, <1>1, <1>2 DEF Memories
<1>4. Abstract!Treated(m, r, n) = IF r.op = "swap" THEN [m EXCEPT ![r.z] = z, ![r.x] = x]
                                                  ELSE [m EXCEPT ![r.z] = z]
    BY SMT DEF Abstract!Treated, Abstract!Places, Places
<1>5. \A i \in Places :
          /\ z[i] = IF i >= n THEN m[r.z][i] ELSE Abstract!Value(m, r, i)
          /\ x[i] = IF i >= n THEN m[r.x][i] ELSE m[r.z][i]
    <2> TAKE i \in Places
    <2>1. (i < n) <=> ~(i >= n)
        BY SMT, <1>2
    <2> QED  BY Zenon, <2>1
<1> HIDE DEF z, x
<1> QED  BY SMT, <1>1, <1>3, <1>4, <1>5 DEF Memories, PlaceTreated

\* Treating no place changes nothing.
LEMMA TreatedNothing ==
    ASSUME NEW m \in Memories, NEW r \in Abstract!Requests
    PROVE  Abstract!Treated(m, r, 0) = m
<1>1. /\ Abstract!Treated(m, r, 0) \in Memories
      /\ \A b \in Buffers, i \in Places : i >= 0 => Abstract!Treated(m, r, 0)[b][i] = m[b][i]
    BY TreatedAt
<1>2. \A i \in Places : i >= 0
    BY SMT DEF Places
<1> QED  BY SMT, <1>1, <1>2 DEF Memories

-----------------------------------------------------------------------------
(* A block                                                                   *)

\* gf256_div_mem multiplies by the inverse, the others by the coefficient itself.
LEMMA FactorDivides ==
    ASSUME IInv, call # Idle
    PROVE  /\ factor \in Byte
           /\ call.op = "div" => \A x \in Byte : FieldQuotient(x, call.c) = FieldProduct(x, factor)
           /\ call.op # "div" => factor = call.c
<1>1. /\ factor = Factor(call) /\ call.c \in Byte
      /\ NeedsProducts(call.op) => "MUL" \in filled
    BY DEF IInv, TablesInv, CallInv, TablesWritten, Abstract!Requests
<1>2. CASE call.op # "div"
    BY <1>1, <1>2 DEF Factor
<1>3. CASE call.op = "div" /\ call.c # 1
    <2>1. factor = gf256_inv(call.c)
        BY <1>1, <1>3 DEF Factor, NeedsProducts
    <2> QED  BY FieldFacts, <1>1, <1>3, <2>1
<1>4. CASE call.op = "div" /\ call.c = 1
    <2>1. factor = 1 /\ 1 \in Byte
        BY <1>1, <1>4 DEF Factor, Byte
    <2>2. \A x \in Byte : FieldQuotient(x, 1) = FieldProduct(x, 1)
        <3> TAKE x \in Byte
        <3>1. FieldQuotient(x, 1) = FieldProduct(x, FieldInverse(1)) /\ FieldInverse(1) = 1
            BY Zenon, FieldFacts, <2>1
        <3> QED  BY Zenon, <3>1
    <2> QED  BY Zenon, <1>4, <2>1, <2>2
<1> QED  BY <1>2, <1>3, <1>4

\* The value the code stores is the value of the operation, whatever table with
\* products it reads.
LEMMA NewValueIsValue ==
    ASSUME IInv, call # Idle, ~Shortcut, NEW i \in Places, i >= done,
           NEW table, NeedsProducts(function) => table \in filled
    PROVE  NewValue(table, i, i) = Abstract!Value(before, call, i)
<1>1. /\ call \in Abstract!Requests /\ before \in Memories /\ mem \in Memories
      /\ function = Function(call) /\ factor = Factor(call) /\ done \in Nat
      /\ NeedsProducts(call.op) => filled # {}
      /\ mem = Abstract!Treated(before, call, done)
    BY DEF IInv, CallInv, MemoryInv, PrefixDone
<1>2. /\ call.op \in {"add", "add2", "addset", "mul", "muladd", "div", "swap"}
      /\ call.x \in Buffers /\ call.y \in Buffers /\ call.z \in Buffers /\ call.c \in Byte
    BY <1>1 DEF Abstract!Requests
<1>3. \A b \in Buffers : mem[b][i] = before[b][i] /\ before[b][i] \in Byte
    BY <1>1, TreatedAt DEF Memories
<1>5. /\ factor \in Byte
      /\ call.op = "div" => \A x \in Byte : FieldQuotient(x, call.c) = FieldProduct(x, factor)
      /\ call.op # "div" => factor = call.c
    BY FactorDivides
<1>6. NeedsProducts(function) =>
          \A x \in Byte : Product(table, x, factor) = FieldProduct(x, factor)
    BY FieldFacts, <1>5 DEF Product
<1> DEFINE X == before[call.x][i]  Y == before[call.y][i]  Z == before[call.z][i]
<1>7. /\ X \in Byte /\ Y \in Byte /\ Z \in Byte
      /\ mem[call.x][i] = X /\ mem[call.y][i] = Y /\ mem[call.z][i] = Z
    BY <1>2, <1>3
<1> HIDE DEF X, Y, Z
<1>8. Abstract!Value(before, call, i) =
          CASE call.op = "add"    -> Xor(Z, X)
            [] call.op = "add2"   -> Xor(Z, Xor(X, Y))
            [] call.op = "addset" -> Xor(X, Y)
            [] call.op = "mul"    -> FieldProduct(X, call.c)
            [] call.op = "muladd" -> Xor(Z, FieldProduct(X, call.c))
            [] call.op = "div"    -> FieldQuotient(X, call.c)
            [] call.op = "swap"   -> X
    BY DEF Abstract!Value, X, Y, Z
<1>9. NewValue(table, i, i) =
          CASE function = "add"    -> Xor(Z, X)
            [] function = "add2"   -> Xor(Z, Xor(X, Y))
            [] function = "addset" -> Xor(X, Y)
            [] function = "mul"    -> Product(table, X, factor)
            [] function = "muladd" -> Xor(Z, Product(table, X, factor))
            [] function = "swap"   -> X
    BY <1>7 DEF NewValue
<1>10. CASE call.op \in {"add", "add2", "addset", "swap"}
    <2>1. function = call.op
        BY <1>1, <1>10 DEF Function
    <2> QED  BY SMT, <1>8, <1>9, <1>10, <2>1
<1>11. CASE call.op = "mul"
    <2>1. function = "mul" /\ Product(table, X, factor) = FieldProduct(X, call.c)
        BY <1>1, <1>5, <1>6, <1>7, <1>11 DEF Function, NeedsProducts
    <2> QED  BY SMT, <1>8, <1>9, <1>11, <2>1
<1>12. CASE call.op = "div"
    <2>1. function = "mul" /\ Product(table, X, factor) = FieldQuotient(X, call.c)
        BY <1>1, <1>5, <1>6, <1>7, <1>12 DEF Function, NeedsProducts
    <2> QED  BY SMT, <1>8, <1>9, <1>12, <2>1
<1>13. CASE call.op = "muladd" /\ call.c = 1
    <2>1. function = "add" /\ FieldProduct(X, call.c) = X
        BY <1>1, <1>7, <1>13, FieldFacts, <1>2 DEF Function
    <2> QED  BY SMT, <1>8, <1>9, <1>13, <2>1
<1>14. CASE call.op = "muladd" /\ call.c # 1
    <2>1. function = "muladd" /\ Product(table, X, factor) = FieldProduct(X, call.c)
        BY <1>1, <1>5, <1>6, <1>7, <1>14 DEF Function, NeedsProducts
    <2> QED  BY SMT, <1>8, <1>9, <1>14, <2>1
<1> QED  BY <1>2, <1>10, <1>11, <1>12, <1>13, <1>14

\* Where words are put together the bytes have the order the code expects; the
\* other operations put none together.
LEMMA WordsInOrder ==
    ASSUME IInv, call # Idle, NEW i \in Places, NEW table, NEW word
    PROVE  NewValue(table, i, ReadAt(i, word)) = NewValue(table, i, i)
<1>1. CASE NeedsProducts(call.op)
    <2>1. ReadAt(i, word) = i
        BY <1>1 DEF ReadAt, IInv, TablesInv, CallInv
    <2> QED  BY <2>1
<1>2. CASE ~NeedsProducts(call.op)
    <2>1. function \in {"add", "add2", "addset", "swap"}
        BY <1>2 DEF IInv, CallInv, Function, NeedsProducts, Abstract!Requests
    <2> QED  BY <2>1 DEF NewValue
<1> QED  BY <1>1, <1>2

\* A block treats its bytes and no other.
LEMMA WrittenIsTreated ==
    ASSUME IInv, call # Idle, ~Shortcut, NEW n \in Nat, NEW table, NEW word,
           NeedsProducts(function) => table \in filled
    PROVE  Written(table, word, n) = Abstract!Treated(before, call, done + n)
<1>1. /\ call \in Abstract!Requests /\ before \in Memories /\ mem \in Memories
      /\ function = Function(call) /\ done \in Nat
      /\ mem = Abstract!Treated(before, call, done)
    BY DEF IInv, CallInv, MemoryInv, PrefixDone
<1>2. /\ call.x \in Buffers /\ call.z \in Buffers
      /\ function = "swap" <=> call.op = "swap"
    BY <1>1 DEF Abstract!Requests, Function
<1>3. Places \subseteq Nat
    BY SMT, SizeAssumption DEF Places
<1> DEFINE block == done..(done + n - 1)
           z == [i \in Places |-> IF i \in block THEN NewValue(table, i, ReadAt(i, word))
                                                 ELSE mem[call.z][i]]
           x == [i \in Places |-> IF i \in block THEN mem[call.z][i] ELSE mem[call.x][i]]
           T == Abstract!Treated(before, call, done + n)
<1>4. Written(table, word, n) = IF function = "swap" THEN [mem EXCEPT ![call.z] = z, ![call.x] = x]
                                                     ELSE [mem EXCEPT ![call.z] = z]
    BY Zenon DEF Written
<1>5. \A i \in Places : i \in block <=> i >= done /\ ~(i >= done + n)
    BY SMT, <1>1, <1>3
<1> HIDE DEF block
<1>6. \A i \in Places : i \in block => NewValue(table, i, ReadAt(i, word)) = Abstract!Value(before, call, i)
    BY Zenon, <1>5, WordsInOrder, NewValueIsValue
<1>7. \A i \in Places :
          /\ z[i] = IF i \in block THEN Abstract!Value(before, call, i) ELSE mem[call.z][i]
          /\ x[i] = IF i \in block THEN mem[call.z][i] ELSE mem[call.x][i]
    BY Zenon, <1>6
<1>8. /\ T \in Memories
      /\ \A b \in Buffers, i \in Places :
             T[b][i] = IF i >= done + n THEN before[b][i] ELSE PlaceTreated(before, call, b, i)
    BY <1>1, TreatedAt
<1>9. \A b \in Buffers, i \in Places :
          mem[b][i] = IF i >= done THEN before[b][i] ELSE PlaceTreated(before, call, b, i)
    BY <1>1, TreatedAt
<1>10. z = [i \in Places |-> z[i]] /\ x = [i \in Places |-> x[i]]
    OBVIOUS
<1> HIDE DEF z, x, T
<1>11. \A i \in Places : i >= done + n => i >= done
    BY SMT, <1>1, <1>3
<1>12. CASE call.op # "swap"
    <2>1. z = T[call.z]
        <3>1. \A i \in Places : z[i] = T[call.z][i]
            BY SMT, <1>2, <1>5, <1>7, <1>8, <1>9, <1>11, <1>12 DEF PlaceTreated
        <3> QED  BY <3>1, <1>2, <1>8, <1>10 DEF Memories
    <2>2. \A b \in Buffers : b # call.z => mem[b] = T[b]
        <3>1. \A b \in Buffers, i \in Places : b # call.z => mem[b][i] = T[b][i]
            BY SMT, <1>8, <1>9, <1>12 DEF PlaceTreated
        <3> QED  BY <3>1, <1>1, <1>8 DEF Memories
    <2>3. Written(table, word, n) = [mem EXCEPT ![call.z] = z]
        BY Zenon, <1>2, <1>4, <1>12
    <2>4. \A b \in Buffers : [mem EXCEPT ![call.z] = z][b] = T[b]
        BY <1>1, <1>2, <2>1, <2>2 DEF Memories
    <2>5. [mem EXCEPT ![call.z] = z] = T
        BY <1>1, <1>8, <2>4 DEF Memories
    <2> QED  BY Zenon, <2>3, <2>5 DEF T
<1>13. CASE call.op = "swap"
    <2>1. x = T[call.x]
        <3>1. \A i \in Places : x[i] = T[call.x][i]
            BY SMT, <1>2, <1>5, <1>7, <1>8, <1>9, <1>11, <1>13 DEF PlaceTreated
        <3> QED  BY <3>1, <1>2, <1>8, <1>10 DEF Memories
    <2>2. call.z # call.x => z = T[call.z]
        <3>1. \A i \in Places : call.z # call.x => z[i] = T[call.z][i]
            BY SMT, <1>2, <1>5, <1>7, <1>8, <1>9, <1>11, <1>13 DEF PlaceTreated
        <3> QED  BY <3>1, <1>2, <1>8, <1>10 DEF Memories
    <2>3. \A b \in Buffers : b # call.z /\ b # call.x => mem[b] = T[b]
        <3>1. \A b \in Buffers, i \in Places : b # call.z /\ b # call.x => mem[b][i] = T[b][i]
            BY SMT, <1>8, <1>9, <1>13 DEF PlaceTreated
        <3> QED  BY <3>1, <1>1, <1>8 DEF Memories
    <2>4. Written(table, word, n) = [mem EXCEPT ![call.z] = z, ![call.x] = x]
        BY Zenon, <1>2, <1>4, <1>13
    <2>5. \A b \in Buffers : [mem EXCEPT ![call.z] = z, ![call.x] = x][b] = T[b]
        BY <1>1, <1>2, <2>1, <2>2, <2>3 DEF Memories
    <2>6. [mem EXCEPT ![call.z] = z, ![call.x] = x] = T
        BY <1>1, <1>8, <2>5 DEF Memories
    <2> QED  BY Zenon, <2>4, <2>6 DEF T
<1> QED  BY <1>12, <1>13

\* What memset, memcpy or doing nothing leave is what the operation promises.
LEMMA ShortcutIsTreated ==
    ASSUME IInv, call # Idle, ShortcutTaken
    PROVE  mem' = Abstract!Treated(before, call, call.bytes)
<1>1. /\ call \in Abstract!Requests /\ before \in Memories /\ mem \in Memories
      /\ function = Function(call) /\ done = 0
      /\ mem = Abstract!Treated(before, call, done)
    BY DEF IInv, CallInv, MemoryInv, PrefixDone, ShortcutTaken
<1>2. mem = before
    BY <1>1, TreatedNothing
<1>3. /\ call.x \in Buffers /\ call.z \in Buffers /\ call.bytes \in Nat
      /\ call.op \in {"mul", "muladd", "div"} /\ (function = "muladd" <=> call.op = "muladd")
    BY SMT, <1>1, SizeAssumption DEF Abstract!Requests, Function, ShortcutTaken, Shortcut
<1>4. factor \in {0, 1} /\ (function = "muladd" => factor = 0)
    BY SMT, <1>1, <1>3, FactorDivides DEF ShortcutTaken, Shortcut, Function, Byte
<1> DEFINE z == [i \in Places |-> IF i >= call.bytes THEN mem[call.z][i]
                                  ELSE IF factor = 0 THEN 0 ELSE mem[call.x][i]]
           T == Abstract!Treated(before, call, call.bytes)
<1>5. mem' = IF function = "muladd" THEN mem ELSE [mem EXCEPT ![call.z] = z]
    BY Zenon DEF ShortcutTaken
<1>6. /\ T \in Memories
      /\ \A b \in Buffers, i \in Places :
             T[b][i] = IF i >= call.bytes THEN before[b][i] ELSE PlaceTreated(before, call, b, i)
    BY <1>1, <1>3, TreatedAt
<1>7. \A i \in Places : Abstract!Value(before, call, i) =
          IF call.op = "muladd" THEN before[call.z][i]
          ELSE IF factor = 0 THEN 0 ELSE before[call.x][i]
    <2> TAKE i \in Places
    <2> DEFINE X == before[call.x][i]  Z == before[call.z][i]
    <2>1. X \in Byte /\ Z \in Byte
        BY <1>1, <1>3 DEF Memories
    <2>2. Abstract!Value(before, call, i) =
              CASE call.op = "mul"    -> FieldProduct(X, call.c)
                [] call.op = "muladd" -> Xor(Z, FieldProduct(X, call.c))
                [] call.op = "div"    -> FieldQuotient(X, call.c)
        BY <1>3 DEF Abstract!Value
    <2> HIDE DEF X, Z
    <2>3. /\ FieldProduct(X, 0) = 0 /\ FieldProduct(X, 1) = X /\ Xor(Z, 0) = Z
        BY Zenon, FieldFacts, <2>1
    <2>4. Abstract!Value(before, call, i) =
              IF call.op = "muladd" THEN Z ELSE IF factor = 0 THEN 0 ELSE X
        BY SMT, FactorDivides, <1>3, <1>4, <2>1, <2>2, <2>3
    <2> QED  BY <2>4 DEF X, Z
<1>8. \A i \in Places : z[i] = T[call.z][i] \/ call.op = "muladd"
    BY SMT, <1>2, <1>3, <1>6, <1>7 DEF PlaceTreated
<1>9. z = [i \in Places |-> z[i]]
    OBVIOUS
<1>10. \A b \in Buffers, i \in Places : (b # call.z \/ call.op = "muladd") => mem[b][i] = T[b][i]
    BY SMT, <1>2, <1>3, <1>6, <1>7 DEF PlaceTreated
<1> HIDE DEF z, T
<1>11. CASE call.op = "muladd"
    <2>1. \A b \in Buffers : mem[b] = T[b]
        BY <1>1, <1>6, <1>10, <1>11 DEF Memories
    <2>2. mem = T
        BY <1>1, <1>6, <2>1 DEF Memories
    <2> QED  BY Zenon, <1>3, <1>5, <1>11, <2>2 DEF T
<1>12. CASE call.op # "muladd"
    <2>1. z = T[call.z]
        BY <1>3, <1>6, <1>8, <1>9, <1>12 DEF Memories
    <2>2. \A b \in Buffers : b # call.z => mem[b] = T[b]
        BY <1>1, <1>6, <1>10 DEF Memories
    <2>3. \A b \in Buffers : [mem EXCEPT ![call.z] = z][b] = T[b]
        BY <1>1, <1>3, <2>1, <2>2 DEF Memories
    <2>4. [mem EXCEPT ![call.z] = z] = T
        BY <1>1, <1>6, <2>3 DEF Memories
    <2> QED  BY Zenon, <1>3, <1>5, <1>12, <2>4 DEF T
<1> QED  BY <1>11, <1>12

-----------------------------------------------------------------------------
(* The loops of the operations                                               *)

\* Loops put before a list change neither what it ends with nor, when they read
\* the same tables, what it reads.
LEMMA LoopsBefore ==
    ASSUME NEW first, NEW last, NEW tables, NEW width,
           Readable(first, tables), Readable(last, tables), EndsAt(last, width)
    PROVE  Readable(first \o last, tables) /\ EndsAt(first \o last, width)
<1>1. first \in Seq(LoopTypes) /\ last \in Seq(LoopTypes)
    BY DEF Readable
<1>2. /\ first \o last \in Seq(LoopTypes)
      /\ Len(first \o last) = Len(first) + Len(last)
      /\ Len(first) \in Nat /\ Len(last) \in Nat /\ Len(last) > 0
    BY <1>1 DEF EndsAt
<1>3. \A k \in 1..(Len(first) + Len(last)) :
          (first \o last)[k] = IF k <= Len(first) THEN first[k] ELSE last[k - Len(first)]
    BY <1>1
<1>4. \A k \in 1..Len(first \o last) : (first \o last)[k].table \in tables
    BY <1>2, <1>3 DEF Readable
<1>5. (first \o last)[Len(first \o last)] = last[Len(last)]
    BY <1>2, <1>3
<1>6. first \o last # <<>>
    BY <1>2
<1> QED  BY <1>2, <1>4, <1>5, <1>6 DEF Readable, EndsAt

\* Loops put behind each other read the tables each of them reads.
LEMMA JoinedIsReadable ==
    ASSUME NEW first, NEW last, NEW tables, Readable(first, tables), Readable(last, tables)
    PROVE  Readable(first \o last, tables)
<1>1. first \in Seq(LoopTypes) /\ last \in Seq(LoopTypes)
    BY DEF Readable
<1>2. /\ first \o last \in Seq(LoopTypes)
      /\ Len(first \o last) = Len(first) + Len(last)
      /\ Len(first) \in Nat /\ Len(last) \in Nat
    BY <1>1
<1>3. \A k \in 1..(Len(first) + Len(last)) :
          (first \o last)[k] = IF k <= Len(first) THEN first[k] ELSE last[k - Len(first)]
    BY <1>1
<1>4. \A k \in 1..Len(first \o last) : (first \o last)[k].table \in tables
    BY <1>2, <1>3 DEF Readable
<1> QED  BY <1>2, <1>4 DEF Readable

\* The first loop of a list, and what is left without it.
LEMMA HeadAndTail ==
    ASSUME NEW list, NEW tables, NEW width, Readable(list, tables), list # <<>>
    PROVE  /\ Len(list) \in Nat /\ Len(list) > 0
           /\ Head(list) = list[1] /\ Head(list).table \in tables /\ Head(list).width \in Nat
           /\ Readable(Tail(list), tables)
           /\ Len(list) = 1 => Tail(list) = <<>>
           /\ Len(list) > 1 /\ EndsAt(list, width) => EndsAt(Tail(list), width)
<1>1. /\ list \in Seq(LoopTypes)
      /\ \A k \in 1..Len(list) : list[k].table \in tables
    BY DEF Readable
<1>2. /\ Len(list) \in Nat /\ Len(list) > 0
      /\ Head(list) = list[1]
      /\ Tail(list) \in Seq(LoopTypes) /\ Len(Tail(list)) = Len(list) - 1
      /\ \A k \in 1..Len(Tail(list)) : Tail(list)[k] = list[k + 1]
    BY <1>1
<1>3. list[1] \in LoopTypes /\ list[1].table \in tables
    BY <1>1, <1>2
<1>4. list[1].width \in Nat
    BY <1>3 DEF LoopTypes
<1>5. Readable(Tail(list), tables)
    BY <1>1, <1>2 DEF Readable
<1>6. ASSUME Len(list) = 1
      PROVE  Tail(list) = <<>>
    <2> DEFINE rest == Tail(list)
    <2>1. rest \in Seq(LoopTypes) /\ Len(rest) = 0
        BY <1>2, <1>6
    <2> HIDE DEF rest
    <2>2. rest = <<>>
        BY <2>1
    <2> QED  BY <2>2 DEF rest
<1>7. ASSUME Len(list) > 1, EndsAt(list, width)
      PROVE  EndsAt(Tail(list), width)
    <2>1. Tail(list)[Len(Tail(list))] = list[Len(list)] /\ Tail(list) # <<>>
        <3>1. Len(list) - 1 \in 1..Len(Tail(list)) /\ (Len(list) - 1) + 1 = Len(list)
            BY <1>2, <1>7
        <3>2. Tail(list)[Len(list) - 1] = list[Len(list)]
            BY <1>2, <3>1
        <3>3. Tail(list) # <<>>
            <4>1. Len(Tail(list)) # 0 /\ Len(<<>>) = 0
                BY <1>2, <3>1
            <4> QED  BY Zenon, <4>1
        <3> QED  BY <1>2, <3>2, <3>3
    <2> QED  BY Zenon, <1>7, <2>1 DEF EndsAt
<1> QED  BY <1>2, <1>3, <1>4, <1>5, <1>6, <1>7

\* No loop reads no table.
LEMMA EmptyIsReadable == ASSUME NEW tables PROVE Readable(<<>>, tables)
BY DEF Readable

\* One loop, and two.
LEMMA OneLoop ==
    ASSUME NEW width \in {8, 16, 32, 64, 128}, NEW table \in {"none", "MUL", "MM128", "MM256"},
           NEW tables, table \in tables
    PROVE  Readable(<<Loop(width, table)>>, tables) /\ Readable(<<Once(width, table)>>, tables)
<1>1. /\ Loop(width, table) \in LoopTypes /\ Loop(width, table).table = table
      /\ Once(width, table) \in LoopTypes /\ Once(width, table).table = table
    BY DEF Loop, Once, LoopTypes
<1> QED  BY <1>1 DEF Readable

LEMMA LastLoop ==
    ASSUME NEW table
    PROVE  /\ EndsAt(<<Loop(8, table)>>, 8)
           /\ EndsAt(<<Loop(8, table)>>, 16)
           /\ EndsAt(<<Loop(16, table)>>, 16)
BY DEF EndsAt, Loop

LEMMA TwoLoops ==
    ASSUME NEW first, NEW last, NEW tables, Readable(<<first>>, tables), Readable(<<last>>, tables)
    PROVE  /\ Readable(<<first, last>>, tables)
           /\ \A width : EndsAt(<<last>>, width) => EndsAt(<<first, last>>, width)
<1>1. ASSUME NEW loop, Readable(<<loop>>, tables)
      PROVE  loop \in LoopTypes /\ loop.table \in tables
    <2>1. <<loop>> \in Seq(LoopTypes) /\ \A k \in 1..Len(<<loop>>) : <<loop>>[k].table \in tables
        BY Zenon, <1>1 DEF Readable
    <2>2. Len(<<loop>>) = 1 /\ <<loop>>[1] = loop /\ 1 \in 1..1
        OBVIOUS
    <2>3. loop \in LoopTypes
        BY <2>1, <2>2
    <2> QED  BY <2>1, <2>2, <2>3
<1>2. /\ first \in LoopTypes /\ last \in LoopTypes
      /\ first.table \in tables /\ last.table \in tables
    BY <1>1
<1>3. /\ <<first, last>> \in Seq(LoopTypes) /\ <<first, last>> # <<>>
      /\ Len(<<first, last>>) = 2
      /\ <<first, last>>[1] = first /\ <<first, last>>[2] = last
      /\ <<last>> # <<>> /\ Len(<<last>>) = 1 /\ <<last>>[1] = last
    BY <1>2
<1>4. Readable(<<first, last>>, tables)
    BY <1>2, <1>3 DEF Readable
<1>5. ASSUME NEW width, EndsAt(<<last>>, width)
      PROVE  EndsAt(<<first, last>>, width)
    BY Zenon, <1>3, <1>5 DEF EndsAt
<1> QED  BY <1>4, <1>5

\* Every operation on sums reads no table.
LEMMA SumLoops ==
    ASSUME NEW width \in {8, 16, 32, 64, 128}
    PROVE  Readable(<<Loop(width, "none")>>, {"none"})
BY OneLoop

\* The loops of an operation read tables that are written for the features, and
\* leave no more than its tail treats.
LEMMA LoopsFit ==
    ASSUME NEW name \in {"add", "add2", "addset", "mul", "muladd", "swap"}, NEW features
    PROVE  /\ Readable(Loops(name, features), TablesFor(name, TablesWritten(features)))
           /\ EndsAt(Loops(name, features), TailLimit(name))
<1> DEFINE written == TablesWritten(features)
           none == {"none"}
           L(width) == <<Loop(width, "none")>>
           wide == <<Loop(128, "none"), Loop(32, "none")>>
<1>1. /\ "MUL" \in written
      /\ ~host.mobile \/ "NEON" \in features => "MM128" \in written
      /\ "AVX2" \in features => "MM256" \in written
    BY DEF TablesWritten
<1>2. /\ Readable(L(8), none) /\ Readable(L(16), none) /\ Readable(L(32), none)
      /\ Readable(L(64), none) /\ Readable(L(128), none)
    BY SumLoops
<1>3. EndsAt(L(8), 16) /\ EndsAt(L(16), 16)
    BY Zenon, LastLoop
<1>4. /\ Readable(<<Loop(64, "none"), Loop(16, "none")>>, none)
      /\ EndsAt(<<Loop(64, "none"), Loop(16, "none")>>, 16)
      /\ Readable(wide, none)
    BY Zenon, <1>2, <1>3, TwoLoops
<1>5. /\ Readable(<<Loop(8, "MUL")>>, written)
      /\ "MM128" \in written => Readable(<<Loop(16, "MM128")>>, written)
      /\ "MM128" \in written => Readable(<<Loop(32, "MM128")>>, written)
      /\ "MM256" \in written => Readable(<<Loop(32, "MM256")>>, written)
      /\ "MM256" \in written => Readable(<<Loop(64, "MM256")>>, written)
      /\ "MM256" \in written => Readable(<<Once(32, "MM256")>>, written)
    BY <1>1, OneLoop
<1>6. EndsAt(<<Loop(8, "MUL")>>, 8)
    BY Zenon, LastLoop
<1>7. /\ "MM256" \in written => Readable(<<Loop(64, "MM256"), Once(32, "MM256")>>, written)
      /\ "MM128" \in written => Readable(<<Loop(32, "MM128"), Loop(16, "MM128")>>, written)
    BY Zenon, <1>5, TwoLoops
<1> HIDE DEF written, none, L, wide
<1>8. CASE name = "add"
    <2>1. Readable(gf256_add_mem(features), none) /\ EndsAt(gf256_add_mem(features), 16)
        <3>1. /\ Readable(wide \o L(16), none) /\ EndsAt(wide \o L(16), 16)
              /\ Readable(L(64) \o L(16), none) /\ EndsAt(L(64) \o L(16), 16)
            BY SMT, <1>2, <1>3, <1>4, LoopsBefore
        <3> QED  BY Zenon, <1>2, <1>3, <1>4, <3>1 DEF gf256_add_mem, L, wide
    <2> QED  BY <1>8, <2>1 DEF Loops, TablesFor, TailLimit, NeedsProducts, none
<1>9. CASE name = "add2"
    <2>1. Readable(gf256_add2_mem(features), none) /\ EndsAt(gf256_add2_mem(features), 16)
        <3>1. Readable(When("AVX2" \in features, L(32)), none)
            BY Zenon, <1>2, EmptyIsReadable DEF When
        <3>2. /\ Readable(When("AVX2" \in features, L(32)) \o L(16), none)
              /\ EndsAt(When("AVX2" \in features, L(32)) \o L(16), 16)
            BY SMT, <1>2, <1>3, <3>1, LoopsBefore
        <3> QED  BY Zenon, <1>2, <1>3, <3>2 DEF gf256_add2_mem, L
    <2> QED  BY <1>9, <2>1 DEF Loops, TablesFor, TailLimit, NeedsProducts, none
<1>10. CASE name = "addset"
    <2>1. Readable(gf256_addset_mem(features), none) /\ EndsAt(gf256_addset_mem(features), 16)
        <3>1. /\ Readable(L(32) \o L(16), none) /\ EndsAt(L(32) \o L(16), 16)
              /\ Readable(L(64) \o L(16), none) /\ EndsAt(L(64) \o L(16), 16)
            BY SMT, <1>2, <1>3, LoopsBefore
        <3> QED  BY Zenon, <1>2, <1>3, <1>4, <3>1 DEF gf256_addset_mem, L
    <2> QED  BY <1>10, <2>1 DEF Loops, TablesFor, TailLimit, NeedsProducts, none
<1>11. CASE name = "mul"
    <2>1. Readable(mul_vectors(features), written)
        <3>1. /\ Readable(When("AVX2" \in features, <<Loop(32, "MM256")>>), written)
              /\ ~host.mobile \/ "NEON" \in features =>
                     /\ Readable(When("SSSE3" \in features, <<Loop(16, "MM128")>>), written)
                     /\ Readable(When("NEON" \in features, <<Loop(16, "MM128")>>), written)
              /\ "NEON" \notin features =>
                     Readable(When("NEON" \in features, <<Loop(16, "MM128")>>), written)
            BY Zenon, <1>1, <1>5, EmptyIsReadable DEF When
        <3>2. ~host.mobile =>
                  Readable(When("AVX2" \in features, <<Loop(32, "MM256")>>)
                           \o When("SSSE3" \in features, <<Loop(16, "MM128")>>), written)
            BY Zenon, <3>1, JoinedIsReadable
        <3> QED  BY Zenon, <3>1, <3>2 DEF mul_vectors
    <2>2. /\ Readable(mul_vectors(features) \o <<Loop(8, "MUL")>>, written)
          /\ EndsAt(mul_vectors(features) \o <<Loop(8, "MUL")>>, 8)
        BY SMT, <1>5, <1>6, <2>1, LoopsBefore
    <2> QED  BY <1>11, <2>2 DEF Loops, TablesFor, TailLimit, NeedsProducts, written
<1>12. CASE name = "muladd"
    <2>1. Readable(muladd_vectors(features), written)
        <3>1. /\ Readable(When("AVX2" \in features, <<Loop(64, "MM256"), Once(32, "MM256")>>), written)
              /\ ~host.mobile \/ "NEON" \in features =>
                     /\ Readable(When("SSSE3" \in features, <<Loop(32, "MM128"), Loop(16, "MM128")>>), written)
                     /\ Readable(When("NEON" \in features, <<Loop(16, "MM128")>>), written)
              /\ "NEON" \notin features =>
                     Readable(When("NEON" \in features, <<Loop(16, "MM128")>>), written)
            BY Zenon, <1>1, <1>5, <1>7, EmptyIsReadable DEF When
        <3>2. ~host.mobile =>
                  Readable(When("AVX2" \in features, <<Loop(64, "MM256"), Once(32, "MM256")>>)
                           \o When("SSSE3" \in features, <<Loop(32, "MM128"), Loop(16, "MM128")>>), written)
            BY Zenon, <3>1, JoinedIsReadable
        <3> QED  BY Zenon, <3>1, <3>2 DEF muladd_vectors
    <2>2. /\ Readable(muladd_vectors(features) \o <<Loop(8, "MUL")>>, written)
          /\ EndsAt(muladd_vectors(features) \o <<Loop(8, "MUL")>>, 8)
        BY SMT, <1>5, <1>6, <2>1, LoopsBefore
    <2> QED  BY <1>12, <2>2 DEF Loops, TablesFor, TailLimit, NeedsProducts, written
<1>13. CASE name = "swap"
    <2>1. gf256_memswap = L(8) \/ gf256_memswap = L(16)
        BY Zenon DEF gf256_memswap, L
    <2>2. Readable(gf256_memswap, none) /\ EndsAt(gf256_memswap, 16)
        BY Zenon, <1>2, <1>3, <2>1
    <2> QED  BY <1>13, <2>2 DEF Loops, TablesFor, TailLimit, NeedsProducts, none
<1> QED  BY <1>8, <1>9, <1>10, <1>11, <1>12, <1>13

-----------------------------------------------------------------------------
(* Steps                                                                     *)

LEMMA RequestFacts ==
    ASSUME NEW r \in Abstract!Requests
    PROVE  /\ r # Idle /\ r.bytes \in Nat
           /\ r.op \in {"add", "add2", "addset", "mul", "muladd", "div", "swap"}
           /\ Function(r) \in {"add", "add2", "addset", "mul", "muladd", "swap"}
           /\ NeedsProducts(Function(r)) => NeedsProducts(r.op)
<1>1. /\ r.op \in {"add", "add2", "addset", "mul", "muladd", "div", "swap"}
      /\ r.bytes \in 0..Size
    BY DEF Abstract!Requests
<1>2. Idle.op = "none"
    BY DEF Idle, Abstract!Idle
<1>3. r.bytes \in Nat
    BY <1>1, SizeAssumption
<1> QED  BY <1>1, <1>2, <1>3 DEF Function, NeedsProducts

\* A call that begins, with products only where there are tables.
LEMMA Begins ==
    ASSUME NEW r \in Abstract!Requests, Begin(r, cpu'), mem' \in Memories,
           filled' = filled \/ r.op # "div",
           NeedsProducts(r.op) => filled' # {},
           filled' # {} => filled' = TablesWritten(cpu')
    PROVE  MemoryInv' /\ CallInv'
<1>1. /\ call' = r /\ before' = mem' /\ function' = Function(r) /\ factor' = Factor(r)
      /\ loops' = Loops(Function(r), cpu') /\ done' = 0 /\ left' = r.bytes
    BY DEF Begin
<1>2. MemoryInv'
    BY <1>1 DEF MemoryInv
<1>3. Abstract!Treated(mem', r, 0) = mem'
    BY TreatedNothing
<1>4. PrefixDone'
    BY <1>1, <1>3, RequestFacts DEF PrefixDone
<1>5. LoopsInv'
    <2>1. /\ Readable(loops', TablesFor(Function(r), TablesWritten(cpu')))
          /\ EndsAt(loops', TailLimit(Function(r)))
        BY <1>1, LoopsFit, RequestFacts
    <2>2. TablesFor(Function(r), filled') = TablesFor(Function(r), TablesWritten(cpu'))
        BY RequestFacts DEF TablesFor
    <2> QED  BY <1>1, <2>1, <2>2 DEF LoopsInv, EndsAt
<1>6. factor' = Factor(call)'
    BY <1>1 DEF Factor
<1>7. function' = Function(call)' /\ done' \in Nat /\ left' \in Nat
    BY <1>1, RequestFacts DEF Function
<1>8. CallInv'
    BY <1>1, <1>4, <1>5, <1>6, <1>7 DEF CallInv
<1> QED  BY <1>2, <1>8

\* A step of an operation that is under way changes none of these.
LEMMA RunningKeepsTables ==
    ASSUME IInv, Running
    PROVE  TablesInv' /\ before' = before /\ before' \in Memories
BY DEF Running, contextVars, IInv, TablesInv, MemoryInv, IsExpectedEndian, TablesWritten

\* An operation that returns leaves the memory it promised.
LEMMA Returned ==
    ASSUME IInv, Running, Return, mem' \in Memories
    PROVE  IInv'
BY RunningKeepsTables DEF Return, IInv, MemoryInv, CallInv

\* One lemma for each action: the invariant is kept, and an operation that returns has
\* done what it promises.
LEMMA ShortcutPreserves ==
    ASSUME IInv, ShortcutTaken
    PROVE  IInv' /\ mem' = Abstract!Treated(before, call, call.bytes)
<1>1. Running /\ Return /\ call # Idle
    BY DEF ShortcutTaken, Running
<1>2. mem' = Abstract!Treated(before, call, call.bytes)
    BY <1>1, ShortcutIsTreated
<1>3. call \in Abstract!Requests /\ before \in Memories /\ call.bytes \in Nat
    BY <1>1, RequestFacts DEF IInv, MemoryInv, CallInv
<1>4. mem' \in Memories
    BY <1>2, <1>3, TreatedAt
<1> QED  BY <1>1, <1>2, <1>4, Returned

LEMMA PassPreserves ==
    ASSUME IInv, Pass
    PROVE  IInv'
<1> DEFINE loop == Head(loops)
           word == IF loop.table = "MUL" THEN 8 ELSE 0
<1>1. /\ Running /\ call # Idle /\ ~Shortcut /\ loops # <<>>
      /\ left >= loop.width
      /\ mem' = Written(loop.table, word, loop.width)
      /\ done' = done + loop.width /\ left' = left - loop.width
      /\ loops' = IF loop.again THEN loops ELSE Tail(loops)
      /\ call' = call /\ function' = function /\ factor' = factor
      /\ filled' = filled /\ before' = before
    BY DEF Pass, Another, Running, contextVars
<1>2. /\ done \in Nat /\ left \in Nat /\ done + left = call.bytes
      /\ function = Function(call) /\ factor = Factor(call)
      /\ call \in Abstract!Requests /\ before \in Memories
      /\ NeedsProducts(call.op) => filled # {}
      /\ Readable(loops, TablesFor(function, filled)) /\ EndsAt(loops, TailLimit(function))
    BY <1>1 DEF IInv, CallInv, MemoryInv, PrefixDone, LoopsInv
<1>3. /\ Len(loops) \in Nat /\ Len(loops) > 0 /\ loop = loops[1]
      /\ Readable(Tail(loops), TablesFor(function, filled))
      /\ Len(loops) > 1 => EndsAt(Tail(loops), TailLimit(function))
    BY Zenon, <1>1, <1>2, HeadAndTail
<1>4. loop.table \in TablesFor(function, filled) /\ loop.width \in Nat
    BY Zenon, <1>1, <1>2, HeadAndTail
<1> HIDE DEF loop, word
<1>5. mem' = Abstract!Treated(before, call, done')
    BY <1>1, <1>4, WrittenIsTreated DEF TablesFor
<1>6. done' \in Nat /\ left' \in Nat /\ done' + left' = call.bytes
    BY <1>1, <1>2, <1>4
<1>7. mem' \in Memories
    BY <1>2, <1>5, <1>6, TreatedAt
<1>8. LoopsInv'
    <2>1. CASE loop.again
        BY <1>1, <1>2, <2>1 DEF LoopsInv, EndsAt
    <2>2. CASE ~loop.again
        <3>1. Len(loops) > 1
            BY <1>2, <1>3, <2>2 DEF EndsAt
        <3> QED  BY <1>1, <1>3, <2>2, <3>1 DEF LoopsInv, EndsAt
    <2> QED  BY <2>1, <2>2
<1>9. Shortcut' = Shortcut
    BY <1>1 DEF Shortcut
<1>10. CallInv'
    BY <1>1, <1>2, <1>5, <1>6, <1>8, <1>9 DEF CallInv, PrefixDone, Function, Factor
<1> QED  BY <1>1, <1>7, <1>10, RunningKeepsTables DEF IInv, MemoryInv

LEMMA LeaveLoopPreserves ==
    ASSUME IInv, LeaveLoop
    PROVE  IInv'
<1> DEFINE loop == Head(loops)
<1>1. /\ Running /\ call # Idle /\ ~Shortcut /\ loops # <<>>
      /\ ~(left >= loop.width)
      /\ loops' = Tail(loops)
      /\ call' = call /\ function' = function /\ factor' = factor /\ mem' = mem
      /\ done' = done /\ left' = left
      /\ filled' = filled /\ before' = before
    BY DEF LeaveLoop, Another, Running, contextVars
<1>2. /\ done \in Nat /\ left \in Nat /\ done + left = call.bytes
      /\ mem = Abstract!Treated(before, call, done)
      /\ function = Function(call) /\ factor = Factor(call)
      /\ call \in Abstract!Requests /\ before \in Memories /\ mem \in Memories
      /\ NeedsProducts(call.op) => filled # {}
      /\ Readable(loops, TablesFor(function, filled)) /\ EndsAt(loops, TailLimit(function))
    BY <1>1 DEF IInv, CallInv, MemoryInv, PrefixDone, LoopsInv
<1>3. /\ Len(loops) \in Nat /\ Len(loops) > 0 /\ loop = loops[1]
      /\ Readable(Tail(loops), TablesFor(function, filled))
      /\ Len(loops) = 1 => Tail(loops) = <<>>
      /\ Len(loops) > 1 => EndsAt(Tail(loops), TailLimit(function))
    BY Zenon, <1>1, <1>2, HeadAndTail
<1>4. loop.width \in Nat
    BY Zenon, <1>1, <1>2, HeadAndTail
<1> HIDE DEF loop
<1>5. LoopsInv'
    <2>1. CASE Len(loops) = 1
        <3>1. loops' = <<>>
            BY <1>1, <1>3, <2>1
        <3>2. left < TailLimit(function)
            BY <1>1, <1>2, <1>3, <1>4, <2>1 DEF EndsAt, TailLimit
        <3> QED  BY <1>1, <3>1, <3>2, EmptyIsReadable DEF LoopsInv
    <2>2. CASE Len(loops) > 1
        BY <1>1, <1>3, <2>2 DEF LoopsInv, EndsAt
    <2>3. \A n \in Nat : n > 0 => n = 1 \/ n > 1
        OBVIOUS
    <2> QED  BY Zenon, <1>3, <2>1, <2>2, <2>3
<1>6. Shortcut' = Shortcut
    BY <1>1 DEF Shortcut
<1>7. CallInv'
    BY <1>1, <1>2, <1>5, <1>6 DEF CallInv, PrefixDone, Function, Factor
<1> QED  BY <1>1, <1>2, <1>7, RunningKeepsTables DEF IInv, MemoryInv

LEMMA FinishPreserves ==
    ASSUME IInv, FinishTail
    PROVE  IInv' /\ mem' = Abstract!Treated(before, call, call.bytes)
<1>1. /\ Running /\ Return /\ call # Idle /\ ~Shortcut /\ loops = <<>>
      /\ mem' = IF function \in {"mul", "muladd"} THEN Written("MUL", FourBytes, TailBytes)
                                               ELSE Written("none", 0, TailBytes)
    BY DEF FinishTail, Running
<1>2. /\ done \in Nat /\ left \in Nat /\ done + left = call.bytes
      /\ function = Function(call)
      /\ call \in Abstract!Requests /\ before \in Memories
      /\ NeedsProducts(call.op) => filled # {}
      /\ left < TailLimit(function)
    BY <1>1 DEF IInv, CallInv, MemoryInv, PrefixDone, LoopsInv
<1>3. function \in {"mul", "muladd"} <=> NeedsProducts(function)
    BY <1>2, RequestFacts DEF NeedsProducts
<1>4. TailBytes = left
    BY <1>2, <1>3 DEF TailBytes, TailLimit
<1>5. NeedsProducts(function) => "MUL" \in filled
    BY <1>2, RequestFacts DEF IInv, TablesInv, TablesWritten
<1>6. mem' = Abstract!Treated(before, call, done + left)
    BY <1>1, <1>2, <1>3, <1>4, <1>5, WrittenIsTreated
<1>7. mem' \in Memories
    BY <1>2, <1>6, TreatedAt
<1> QED  BY <1>1, <1>2, <1>6, <1>7, Returned

\* gf256_init_ up to its self test, and the parts of the test.
LEMMA SelfTestFacts ==
    ASSUME NEW k \in 1..5
    PROVE  /\ SelfTest(k).r \in Abstract!Requests
           /\ \A b \in DOMAIN SelfTest(k).fill : SelfTest(k).fill[b] \in Byte
           /\ k = 1 => SelfTest(k).r.op # "div" /\ ~NeedsProducts(SelfTest(k).r.op)
<1>1. /\ kTestBufferBytes \in 0..Size
      /\ {0, 31, 247, 113, 85, 170, 108, 255, 162} \subseteq Byte
    BY SMT, SizeAssumption DEF kTestBufferBytes, Byte
<1>2. \A c \in {0, 108, 162}, name \in {"add", "add2", "addset", "mul", "muladd"}, y \in {"B", "C"} :
          Operation(name, "A", "B", y, c, kTestBufferBytes) \in Abstract!Requests
    BY SMT, <1>1 DEF Operation, Abstract!Requests, Buffers
<1>3. CASE k = 1
    <2>1. /\ SelfTest(k).r = Operation("add", "A", "B", "B", 0, kTestBufferBytes)
          /\ SelfTest(k).fill = [A |-> 31, B |-> 247]
        BY <1>3 DEF SelfTest
    <2>2. SelfTest(k).r \in Abstract!Requests
        BY <1>2, <2>1
    <2>3. \A b \in DOMAIN SelfTest(k).fill : SelfTest(k).fill[b] \in Byte
        BY SMT, <1>1, <2>1
    <2>4. SelfTest(k).r.op = "add"
        BY <2>1 DEF Operation
    <2> QED  BY <2>2, <2>3, <2>4 DEF NeedsProducts
<1>4. CASE k = 2
    BY SMT, <1>1, <1>2, <1>4 DEF SelfTest
<1>5. CASE k = 3
    BY SMT, <1>1, <1>2, <1>5 DEF SelfTest
<1>6. CASE k = 4
    BY SMT, <1>1, <1>2, <1>6 DEF SelfTest
<1>7. CASE k = 5
    BY SMT, <1>1, <1>2, <1>7 DEF SelfTest
<1>8. k = 1 \/ k = 2 \/ k = 3 \/ k = 4 \/ k = 5
    BY SMT
<1> QED  BY <1>3, <1>4, <1>5, <1>6, <1>7, <1>8

\* The buffers the self test fills are buffers.
LEMMA FilledIsMemory ==
    ASSUME NEW m \in Memories, NEW k \in 1..5
    PROVE  Filled(m, SelfTest(k).fill) \in Memories /\ Guarded(m) \in Memories
<1> DEFINE fill == SelfTest(k).fill
<1>1. \A b \in DOMAIN fill : fill[b] \in Byte
    BY SelfTestFacts
<1> HIDE DEF fill
<1>2. Filled(m, fill) \in Memories
    BY <1>1 DEF Filled, Memories
<1>3. Guard \in Byte
    BY DEF Guard, Byte
<1>4. Guarded(m) \in Memories
    BY <1>3 DEF Guarded, Memories
<1> QED  BY <1>2, <1>4 DEF fill

\* The invariant holds initially.
LEMMA InitStarts ==
    ASSUME Init
    PROVE  IInv
<1>1. mem \in Memories /\ before \in Memories
    BY BoundsAssumption DEF Init
<1> QED  BY <1>1 DEF Init, NotCalled, IInv, TablesInv, MemoryInv, CallInv

LEMMA gf256_init_Preserves ==
    ASSUME IInv, NEW version, gf256_init_(version)
    PROVE  IInv'
<1>1. /\ call = Idle /\ test = 0 /\ status >= 0 /\ host' = host /\ host \in Hosts
      /\ mem \in Memories /\ before \in Memories
      /\ status \in {NotCalled, 0, -1, -2, -3}
      /\ filled # {} => IsExpectedEndian /\ filled = TablesWritten(cpu)
      /\ status = 0 => filled # {}
      /\ Initialized /\ status >= 0 => filled # {}
    BY DEF gf256_init_, ClientTurn, IInv, TablesInv, MemoryInv
<1>2. CASE /\ version # GF256_VERSION
           /\ status' = -1
           /\ UNCHANGED <<Initialized, cpu, filled, test, call, before, mem, progress>>
    BY <1>1, <1>2 DEF IInv, TablesInv, MemoryInv, CallInv, IsExpectedEndian, TablesWritten
<1>3. CASE /\ Initialized
           /\ status' = 0
           /\ UNCHANGED <<Initialized, cpu, filled, test, call, before, mem, progress>>
    BY <1>1, <1>3 DEF IInv, TablesInv, MemoryInv, CallInv, IsExpectedEndian, TablesWritten
<1>4. CASE FirstInit /\ ~IsExpectedEndian
    BY <1>1, <1>4 DEF FirstInit, IInv, TablesInv, MemoryInv, CallInv, IsExpectedEndian, TablesWritten
<1>5. CASE FirstInit /\ IsExpectedEndian
    <2>1. /\ Initialized' = TRUE /\ filled' = TablesWritten(cpu') /\ filled' # {}
          /\ IsExpectedEndian' /\ TablesWritten(cpu)' = TablesWritten(cpu')
        BY <1>1, <1>5 DEF FirstInit, TablesWritten, IsExpectedEndian
    <2>2. CASE MultiplicationTest
        <3> DEFINE r == SelfTest(1).r
        <3>1. /\ test' = 1 /\ status' = status /\ Begin(r, cpu')
              /\ mem' = Filled(Guarded(mem), SelfTest(1).fill)
            BY <1>5, <2>2 DEF FirstInit
        <3>2. mem' \in Memories /\ r \in Abstract!Requests /\ r.op # "div"
            BY <1>1, <3>1, FilledIsMemory, SelfTestFacts
        <3> HIDE DEF r
        <3>3. MemoryInv' /\ CallInv'
            BY <2>1, <3>1, <3>2, Begins
        <3>4. TablesInv'
            BY <1>1, <2>1, <3>1 DEF TablesInv
        <3> QED  BY <3>3, <3>4 DEF IInv
    <2>3. CASE ~MultiplicationTest
        <3>1. status' = -3 /\ test' = 0 /\ call' = Idle /\ before' = before /\ mem' = mem
            BY <1>1, <1>5, <2>3 DEF FirstInit
        <3>2. TablesInv'
            BY <1>1, <2>1, <3>1 DEF TablesInv
        <3> QED  BY <1>1, <3>1, <3>2 DEF IInv, MemoryInv, CallInv
    <2> QED  BY <2>2, <2>3
<1> QED  BY <1>2, <1>3, <1>4, <1>5 DEF gf256_init_

LEMMA CheckTestPreserves ==
    ASSUME IInv, CheckTest
    PROVE  IInv'
<1>1. /\ call = Idle /\ test # 0 /\ test \in 0..5 /\ host' = host /\ host \in Hosts
      /\ cpu' = cpu /\ filled' = filled /\ Initialized' = Initialized
      /\ mem \in Memories /\ before \in Memories
      /\ status \in {NotCalled, 0, -1, -2, -3}
      /\ filled # {} /\ IsExpectedEndian /\ filled = TablesWritten(cpu)
    BY DEF CheckTest, contextVars, IInv, TablesInv, MemoryInv
<1>2. IsExpectedEndian' /\ filled' = TablesWritten(cpu)' /\ filled' = TablesWritten(cpu')
    BY <1>1 DEF IsExpectedEndian, TablesWritten
<1>3. CASE /\ test < 5 /\ test' = test + 1
           /\ mem' = Filled(mem, SelfTest(test + 1).fill)
           /\ Begin(SelfTest(test + 1).r, cpu)
           /\ UNCHANGED status
    <2>1. test + 1 \in 1..5 /\ test' \in 1..5
        BY <1>1, <1>3
    <2>2. mem' \in Memories /\ SelfTest(test + 1).r \in Abstract!Requests
        BY <1>1, <1>3, <2>1, FilledIsMemory, SelfTestFacts
    <2>3. Begin(SelfTest(test + 1).r, cpu')
        BY <1>1, <1>3
    <2>4. MemoryInv' /\ CallInv'
        BY <1>1, <1>2, <2>2, <2>3, Begins
    <2>5. TablesInv'
        BY <1>1, <1>2, <1>3, <2>1 DEF TablesInv
    <2> QED  BY <2>4, <2>5 DEF IInv
<1>4. CASE /\ test' = 0 /\ status' \in {0, -3}
           /\ UNCHANGED <<call, before, mem, progress>>
    BY <1>1, <1>2, <1>4 DEF IInv, TablesInv, MemoryInv, CallInv
<1> QED  BY <1>3, <1>4 DEF CheckTest

\* A client's calls are calls of the specification.
LEMMA RequestsAreAbstract ==
    Requests \subseteq Abstract!Requests /\ Contents \subseteq Memories
<1>1. 0 \in Byte /\ Lengths \subseteq 0..Size /\ Coefficients \subseteq Byte
    BY BoundsAssumption DEF Byte
<1> QED  BY <1>1, BoundsAssumption DEF Requests, Abstract!Requests, Operation, Buffers

LEMMA CallPreserves ==
    ASSUME IInv, Call
    PROVE  IInv'
<1>1. PICK r \in Requests :
          /\ r.op \in {"mul", "div", "muladd"} => status = 0
          /\ mem' \in Contents
          /\ Begin(r, cpu)
    BY DEF Call
<1>2. /\ host' = host /\ cpu' = cpu /\ filled' = filled /\ Initialized' = Initialized
      /\ status' = status /\ test' = test
    BY DEF Call, contextVars
<1>3. r \in Abstract!Requests /\ mem' \in Memories
    BY <1>1, RequestsAreAbstract
<1>4. TablesInv'
    BY <1>2 DEF IInv, TablesInv, IsExpectedEndian, TablesWritten
<1>5. /\ NeedsProducts(r.op) => filled' # {}
      /\ filled' # {} => filled' = TablesWritten(cpu')
    BY <1>1, <1>2 DEF IInv, TablesInv, NeedsProducts
<1>6. Begin(r, cpu')
    BY <1>1, <1>2
<1>7. MemoryInv' /\ CallInv'
    BY <1>2, <1>3, <1>5, <1>6, Begins
<1> QED  BY <1>4, <1>7 DEF IInv

-----------------------------------------------------------------------------
(* Theorems                                                                  *)

LEMMA StutterPreserves ==
    ASSUME IInv, UNCHANGED vars
    PROVE  IInv'
BY DEF vars, contextVars, progress, IInv, TablesInv, MemoryInv, CallInv, PrefixDone, LoopsInv,
       IsExpectedEndian, TablesWritten, Shortcut, Function, Factor

\* Every step of every operation, of the self test and of a client keeps the
\* invariant.
THEOREM Invariant == Spec => []IInv
<1>1. ASSUME Init PROVE IInv
    BY <1>1, InitStarts
<1>2. ASSUME IInv, [Next]_vars PROVE IInv'
    BY <1>2, gf256_init_Preserves, CallPreserves, ShortcutPreserves, PassPreserves,
       LeaveLoopPreserves, FinishPreserves, CheckTestPreserves, StutterPreserves
    DEF Next, Work
<1>3. Init => IInv
    BY <1>1
<1>4. IInv /\ [Next]_vars => IInv'
    BY <1>2
<1> QED  BY PTL, <1>3, <1>4 DEF Spec

\* On every host, for buffers of every size and calls of every length, an
\* operation that is under way has treated exactly the bytes behind it: no loop
\* treats a byte twice, leaves one out or reads a table that was not written.
THEOREM PrefixIsDone == Spec => []PrefixDone
<1>1. Spec => []IInv
    BY Invariant
<1>2. IInv => PrefixDone
    BY DEF IInv, CallInv, PrefixDone
<1> QED  BY PTL, <1>1, <1>2

\* Every step is one the abstract bulk memory allows or leaves its memory and its
\* request alone: an operation returns what the field makes of the memory it was
\* called with.  That it returns is checked, not proved.
THEOREM ImplementsAbstractBulkSafely ==
    Spec => Abstract!Init /\ [][Abstract!Next]_(Abstract!vars)
<1>1. Idle = [op |-> "none"]
    BY DEF Idle, Abstract!Idle
<1>2. Init => Abstract!Init
    BY <1>1, BoundsAssumption DEF Init, Abstract!Init, Abstract!Memories, Abstract!Places,
       Memories, Places, Idle
<1>3. ASSUME IInv, [Next]_vars
      PROVE  [Abstract!Next]_(Abstract!vars)
    <2>1. ASSUME NEW r \in Abstract!Requests, mem' \in Memories, call = Idle, call' = r,
                 before' = mem'
          PROVE  Abstract!Next
        BY <1>1, <2>1, RequestFacts DEF Abstract!Next, Abstract!Ask, Abstract!Memories, Abstract!Places,
           Memories, Places, Idle
    <2>2. ASSUME call' = call, before' = before, call = Idle => mem' = mem
          PROVE  UNCHANGED Abstract!vars
        BY <1>1, <2>2 DEF Abstract!vars
    <2>3. ASSUME call # Idle, call' = Idle, mem' = Abstract!Treated(before, call, call.bytes)
          PROVE  Abstract!Next
        BY <1>1, <2>3 DEF Abstract!Next, Abstract!Answer, Idle
    <2>4. ASSUME NEW version, gf256_init_(version)
          PROVE  [Abstract!Next]_(Abstract!vars)
        <3>1. CASE call' = call /\ before' = before /\ mem' = mem
            BY <2>2, <3>1
        <3>2. CASE /\ call = Idle /\ mem' = Filled(Guarded(mem), SelfTest(1).fill)
                   /\ Begin(SelfTest(1).r, cpu')
            BY <1>3, <2>1, <3>2, FilledIsMemory, SelfTestFacts DEF Begin, IInv, MemoryInv
        <3> QED  BY <2>4, <3>1, <3>2 DEF gf256_init_, FirstInit, ClientTurn
    <2>5. CASE Call
        <3>1. call = Idle
            BY <2>5 DEF Call, ClientTurn
        <3>2. PICK r \in Requests : mem' \in Contents /\ Begin(r, cpu)
            BY <2>5 DEF Call
        <3>3. r \in Abstract!Requests /\ mem' \in Memories
            BY <3>2, RequestsAreAbstract
        <3> QED  BY <2>1, <3>1, <3>2, <3>3 DEF Begin
    <2>6. CASE ShortcutTaken
        BY <1>3, <2>3, <2>6, ShortcutPreserves DEF ShortcutTaken, Running, Return
    <2>7. CASE Pass
        BY <2>2, <2>7 DEF Pass, Running
    <2>8. CASE LeaveLoop
        BY <2>2, <2>8 DEF LeaveLoop, Running
    <2>9. CASE FinishTail
        BY <1>3, <2>3, <2>9, FinishPreserves DEF FinishTail, Running, Return
    <2>10. CASE CheckTest
        <3>1. CASE /\ test < 5
                   /\ mem' = Filled(mem, SelfTest(test + 1).fill)
                   /\ Begin(SelfTest(test + 1).r, cpu)
            <4>1. call = Idle /\ test + 1 \in 1..5 /\ mem \in Memories
                BY <1>3, <2>10, <3>1 DEF CheckTest, IInv, TablesInv, MemoryInv
            <4> QED  BY <2>1, <3>1, <4>1, FilledIsMemory, SelfTestFacts DEF Begin
        <3>2. CASE call' = call /\ before' = before /\ mem' = mem
            BY <2>2, <3>2
        <3> QED  BY <2>10, <3>1, <3>2 DEF CheckTest
    <2>11. CASE UNCHANGED vars
        BY <2>2, <2>11 DEF vars
    <2> QED  BY <1>3, <2>4, <2>5, <2>6, <2>7, <2>8, <2>9, <2>10, <2>11 DEF Next, Work
<1>4. Spec => []IInv
    BY Invariant
<1> QED  BY PTL, <1>2, <1>3, <1>4 DEF Spec

\* What TypeOK says of the variables IInv leaves alone, and of those of an
\* operation while none is under way.
RestInv ==
    /\ Initialized \in BOOLEAN /\ cpu \in SUBSET Features /\ calls \in 0..MaxCalls
    /\ call = Idle => function = "none" /\ factor = 0 /\ loops = <<>> /\ done = 0 /\ left = 0

\* Every variable stays in its range, whatever the bounds.
THEOREM TypesStay == Spec => []TypeOK
<1>1. /\ \A h \in Hosts : /\ h.mobile \in BOOLEAN /\ h.has \subseteq Features
                         /\ h.assumed \subseteq Features /\ h.told \subseteq Features
                         /\ h.asks \in {"nobody", "Android", "Linux"}
      /\ MaxCalls \in Nat
    BY HostsAssumption, BoundsAssumption DEF HostTypes, Features
<1>2. Init => RestInv
    <2> SUFFICES ASSUME Init PROVE RestInv
        OBVIOUS
    <2>1. cpu \subseteq Features
        BY <1>1 DEF Init
    <2>2. Initialized \in BOOLEAN
        BY Zenon DEF Init
    <2>3. calls \in 0..MaxCalls
        BY <1>1 DEF Init
    <2>4. function = "none" /\ factor = 0 /\ loops = <<>> /\ done = 0 /\ left = 0
        BY Zenon DEF Init
    <2> QED  BY Zenon, <2>1, <2>2, <2>3, <2>4 DEF RestInv
<1>3. ASSUME IInv, RestInv, [Next]_vars
      PROVE  RestInv'
    <2>1. ASSUME NEW version, gf256_init_(version)
          PROVE  RestInv'
        <3>1. CASE UNCHANGED <<cpu, call, progress>> /\ Initialized' \in BOOLEAN
            BY <1>3, <2>1, <3>1 DEF gf256_init_, RestInv, progress
        <3>2. CASE FirstInit /\ IsExpectedEndian
            <4>1. cpu' \in SUBSET Features /\ Initialized' \in BOOLEAN
                BY <1>1, <1>3, <3>2 DEF FirstInit, gf256_architecture_init, IInv, TablesInv
            <4>2. calls' = calls
                BY <2>1 DEF gf256_init_
            <4>3. \/ UNCHANGED <<call, progress>>
                  \/ call' = SelfTest(1).r
                BY <3>2 DEF FirstInit, Begin
            <4>4. SelfTest(1).r # Idle
                BY SelfTestFacts, RequestFacts
            <4> QED  BY <1>3, <4>1, <4>2, <4>3, <4>4 DEF RestInv, progress
        <3> QED  BY <1>3, <2>1, <3>1, <3>2 DEF gf256_init_, FirstInit, RestInv
    <2>2. CASE Call
        <3>1. PICK r \in Requests : call' = r
            BY <2>2 DEF Call, Begin
        <3>2. call' # Idle
            BY <3>1, RequestsAreAbstract, RequestFacts
        <3>3. calls' = calls + 1 /\ calls < MaxCalls /\ cpu' = cpu /\ Initialized' = Initialized
            BY <2>2 DEF Call, contextVars
        <3> QED  BY <1>1, <1>3, <3>2, <3>3 DEF RestInv
    <2>3. CASE ShortcutTaken \/ FinishTail
        BY <1>3, <2>3 DEF ShortcutTaken, FinishTail, Running, Return, contextVars, RestInv
    <2>4. CASE Pass \/ LeaveLoop
        BY <1>3, <2>4 DEF Pass, LeaveLoop, Running, contextVars, RestInv
    <2>5. CASE CheckTest
        <3>1. UNCHANGED <<contextVars, calls>>
            BY <2>5 DEF CheckTest
        <3>2. test \in 1..5
            BY <1>3, <2>5 DEF CheckTest, IInv, TablesInv
        <3>3. \/ UNCHANGED <<call, progress>>
              \/ test < 5 /\ call' = SelfTest(test + 1).r
            BY <2>5 DEF CheckTest, Begin
        <3>4. test < 5 => SelfTest(test + 1).r # Idle
            <4> SUFFICES ASSUME test < 5 PROVE SelfTest(test + 1).r # Idle
                OBVIOUS
            <4>1. test + 1 \in 1..5
                BY <3>2
            <4> QED  BY <4>1, SelfTestFacts, RequestFacts
        <3> QED  BY <1>3, <3>1, <3>3, <3>4 DEF RestInv, contextVars, progress
    <2>6. CASE UNCHANGED vars
        BY <1>3, <2>6 DEF vars, contextVars, progress, RestInv
    <2> QED  BY <1>3, <2>1, <2>2, <2>3, <2>4, <2>5, <2>6 DEF Next, Work
<1>4. ASSUME IInv, RestInv
      PROVE  TypeOK
    <2>1. filled \in SUBSET {"MUL", "MM128", "MM256"}
        BY <1>4 DEF IInv, TablesInv, TablesWritten
    <2>2. /\ host \in Hosts /\ status \in {NotCalled, 0, -1, -2, -3} /\ test \in 0..5
          /\ call \in {Idle} \cup Abstract!Requests /\ before \in Memories /\ mem \in Memories
        BY <1>4 DEF IInv, TablesInv, MemoryInv, CallInv
    <2>3. /\ function \in {"none", "add", "add2", "addset", "mul", "muladd", "swap"}
          /\ factor \in Byte
          /\ \A k \in DOMAIN loops : loops[k] \in LoopTypes
          /\ done \in 0..Size /\ left \in 0..Size
        <3>1. CASE call = Idle
            BY <1>4, <3>1, SizeAssumption DEF RestInv, Byte
        <3>2. CASE call # Idle
            <4>1. /\ call \in Abstract!Requests /\ function = Function(call)
                  /\ done \in Nat /\ left \in Nat /\ done + left = call.bytes
                  /\ loops \in Seq(LoopTypes)
                BY <1>4, <3>2 DEF IInv, CallInv, PrefixDone, LoopsInv, Readable
            <4>2. call.bytes \in 0..Size
                BY <4>1 DEF Abstract!Requests
            <4>3. factor \in Byte
                BY <1>4, <3>2, FactorDivides
            <4> QED  BY <4>1, <4>2, <4>3, RequestFacts, SizeAssumption
        <3> QED  BY <3>1, <3>2
    <2> QED  BY <1>4, <2>1, <2>2, <2>3 DEF TypeOK, RestInv
<1>5. Spec => []IInv
    BY Invariant
<1> QED  BY PTL, <1>2, <1>3, <1>4, <1>5 DEF Spec

-----------------------------------------------------------------------------
(* The self test                                                             *)

\* The buffers hold what part k of the test fills them with, and the guards.
Prepared(k, m) ==
    /\ \A b \in DOMAIN SelfTest(k).fill, i \in 0..(kTestBufferBytes - 1) :
           m[b][i] = SelfTest(k).fill[b]
    /\ \A b \in Buffers : m[b][kTestBufferBytes] = Guard

\* Nobody was turned down by the test.  While a part of it runs, its operation is
\* under way on the buffers that were prepared for it, or has returned what the
\* field makes of them.
TestInv ==
    /\ status # -3
    /\ test # 0 =>
        /\ call \in {Idle, SelfTest(test).r}
        /\ Prepared(test, before)
        /\ call = Idle => mem = Abstract!Treated(before, SelfTest(test).r, kTestBufferBytes)

\* The places the self test uses: its bytes, and the guard behind them.
LEMMA TestPlaces ==
    /\ kTestBufferBytes \in Places /\ kTestBufferBytes \in Nat
    /\ \A i \in 0..(kTestBufferBytes - 1) : i \in Places /\ ~(i >= kTestBufferBytes)
    /\ ~(kTestBufferBytes \in 0..(kTestBufferBytes - 1))
    /\ kTestBufferBytes >= kTestBufferBytes
BY SMT, SizeAssumption DEF kTestBufferBytes, Places

\* The parts of the test, one by one.
LEMMA TestsAre ==
    /\ SelfTest(1).r = Operation("add", "A", "B", "B", 0, kTestBufferBytes)
    /\ SelfTest(1).fill = [A |-> 31, B |-> 247]
    /\ SelfTest(1).expected = Xor(31, 247)
    /\ SelfTest(2).r = Operation("add2", "A", "B", "C", 0, kTestBufferBytes)
    /\ SelfTest(2).fill = [A |-> 31, B |-> 247, C |-> 113]
    /\ SelfTest(2).expected = Xor(Xor(31, 247), 113)
    /\ SelfTest(3).r = Operation("addset", "A", "B", "C", 0, kTestBufferBytes)
    /\ SelfTest(3).fill = [A |-> 85, B |-> 170, C |-> 108]
    /\ SelfTest(3).expected = Xor(170, 108)
    /\ SelfTest(4).r = Operation("muladd", "A", "B", "B", 108, kTestBufferBytes)
    /\ SelfTest(4).fill = [A |-> 255, B |-> 170]
    /\ SelfTest(4).expected = Xor(Product("MUL", 170, 108), 255)
    /\ SelfTest(5).r = Operation("mul", "A", "B", "B", 162, kTestBufferBytes)
    /\ SelfTest(5).fill = [A |-> 255, B |-> 85]
    /\ SelfTest(5).expected = Product("MUL", 162, 85)
BY SMT DEF SelfTest

\* What a part of the test asks for and fills in depends on no variable.
LEMMA TestsStay ==
    ASSUME NEW k \in 1..5
    PROVE  SelfTest(k).r' = SelfTest(k).r /\ SelfTest(k).fill' = SelfTest(k).fill
BY SMT DEF SelfTest

\* Each part of the self test asks for all its bytes.
LEMMA TestRequests ==
    ASSUME NEW k \in 1..5
    PROVE  /\ SelfTest(k).r.bytes = kTestBufferBytes
           /\ DOMAIN SelfTest(k).fill \subseteq Buffers
<1>1. k = 1 \/ k = 2 \/ k = 3 \/ k = 4 \/ k = 5
    BY SMT
<1> QED  BY SMT, <1>1, TestsAre DEF Operation, Buffers

\* Filling the buffers sets a part of the test up.
LEMMA FillingPrepares ==
    ASSUME NEW k \in 1..5, NEW m \in Memories,
           \A b \in Buffers : m[b][kTestBufferBytes] = Guard
    PROVE  Prepared(k, Filled(m, SelfTest(k).fill))
<1> DEFINE fill == SelfTest(k).fill
<1>1. DOMAIN fill \subseteq Buffers
    BY TestRequests
<1> HIDE DEF fill
<1>2. \A b \in Buffers, i \in Places :
          Filled(m, fill)[b][i] = IF b \in DOMAIN fill /\ i < kTestBufferBytes THEN fill[b] ELSE m[b][i]
    BY DEF Filled
<1>3. \A b \in DOMAIN fill, i \in 0..(kTestBufferBytes - 1) : Filled(m, fill)[b][i] = fill[b]
    <2>1. \A i \in 0..(kTestBufferBytes - 1) : i \in Places /\ i < kTestBufferBytes
        BY SMT, TestPlaces DEF kTestBufferBytes
    <2> QED  BY Zenon, <1>1, <1>2, <2>1
<1>4. \A b \in Buffers : Filled(m, fill)[b][kTestBufferBytes] = Guard
    <2>1. kTestBufferBytes \in Places /\ ~(kTestBufferBytes < kTestBufferBytes)
        BY SMT, TestPlaces DEF kTestBufferBytes
    <2> QED  BY Zenon, <1>2, <2>1
<1> QED  BY Zenon, <1>3, <1>4 DEF Prepared, fill

\* gf256_self_test writes the guard behind each buffer, and nothing else.
LEMMA GuardsAreSet ==
    ASSUME NEW m \in Memories
    PROVE  /\ \A b \in Buffers : Guarded(m)[b][kTestBufferBytes] = Guard
           /\ (\A b \in Buffers : m[b][kTestBufferBytes] = Guard) => m = Guarded(m)
<1>1. kTestBufferBytes \in Places
    BY TestPlaces
<1>2. \A b \in Buffers : Guarded(m)[b] = [m[b] EXCEPT ![kTestBufferBytes] = Guard]
    BY DEF Guarded
<1>3. \A b \in Buffers : m[b] \in [Places -> Byte]
    BY DEF Memories
<1>4. \A b \in Buffers : Guarded(m)[b][kTestBufferBytes] = Guard
    BY <1>1, <1>2, <1>3
<1>5. ASSUME \A b \in Buffers : m[b][kTestBufferBytes] = Guard
      PROVE  m = Guarded(m)
    <2>1. \A b \in Buffers : Guarded(m)[b] = m[b]
        BY <1>1, <1>2, <1>3, <1>5
    <2>2. m = [b \in Buffers |-> m[b]] /\ Guarded(m) = [b \in Buffers |-> Guarded(m)[b]]
        BY DEF Memories, Guarded
    <2> QED  BY <2>1, <2>2
<1> QED  BY <1>4, <1>5

\* The sums and products the test compares, whichever way round.
LEMMA TestedSums ==
    ASSUME "MUL" \in filled
    PROVE  /\ Xor(31, Xor(247, 113)) = Xor(Xor(31, 247), 113)
           /\ Xor(255, FieldProduct(170, 108)) = Xor(Product("MUL", 170, 108), 255)
           /\ FieldProduct(85, 162) = Product("MUL", 162, 85)
<1>1. /\ 31 \in Byte /\ 247 \in Byte /\ 113 \in Byte /\ 255 \in Byte /\ 170 \in Byte
      /\ 108 \in Byte /\ 85 \in Byte /\ 162 \in Byte
    BY SMT DEF Byte
<1>2. ASSUME NEW x \in Byte, NEW y \in Byte, NEW z \in Byte
      PROVE  Xor(x, Xor(y, z)) = Xor(Xor(x, y), z) /\ Xor(x, y) = Xor(y, x)
    <2>1. /\ XorByDigits(x, y) \in Byte /\ XorByDigits(y, z) \in Byte
          /\ XorByDigits(x, y) = XorByDigits(y, x)
          /\ XorByDigits(x, XorByDigits(y, z)) = XorByDigits(XorByDigits(x, y), z)
        <3>1. XorByDigits(x, y) \in Byte /\ XorByDigits(y, z) \in Byte
            BY Zenon, XorClosed
        <3>2. XorByDigits(x, y) = XorByDigits(y, x)
            BY Zenon, XorCommutes
        <3>3. XorByDigits(x, XorByDigits(y, z)) = XorByDigits(XorByDigits(x, y), z)
            BY Zenon, XorAssociates
        <3> QED  BY Zenon, <3>1, <3>2, <3>3
    <2>2. Xor(x, y) = XorByDigits(x, y) /\ Xor(y, z) = XorByDigits(y, z) /\ Xor(y, x) = XorByDigits(y, x)
        BY Zenon, XorIsXor
    <2>3. /\ Xor(x, XorByDigits(y, z)) = XorByDigits(x, XorByDigits(y, z))
          /\ Xor(XorByDigits(x, y), z) = XorByDigits(XorByDigits(x, y), z)
        BY Zenon, <2>1, XorIsXor
    <2> QED  BY ONLY <2>1, <2>2, <2>3
<1>3. ASSUME NEW x \in Byte, NEW y \in Byte
      PROVE  Product("MUL", x, y) = FieldProduct(y, x) /\ FieldProduct(y, x) \in Byte
             /\ Product("MUL", x, y) = FieldProduct(x, y)
    <2>1. gf256_mul(x, y) = FieldProduct(x, y) /\ FieldProduct(x, y) = FieldProduct(y, x)
        BY Zenon, ProductByLogs
    <2>2. FieldProduct(y, x) \in Byte
        BY Zenon, FieldFacts
    <2> QED  BY <2>1, <2>2 DEF Product
<1>4. Xor(31, Xor(247, 113)) = Xor(Xor(31, 247), 113)
    BY SMT, <1>1, <1>2
<1>5. FieldProduct(85, 162) = Product("MUL", 162, 85)
    BY SMT, <1>1, <1>3
<1>6. Product("MUL", 170, 108) = FieldProduct(170, 108) /\ FieldProduct(170, 108) \in Byte
    <2>1. Product("MUL", 170, 108) = FieldProduct(170, 108) /\ FieldProduct(108, 170) = FieldProduct(170, 108)
        BY SMT, <1>1, <1>3
    <2> QED  BY SMT, <1>1, <1>3, <2>1
<1>7. Xor(255, FieldProduct(170, 108)) = Xor(FieldProduct(170, 108), 255)
    <2> DEFINE p == FieldProduct(170, 108)
    <2>1. p \in Byte
        BY <1>6
    <2> HIDE DEF p
    <2>2. Xor(255, p) = Xor(p, 255)
        BY SMT, <1>1, <1>2, <2>1
    <2> QED  BY <2>2 DEF p
<1> QED  BY <1>4, <1>5, <1>6, <1>7

\* Every part of the test finds in A what it expects.
LEMMA TestIsPassed ==
    ASSUME "MUL" \in filled, NEW k \in 1..5, NEW m \in Memories, Prepared(k, m)
    PROVE  LET after == Abstract!Treated(m, SelfTest(k).r, kTestBufferBytes)
           IN  /\ after \in Memories
               /\ \A b \in Buffers : after[b][kTestBufferBytes] = Guard
               /\ \A i \in 0..(kTestBufferBytes - 1) : after["A"][i] = SelfTest(k).expected
<1> DEFINE r == SelfTest(k).r
           after == Abstract!Treated(m, r, kTestBufferBytes)
<1>1. r \in Abstract!Requests
    BY SelfTestFacts
<1> HIDE DEF r
<1>2. /\ after \in Memories
      /\ \A b \in Buffers, i \in Places :
             after[b][i] = IF i >= kTestBufferBytes THEN m[b][i] ELSE PlaceTreated(m, r, b, i)
    BY Zenon, <1>1, TestPlaces, TreatedAt
<1> HIDE DEF after
<1>3. \A b \in Buffers : after[b][kTestBufferBytes] = Guard
    BY Zenon, <1>2, TestPlaces DEF Prepared
<1>4. ASSUME NEW i \in 0..(kTestBufferBytes - 1)
      PROVE  after["A"][i] = SelfTest(k).expected
    <2>1. after["A"][i] = PlaceTreated(m, r, "A", i)
        <3>1. "A" \in Buffers
            BY DEF Buffers
        <3> QED  BY Zenon, <1>2, <3>1, TestPlaces
    <2>2. \A b \in DOMAIN SelfTest(k).fill : m[b][i] = SelfTest(k).fill[b]
        BY Zenon DEF Prepared
    <2>3. CASE k = 1
        <3>1. m["A"][i] = 31 /\ m["B"][i] = 247
            BY SMT, <2>2, <2>3, TestsAre
        <3>2. PlaceTreated(m, r, "A", i) = Xor(m["A"][i], m["B"][i])
            BY SMT, <2>3, TestsAre DEF r, PlaceTreated, Abstract!Value, Operation
        <3> QED  BY SMT, <2>1, <2>3, <3>1, <3>2, TestsAre
    <2>4. CASE k = 2
        <3>1. m["A"][i] = 31 /\ m["B"][i] = 247 /\ m["C"][i] = 113
            BY SMT, <2>2, <2>4, TestsAre
        <3>2. PlaceTreated(m, r, "A", i) = Xor(m["A"][i], Xor(m["B"][i], m["C"][i]))
            BY SMT, <2>4, TestsAre DEF r, PlaceTreated, Abstract!Value, Operation
        <3> QED  BY SMT, <2>1, <2>4, <3>1, <3>2, TestsAre, TestedSums
    <2>5. CASE k = 3
        <3>1. m["B"][i] = 170 /\ m["C"][i] = 108
            BY SMT, <2>2, <2>5, TestsAre
        <3>2. PlaceTreated(m, r, "A", i) = Xor(m["B"][i], m["C"][i])
            BY SMT, <2>5, TestsAre DEF r, PlaceTreated, Abstract!Value, Operation
        <3> QED  BY SMT, <2>1, <2>5, <3>1, <3>2, TestsAre
    <2>6. CASE k = 4
        <3>1. m["A"][i] = 255 /\ m["B"][i] = 170
            BY SMT, <2>2, <2>6, TestsAre
        <3>2. PlaceTreated(m, r, "A", i) = Xor(m["A"][i], FieldProduct(m["B"][i], 108))
            BY SMT, <2>6, TestsAre DEF r, PlaceTreated, Abstract!Value, Operation
        <3> QED  BY SMT, <2>1, <2>6, <3>1, <3>2, TestsAre, TestedSums
    <2>7. CASE k = 5
        <3>1. m["B"][i] = 85
            BY SMT, <2>2, <2>7, TestsAre
        <3>2. PlaceTreated(m, r, "A", i) = FieldProduct(m["B"][i], 162)
            BY SMT, <2>7, TestsAre DEF r, PlaceTreated, Abstract!Value, Operation
        <3> QED  BY SMT, <2>1, <2>7, <3>1, <3>2, TestsAre, TestedSums
    <2>8. k = 1 \/ k = 2 \/ k = 3 \/ k = 4 \/ k = 5
        BY SMT
    <2> QED  BY Zenon, <2>3, <2>4, <2>5, <2>6, <2>7, <2>8
<1> QED  BY Zenon, <1>2, <1>3, <1>4 DEF after, r

\* The test goes on, or is over with status 0.
LEMMA CheckTestPasses ==
    ASSUME IInv, TestInv, CheckTest
    PROVE  TestInv'
<1>1. /\ call = Idle /\ test \in 1..5 /\ "MUL" \in filled /\ before \in Memories
      /\ mem \in Memories /\ status # -3
    BY DEF CheckTest, IInv, TablesInv, MemoryInv, TablesWritten, TestInv
<1>2. /\ Prepared(test, before)
      /\ mem = Abstract!Treated(before, SelfTest(test).r, kTestBufferBytes)
    BY <1>1 DEF TestInv
<1>3. /\ \A b \in Buffers : mem[b][kTestBufferBytes] = Guard
      /\ \A i \in 0..(kTestBufferBytes - 1) : mem["A"][i] = SelfTest(test).expected
    BY Zenon, <1>1, <1>2, TestIsPassed
<1>4. mem = Guarded(mem)
    BY Zenon, <1>1, <1>3, GuardsAreSet
<1>5. CASE test < 5
    <2>1. /\ test' = test + 1 /\ status' = status
          /\ mem' = Filled(mem, SelfTest(test + 1).fill)
          /\ Begin(SelfTest(test + 1).r, cpu)
        BY <1>3, <1>5 DEF CheckTest
    <2>2. PICK k \in 1..5 : k = test + 1
        BY SMT, <1>1, <1>5
    <2>3. call' = SelfTest(k).r /\ before' = Filled(mem, SelfTest(k).fill) /\ test' = k
        BY <2>1, <2>2 DEF Begin
    <2>4. Prepared(k, before')
        BY Zenon, <1>1, <1>3, <2>3, FillingPrepares
    <2>5. SelfTest(k).r' = SelfTest(k).r /\ SelfTest(k).fill' = SelfTest(k).fill
        BY TestsStay
    <2>6. Prepared(test, before)'
        BY <2>3, <2>4, <2>5 DEF Prepared
    <2>7. call' # Idle /\ Idle' = Idle
        BY <2>3, SelfTestFacts, RequestFacts DEF Idle, Abstract!Idle
    <2> QED  BY <1>1, <2>1, <2>3, <2>5, <2>6, <2>7 DEF TestInv
<1>6. CASE ~(test < 5)
    <2>1. test' = 0 /\ status' = 0
        BY <1>3, <1>4, <1>6 DEF CheckTest
    <2> QED  BY <2>1 DEF TestInv
<1> QED  BY <1>5, <1>6

\* The test starts, for multiplication passed its own.
LEMMA gf256_init_Passes ==
    ASSUME IInv, TestInv, NEW version, gf256_init_(version)
    PROVE  TestInv'
<1>1. test = 0 /\ status # -3 /\ mem \in Memories
    BY DEF gf256_init_, ClientTurn, TestInv, IInv, MemoryInv
<1>2. CASE test' = 0 /\ status' \in {0, -1, -2}
    BY <1>2 DEF TestInv
<1>3. CASE FirstInit /\ IsExpectedEndian
    <2>1. /\ test' = 1 /\ status' = status
          /\ mem' = Filled(Guarded(mem), SelfTest(1).fill)
          /\ Begin(SelfTest(1).r, cpu')
        BY <1>3, MultiplicationTestIs DEF FirstInit
    <2>2. call' = SelfTest(1).r /\ before' = Filled(Guarded(mem), SelfTest(1).fill) /\ 1 \in 1..5
        BY <2>1 DEF Begin
    <2>3. Guarded(mem) \in Memories /\ \A b \in Buffers : Guarded(mem)[b][kTestBufferBytes] = Guard
        BY Zenon, <1>1, <2>2, FilledIsMemory, GuardsAreSet
    <2>4. Prepared(1, before')
        BY Zenon, <2>2, <2>3, FillingPrepares
    <2>5. SelfTest(1).r' = SelfTest(1).r /\ SelfTest(1).fill' = SelfTest(1).fill
        BY <2>2, TestsStay
    <2>6. Prepared(test, before)'
        BY <2>1, <2>4, <2>5 DEF Prepared
    <2>7. call' # Idle /\ Idle' = Idle
        BY <2>2, SelfTestFacts, RequestFacts DEF Idle, Abstract!Idle
    <2> QED  BY <1>1, <2>1, <2>2, <2>5, <2>6, <2>7 DEF TestInv
<1>4. CASE FirstInit /\ ~IsExpectedEndian
    BY <1>1, <1>2, <1>4 DEF FirstInit
<1> QED  BY <1>1, <1>2, <1>3, <1>4 DEF gf256_init_

\* A step of an operation of the test that does not return leaves it under way; one
\* that returns leaves what it promised.
LEMMA TestGoesOn ==
    ASSUME IInv, TestInv, Running,
           \/ call' = call
           \/ call' = Idle /\ mem' = Abstract!Treated(before, call, call.bytes)
    PROVE  TestInv'
<1>1. /\ call # Idle /\ test' = test /\ status' = status /\ before' = before
      /\ test \in 0..5 /\ status # -3 /\ Idle' = Idle
    BY DEF Running, IInv, TablesInv, TestInv, Idle, Abstract!Idle
<1>2. CASE test = 0
    BY <1>1, <1>2 DEF TestInv
<1>3. CASE test # 0
    <2>1. PICK k \in 1..5 : k = test
        BY SMT, <1>1, <1>3
    <2>2. call = SelfTest(k).r /\ Prepared(k, before)
        BY <1>1, <1>3, <2>1 DEF TestInv
    <2>3. SelfTest(k).r' = SelfTest(k).r /\ SelfTest(k).fill' = SelfTest(k).fill
        BY TestsStay
    <2>4. Prepared(test, before)'
        BY <1>1, <2>1, <2>2, <2>3 DEF Prepared
    <2>5. call.bytes = kTestBufferBytes
        BY <2>2, TestRequests
    <2>6. SelfTest(test).r' = SelfTest(k).r
        BY <1>1, <2>1, <2>3
    <2> QED  BY <1>1, <2>1, <2>2, <2>4, <2>5, <2>6 DEF TestInv
<1> QED  BY <1>2, <1>3

\* On every host whose byte order was announced the self test passes: what the
\* tables and the loops make of its buffers is what it expects, and nothing is
\* written behind them.
THEOREM TheSelfTestPasses == Spec => []SelfTestPasses
<1>1. Init => TestInv
    BY DEF Init, NotCalled, TestInv
<1>2. ASSUME IInv, TestInv, [Next]_vars
      PROVE  TestInv'
    <2>1. CASE Call
        <3>1. test' = 0 /\ status' = status
            BY <2>1 DEF Call, ClientTurn
        <3> QED  BY <1>2, <3>1 DEF TestInv
    <2>2. CASE ShortcutTaken
        <3>1. mem' = Abstract!Treated(before, call, call.bytes) /\ Running /\ call' = Idle
            BY <1>2, <2>2, ShortcutPreserves DEF ShortcutTaken, Running, Return
        <3> QED  BY <1>2, <3>1, TestGoesOn
    <2>3. CASE FinishTail
        <3>1. mem' = Abstract!Treated(before, call, call.bytes) /\ Running /\ call' = Idle
            BY <1>2, <2>3, FinishPreserves DEF FinishTail, Running, Return
        <3> QED  BY <1>2, <3>1, TestGoesOn
    <2>4. CASE Pass \/ LeaveLoop
        <3>1. Running /\ call' = call
            BY <2>4 DEF Pass, LeaveLoop
        <3> QED  BY <1>2, <3>1, TestGoesOn
    <2>5. CASE UNCHANGED vars
        <3>1. /\ test' = test /\ status' = status /\ call' = call /\ before' = before /\ mem' = mem
              /\ test \in 0..5 /\ status # -3 /\ Idle' = Idle
            BY <1>2, <2>5 DEF vars, contextVars, IInv, TablesInv, TestInv, Idle, Abstract!Idle
        <3>2. CASE test = 0
            BY <3>1, <3>2 DEF TestInv
        <3>3. CASE test # 0
            <4>1. PICK k \in 1..5 : k = test
                BY SMT, <3>1, <3>3
            <4>2. SelfTest(k).r' = SelfTest(k).r /\ SelfTest(k).fill' = SelfTest(k).fill
                BY TestsStay
            <4>3. SelfTest(test).r' = SelfTest(test).r /\ SelfTest(test).fill' = SelfTest(test).fill
                BY <3>1, <4>1, <4>2
            <4>4. Prepared(test, before)'
                BY <1>2, <3>1, <3>3, <4>3 DEF TestInv, Prepared
            <4> QED  BY <1>2, <3>1, <3>3, <4>3, <4>4 DEF TestInv
        <3> QED  BY <3>2, <3>3
    <2> QED  BY <1>2, <2>1, <2>2, <2>3, <2>4, <2>5, gf256_init_Passes, CheckTestPasses DEF Next, Work
<1>3. TestInv => SelfTestPasses
    BY DEF TestInv, SelfTestPasses
<1>4. Spec => []IInv
    BY Invariant
<1> QED  BY PTL, <1>1, <1>2, <1>3, <1>4 DEF Spec

-----------------------------------------------------------------------------
(* The tables                                                                *)

\* The tables gf256_init_ writes are those of the field of polynomials modulo the
\* chosen one, every product, quotient, inverse and square of them, and each of
\* the sixteen polynomials it can choose generates all elements but zero.
THEOREM TablesAreOfAField == Spec => TablesAreAField
<1>1. ProductsAgree /\ QuotientsAgree /\ UnitsAgree /\ PrimitivePolynomials = 0..15
    BY Zenon, TablesAreRight, AllArePrimitive
<1>2. ASSUME TRUE
      PROVE  [filled' # filled => ProductsAgree /\ QuotientsAgree /\ UnitsAgree
                                  /\ PrimitivePolynomials = 0..15]_filled
    BY Zenon, <1>1
<1> QED  BY PTL, <1>2 DEF TablesAreAField

\* Any two rows of the Cauchy matrix recover any two lost columns.
THEOREM CauchyAlwaysRecovers == Spec => CauchyRecovers
<1>1. [filled' # filled => PairsRecovered]_filled
    BY Zenon, PairsAreRecovered
<1> QED  BY PTL, <1>1 DEF CauchyRecovers
=============================================================================
