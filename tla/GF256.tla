--------------------------------- MODULE GF256 ---------------------------------
(***************************************************************************)
(* The field of 256 elements of gf256.h / gf256.cpp: the tables that       *)
(* gf256_init_ computes, the operations on single elements that read them, *)
(* the elements of the Cauchy matrix (SiameseCommon.h), and the field      *)
(* itself, multiplication of polynomials over GF(2), to compare them with. *)
(*                                                                         *)
(* A table is a sequence: entry i of the code is the element i + 1, and the *)
(* two-dimensional ones, stored row after row, are sequences of rows.      *)
(***************************************************************************)
EXTENDS Integers, Sequences, FiniteSets, FiniteSetsExt, SequencesExt

GF256_VERSION == 2

Byte == 0..255

Bit(b, i) == (b \div 2^i) % 2

\* The sequence with its elements computed.
Tabulated(s) == s \o <<>>

XorDigit == <<<<0, 1, 2, 3>>, <<1, 0, 3, 2>>, <<2, 3, 0, 1>>, <<3, 2, 1, 0>>>>

\* x ^ y of two bytes, by their digits to base 4.
XorByDigits(x, y) ==
    LET d(unit) == unit * XorDigit[((x \div unit) % 4) + 1][((y \div unit) % 4) + 1]
    IN  d(1) + d(4) + d(16) + d(64)

XorTable == Tabulated([i \in 1..256 |-> Tabulated([j \in 1..256 |-> XorByDigits(i - 1, j - 1)])])

\* The same, looked up.
Xor(x, y) == XorTable[x + 1][y + 1]

gf256_add(x, y) == Xor(x, y)

-----------------------------------------------------------------------------
(* Generator polynomials.  The byte is the polynomial without its lowest     *)
(* term, shifted down; all of them have the term x^8.                        *)

GF256_GEN_POLY ==
    <<142, 149, 150, 166, 175, 177, 178, 180,
      184, 195, 198, 212, 225, 231, 243, 250>>

kDefaultPolynomialIndex == 3

gf256_poly_init(polynomialIndex) ==
    LET index == IF polynomialIndex \in 0..15 THEN polynomialIndex
                                              ELSE kDefaultPolynomialIndex
    IN  GF256_GEN_POLY[index + 1] * 2 + 1

Polynomial == gf256_poly_init(kDefaultPolynomialIndex)

\* Multiplication by x modulo a polynomial; the terms x^8 cancel.
Double(x, poly) ==
    LET next == x * 2
    IN  IF next >= 256 THEN XorByDigits(next % 256, poly % 256) ELSE next

-----------------------------------------------------------------------------
(* Logarithms and powers of the generator.                                   *)

Doubles(poly) == Tabulated([i \in 1..256 |-> Double(i - 1, poly)])

\* The first 256 powers of the generator: round k doubles the ones there are 2^k
\* times each.
PowersInRounds(poly) ==
    LET round[k \in 0..8] ==
            IF k = 0 THEN [powers |-> <<1>>, step |-> Doubles(poly)]
            ELSE LET last == round[k - 1]
                 IN  [powers |-> last.powers \o [i \in 1..Len(last.powers) |->
                                                    last.step[last.powers[i] + 1]],
                      step |-> Tabulated([i \in 1..256 |-> last.step[last.step[i] + 1]])]
    IN  round[8].powers

\* Mutant of Powers: the last power is left out.
PowersOneShort(poly) == SubSeq(PowersInRounds(poly), 1, 254) \o <<0>>

\* The powers 0 to 254 of the generator.
Powers(poly) == SubSeq(PowersInRounds(poly), 1, 255)

GF256_EXP_TABLE ==
    LET powers == Powers(Polynomial)
    IN  powers \o powers \o <<1>> \o [i \in 1..514 |-> 0]

\* The last power written at x stands; 0 gets a value no product uses.
GF256_LOG_TABLE ==
    LET powers == Powers(Polynomial)
    IN  <<512, 255>> \o [i \in 1..254 |-> Max({j \in 1..254 : powers[j + 1] = i + 1} \cup {0})]

-----------------------------------------------------------------------------
(* Products, quotients, inverses and squares.                                *)

ZeroRow == [i \in 1..256 |-> 0]

GF256_MUL_TABLE ==
    LET exp == GF256_EXP_TABLE
        log == GF256_LOG_TABLE
        log_y(y) == log[y + 1] % 256
        row(y) == <<0>> \o [x \in 1..255 |-> exp[log[x + 1] + log_y(y) + 1]]
    IN  <<ZeroRow>> \o [y \in 1..255 |-> row(y)]

GF256_DIV_TABLE ==
    LET exp == GF256_EXP_TABLE
        log == GF256_LOG_TABLE
        log_yn(y) == 255 - (log[y + 1] % 256)
        row(y) == <<0>> \o [x \in 1..255 |-> exp[log[x + 1] + log_yn(y) + 1]]
    IN  <<ZeroRow>> \o [y \in 1..255 |-> row(y)]

gf256_mul(x, y) == GF256_MUL_TABLE[y + 1][x + 1]
gf256_div(x, y) == GF256_DIV_TABLE[y + 1][x + 1]

GF256_INV_TABLE == LET div == GF256_DIV_TABLE IN Tabulated([i \in 1..256 |-> div[i][2]])
GF256_SQR_TABLE == LET mul == GF256_MUL_TABLE IN Tabulated([i \in 1..256 |-> mul[i][i]])

gf256_inv(x) == GF256_INV_TABLE[x + 1]
gf256_sqr(x) == GF256_SQR_TABLE[x + 1]

\* Mutant of TABLE_HI_Y: the high half is not shifted back up.
HighTableUnshifted ==
    LET mul == GF256_MUL_TABLE
    IN  Tabulated([i \in 1..256 |-> Tabulated([n \in 1..16 |-> mul[i][n]])])

\* Partial products of the two halves of a byte, for the vector instructions.
TABLE_LO_Y ==
    LET mul == GF256_MUL_TABLE
    IN  Tabulated([i \in 1..256 |-> Tabulated([n \in 1..16 |-> mul[i][n]])])
TABLE_HI_Y ==
    LET mul == GF256_MUL_TABLE
    IN  Tabulated([i \in 1..256 |-> Tabulated([n \in 1..16 |-> mul[i][(n - 1) * 16 + 1]])])

\* One lane of a vector multiplication: two shuffles and an exclusive or.
NibbleProduct(x, y) ==
    Xor(TABLE_LO_Y[y + 1][(x % 16) + 1], TABLE_HI_Y[y + 1][(x \div 16) + 1])

\* The part of the self test that looks at single elements.
MultiplicationTest ==
    \A i, j \in Byte :
        LET product == gf256_mul(i, j)
        IN  /\ i # 0 /\ j # 0 => /\ gf256_div(product, i) = j
                                /\ gf256_div(product, j) = i
            /\ i = 0 \/ j = 0 => product = 0
            /\ j = 1 => product = i

-----------------------------------------------------------------------------
(* The Cauchy matrix of short codes.                                         *)

kCauchyMaxColumns == 64
kCauchyMaxRows == 256 - kCauchyMaxColumns

\* Mutant of CauchyElement: the rows are not numbered behind the columns.
CauchyElementOverlapping(row, column) == gf256_inv(Xor(row, column))

CauchyElement(row, column) == gf256_inv(Xor(row + kCauchyMaxColumns, column))

-----------------------------------------------------------------------------
(* The field                                                                 *)

\* The product of two polynomials over GF(2) modulo Polynomial, by Horner's rule.
FieldProducts ==
    LET product(x, y) ==
            FoldLeft(LAMBDA sum, i : XorByDigits(Double(sum, Polynomial),
                                                 IF Bit(y, 8 - i) = 1 THEN x ELSE 0),
                     0, <<1, 2, 3, 4, 5, 6, 7, 8>>)
    IN  Tabulated([y \in 1..256 |-> Tabulated([x \in 1..256 |-> product(x - 1, y - 1)])])
FieldProduct(x, y) == FieldProducts[y + 1][x + 1]

FieldInverses ==
    LET products == FieldProducts
    IN  Tabulated([i \in 1..256 |->
            IF i = 1 THEN 0 ELSE CHOOSE x \in Byte : products[i][x + 1] = 1])
FieldInverse(x) == FieldInverses[x + 1]

\* There is no quotient by zero; the code answers zero.
FieldQuotient(x, y) == FieldProduct(x, FieldInverse(y))

\* The multiplication table and the half-byte tables the vector code uses agree
\* with multiplication in the field.
ProductsAgree ==
    \A x, y \in Byte :
        /\ Xor(x, y) \in Byte /\ FieldProduct(x, y) \in Byte
        /\ gf256_mul(x, y) = FieldProduct(x, y)
        /\ NibbleProduct(x, y) = FieldProduct(x, y)

\* Division undoes multiplication, and squares and inverses are those of the field.
QuotientsAgree ==
    \A x, y \in Byte :
        /\ y # 0 => gf256_div(FieldProduct(x, y), y) = x
        /\ gf256_div(x, y) = FieldQuotient(x, y)
        /\ gf256_inv(y) = FieldInverse(y)
        /\ gf256_sqr(x) = FieldProduct(x, x)

\* The cases gf256_mul_mem and gf256_muladd_mem leave to memset, memcpy and
\* gf256_add_mem.
UnitsAgree ==
    \A x \in Byte :
        /\ FieldProduct(x, 0) = 0 /\ FieldProduct(x, 1) = x
        /\ Xor(x, 0) = x
        /\ FieldInverse(x) \in Byte
        /\ FieldInverse(1) = 1

\* The polynomials of the list for which the powers of the generator are all the
\* elements but zero.
PrimitivePolynomials ==
    {index \in 0..15 : Range(Powers(gf256_poly_init(index))) = Byte \ {0}}

\* Between two columns of the Cauchy matrix no ratio occurs in two rows, and
\* no element is zero: every two by two submatrix can be inverted.
PairsRecovered ==
    LET ratio(row, j, k) == gf256_div(CauchyElement(row, j), CauchyElement(row, k))
        ratios(j, k) == {ratio(row, j, k) : row \in 0..(kCauchyMaxRows - 1)}
    IN  \A j, k \in 0..(kCauchyMaxColumns - 1) :
            j < k => Cardinality(ratios(j, k) \ {0}) = kCauchyMaxRows
=============================================================================
