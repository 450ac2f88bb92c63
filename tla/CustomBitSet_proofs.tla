------------------------- MODULE CustomBitSet_proofs -------------------------
(***************************************************************************)
(* Proofs about CustomBitSet, for words of every width and masks of every  *)
(* length: the operations on ranges, the searches, the count and the scan  *)
(* of Allocate do to the set of bits what their comments say.              *)
(***************************************************************************)
EXTENDS CustomBitSet, FiniteSetTheorems, WellFoundedInduction, TLAPS

-----------------------------------------------------------------------------
(* Bits and words *)

\* A bit is in a word at an offset.
LEMMA WordAndOffset ==
    ASSUME NEW n \in Nat
    PROVE  /\ n \div kWordBits \in Nat /\ n % kWordBits \in kAllOnes
           /\ n = (n \div kWordBits) * kWordBits + (n % kWordBits)
<1>1. kWordBits \in Nat /\ kWordBits > 0
  BY WordAssumption
<1> QED BY <1>1, SMTT(30) DEF kAllOnes

\* A word that comes before another ends before that one starts.
LEMMA WordsInOrder ==
    ASSUME NEW i \in Nat, NEW j \in Nat
    PROVE  /\ i * kWordBits \in Nat
           /\ i < j => i * kWordBits + kWordBits <= j * kWordBits
           /\ (i + 1) * kWordBits = i * kWordBits + kWordBits
<1>1. kWordBits \in Nat /\ kWordBits > 0
  BY WordAssumption
<1>2. i * kWordBits \in Nat
  BY <1>1
<1>3. (i + 1) * kWordBits = i * kWordBits + kWordBits
  BY <1>1
<1>4. ASSUME i < j PROVE i * kWordBits + kWordBits <= j * kWordBits
  <2> DEFINE d == j - (i + 1)
  <2>1. d \in Nat /\ j = (i + 1) + d
    BY <1>4
  <2> HIDE DEF d
  <2>2. j * kWordBits = (i + 1) * kWordBits + d * kWordBits /\ d * kWordBits \in Nat
    BY <1>1, <2>1
  <2> QED BY <1>1, <1>2, <1>3, <2>2
<1> QED BY <1>2, <1>3, <1>4

\* And the offset in the word determines the bit.
LEMMA BitInWord ==
    ASSUME NEW i \in Nat, NEW b \in kAllOnes
    PROVE  /\ i * kWordBits + b \in Nat
           /\ (i * kWordBits + b) \div kWordBits = i
           /\ (i * kWordBits + b) % kWordBits = b
<1> DEFINE n == i * kWordBits + b
           w == n \div kWordBits
           o == n % kWordBits
<1>1. kWordBits \in Nat /\ kWordBits > 0 /\ b \in Nat /\ b < kWordBits
  BY WordAssumption DEF kAllOnes
<1>2. i * kWordBits \in Nat
  BY WordsInOrder
<1>3. n \in Nat
  BY <1>1, <1>2
<1>4. w \in Nat /\ o \in Nat /\ o < kWordBits /\ n = w * kWordBits + o
  <2> HIDE DEF n
  <2> QED BY <1>3, <1>1, WordAndOffset DEF kAllOnes
<1>5. w * kWordBits \in Nat
  BY <1>4, WordsInOrder
<1>6. /\ w < i => w * kWordBits + kWordBits <= i * kWordBits
      /\ i < w => i * kWordBits + kWordBits <= w * kWordBits
  <2> HIDE DEF w
  <2> QED BY <1>4, WordsInOrder
<1>7. n = i * kWordBits + b
  OBVIOUS
<1> HIDE DEF n, w, o
<1>8. w = i
  BY <1>1, <1>2, <1>4, <1>5, <1>6, <1>7
<1>9. o = b
  BY <1>1, <1>2, <1>4, <1>7, <1>8
<1> QED BY <1>3, <1>8, <1>9 DEF n, w, o

-----------------------------------------------------------------------------
(* Arrays of words *)

WordArrays == [0..(kWords - 1) -> SUBSET kAllOnes]

\* The words are as many as the valid bits need.
LEMMA EnoughWords ==
    /\ kWords \in Nat /\ kWords * kWordBits \in Nat
    /\ kValidBits <= kWords * kWordBits
    /\ kWords * kWordBits < kValidBits + kWordBits
<1> DEFINE n == kValidBits + kWordBits - 1
<1>1. /\ kWordBits \in Nat /\ kWordBits > 0 /\ kValidBits \in Nat /\ n \in Nat
      /\ n = kValidBits + kWordBits - 1
  BY WordAssumption, SizeAssumption
<1> HIDE DEF n
<1>2. /\ n \div kWordBits \in Nat /\ n % kWordBits \in 0..(kWordBits - 1)
      /\ n = (n \div kWordBits) * kWordBits + (n % kWordBits)
  BY <1>1, WordAndOffset DEF kAllOnes
<1> DEFINE w == n \div kWordBits
<1>3. w * kWordBits \in Nat
  BY <1>2, WordsInOrder
<1>4. kWords = w
  BY DEF kWords, n
<1>5. n = w * kWordBits + (n % kWordBits)
  BY <1>2
<1> HIDE DEF w
<1> DEFINE p == w * kWordBits
           o == n % kWordBits
<1>6. p \in Nat /\ o \in 0..(kWordBits - 1) /\ n = p + o
  BY Zenon, <1>2, <1>3, <1>5
<1>7. kWords * kWordBits = p /\ kWords \in Nat
  BY <1>2, <1>4 DEF w
<1> HIDE DEF p, o
<1> QED BY <1>1, <1>6, <1>7

\* A bit of an array is a bit of its word.
LEMMA BitOfWord ==
    ASSUME NEW words \in WordArrays, NEW n \in Nat
    PROVE  n \in BitsOf(words) <=>
              n \div kWordBits \in 0..(kWords - 1) /\ n % kWordBits \in words[n \div kWordBits]
<1> DEFINE D == 0..(kWords - 1)
<1>1. DOMAIN words = D /\ \A i \in D : words[i] \in SUBSET kAllOnes /\ i \in Nat
  BY EnoughWords DEF WordArrays
<1>2. n \in BitsOf(words) <=> \E i \in D : \E b \in words[i] : n = i * kWordBits + b
  BY <1>1 DEF BitsOf
<1>3. ASSUME NEW i \in D, NEW b \in words[i], n = i * kWordBits + b
      PROVE  n \div kWordBits = i /\ n % kWordBits = b
  BY <1>1, <1>3, BitInWord
<1>4. n = (n \div kWordBits) * kWordBits + (n % kWordBits)
  BY WordAndOffset
<1> DEFINE i == n \div kWordBits
           b == n % kWordBits
<1>5. (\E j \in D : \E c \in words[j] : n = j * kWordBits + c) => i \in D /\ b \in words[i]
  BY Zenon, <1>3
<1>6. i \in D /\ b \in words[i] => \E j \in D : \E c \in words[j] : n = j * kWordBits + c
  BY Zenon, <1>4
<1> QED BY Zenon, <1>2, <1>5, <1>6

LEMMA BitsOfAreNatural ==
    ASSUME NEW words \in WordArrays
    PROVE  \A n \in BitsOf(words) : n \in Nat /\ n < kWords * kWordBits
<1> SUFFICES ASSUME NEW n \in BitsOf(words) PROVE n \in Nat /\ n < kWords * kWordBits
  OBVIOUS
<1>1. PICK i \in 0..(kWords - 1) : \E b \in words[i] : n = i * kWordBits + b
  BY DEF BitsOf, WordArrays
<1>2. PICK b \in words[i] : n = i * kWordBits + b
  BY <1>1
<1>3. b \in kAllOnes /\ i \in Nat /\ i < kWords
  BY EnoughWords DEF WordArrays
<1>4. i * kWordBits + kWordBits <= kWords * kWordBits
  BY <1>3, EnoughWords, WordsInOrder
<1>5. i * kWordBits \in Nat
  BY <1>3, WordsInOrder
<1>6. b \in Nat /\ b < kWordBits
  BY <1>3, WordAssumption DEF kAllOnes
<1> QED BY <1>2, <1>4, <1>5, <1>6, EnoughWords, WordAssumption

-----------------------------------------------------------------------------
(* Ranges *)

\* The bits of a shifted word.
LEMMA ShiftedBits ==
    ASSUME NEW word \in SUBSET Nat, NEW n \in Nat, NEW b \in kAllOnes
    PROVE  /\ b \in Shl(word, n) <=> b - n \in word
           /\ b \in Shr(word, n) <=> b + n \in word
<1>1. b \in Nat
  BY DEF kAllOnes
<1>2. b \in Shl(word, n) <=> \E c \in word : b = c + n
  BY DEF Shl
<1>3. b \in Shr(word, n) <=> \E c \in word : b = c - n
  BY DEF Shr
<1>4. \A c \in word : (b = c + n <=> c = b - n) /\ (b = c - n <=> c = b + n)
  BY <1>1
<1> QED BY Zenon, <1>2, <1>3, <1>4

\* The mask of a range has the bits of the range that are in the word.
LEMMA MaskOfRange ==
    ASSUME NEW i \in Nat, NEW b \in kAllOnes, NEW s \in Nat, NEW e \in Nat, s < e
    PROVE  b \in RangeMask(i, s, e) <=> s <= i * kWordBits + b /\ i * kWordBits + b < e
<1> DEFINE ws == s \div kWordBits
           we == e \div kWordBits
           fs == s % kWordBits
           fe == e % kWordBits
           pi == i * kWordBits
           ps == ws * kWordBits
           pe == we * kWordBits
<1>1. kWordBits \in Nat /\ kWordBits > 0 /\ kAllOnes = 0..(kWordBits - 1)
  BY WordAssumption DEF kAllOnes
<1>2. /\ ws \in Nat /\ fs \in kAllOnes /\ s = ps + fs
      /\ we \in Nat /\ fe \in kAllOnes /\ e = pe + fe
  BY Zenon, WordAndOffset
<1>3. /\ pi \in Nat /\ ps \in Nat /\ pe \in Nat
      /\ i < ws => pi + kWordBits <= ps
      /\ ws < i => ps + kWordBits <= pi
      /\ i < we => pi + kWordBits <= pe
      /\ we < i => pe + kWordBits <= pi
      /\ we < ws => pe + kWordBits <= ps
      /\ ws < we => ps + kWordBits <= pe
  BY Zenon, <1>2, WordsInOrder
<1>4. /\ i = ws => pi = ps
      /\ i = we => pi = pe
      /\ we = ws => pe = ps
  OBVIOUS
<1> DEFINE mask == RangeMask(i, s, e)
<1>12. /\ i = ws => ~(ws < i)
       /\ i < we => i # we
  BY <1>2
<1>5. /\ (i = ws /\ we = ws) => mask = Shl(LowBits(fe - fs), fs)
      /\ (i = ws /\ we # ws) => mask = Shl(kAllOnes, fs)
      /\ (i # ws /\ ws < i /\ i < we) => mask = kAllOnes
      /\ (i # ws /\ ~(ws < i /\ i < we) /\ i = we /\ we # ws) => mask = LowBits(e - pe)
      /\ (i # ws /\ ~(ws < i /\ i < we) /\ ~(i = we /\ we # ws)) => mask = {}
  <2>1. (i = ws /\ we = ws) => mask = Shl(LowBits(fe - fs), fs)
    BY Zenon, <1>12 DEF RangeMask
  <2>2. (i = ws /\ we # ws) => mask = Shl(kAllOnes, fs)
    BY Zenon, <1>12 DEF RangeMask
  <2>3. (i # ws /\ ws < i /\ i < we) => mask = kAllOnes
    BY Zenon, <1>12 DEF RangeMask
  <2>4. (i # ws /\ ~(ws < i /\ i < we) /\ i = we /\ we # ws) => mask = LowBits(e - pe)
    BY Zenon, <1>12 DEF RangeMask
  <2>5. (i # ws /\ ~(ws < i /\ i < we) /\ ~(i = we /\ we # ws)) => mask = {}
    BY Zenon, <1>12 DEF RangeMask
  <2> QED BY Zenon, <2>1, <2>2, <2>3, <2>4, <2>5
<1> SUFFICES b \in mask <=> s <= pi + b /\ pi + b < e
  OBVIOUS
<1> HIDE DEF ws, we, fs, fe, pi, ps, pe, mask
<1>6. we >= ws
  BY <1>1, <1>2, <1>3
<1>7. CASE i = ws /\ we = ws
  <2>1. fe > fs /\ LowBits(fe - fs) = 0..(fe - fs - 1) /\ LowBits(fe - fs) \in SUBSET Nat
    <3>1. fe > fs
      BY <1>1, <1>2, <1>3, <1>4, <1>7
    <3>2. LowBits(fe - fs) = 0..(fe - fs - 1)
      BY Zenon DEF LowBits
    <3> QED BY <1>1, <1>2, <3>1, <3>2
  <2>2. b \in mask <=> b - fs \in LowBits(fe - fs)
    BY <1>1, <1>2, <1>5, <1>7, <2>1, ShiftedBits
  <2> QED BY <1>1, <1>2, <1>3, <1>4, <1>7, <2>1, <2>2
<1>8. CASE i = ws /\ we # ws
  <2>1. kAllOnes \in SUBSET Nat /\ fs \in Nat
    BY <1>1, <1>2
  <2>2. b \in mask <=> b - fs \in kAllOnes
    BY <1>5, <1>8, <2>1, ShiftedBits
  <2>3. ws < we
    BY <1>2, <1>6, <1>8
  <2> QED BY <1>1, <1>2, <1>3, <1>4, <1>8, <2>2, <2>3
<1>9. CASE i # ws /\ ws < i /\ i < we
  <2>1. b \in mask
    BY <1>5, <1>9
  <2> QED BY <1>1, <1>2, <1>3, <1>9, <2>1
<1>10. CASE i # ws /\ ~(ws < i /\ i < we) /\ i = we /\ we # ws
  <2>1. ws < we
    BY <1>2, <1>6, <1>10
  <2>2. b \in mask <=> b \in 0..(fe - 1)
    <3>1. e - pe = fe
      BY <1>1, <1>2, <1>3
    <3> QED BY Zenon, <1>5, <1>10, <3>1 DEF LowBits
  <2> QED BY <1>1, <1>2, <1>3, <1>4, <1>10, <2>1, <2>2
<1>11. CASE i # ws /\ ~(ws < i /\ i < we) /\ ~(i = we /\ we # ws)
  <2>1. b \notin mask
    BY <1>5, <1>11
  <2>2. i < ws \/ we < i
    BY <1>2, <1>6, <1>11
  <2> QED BY <1>1, <1>2, <1>3, <1>11, <2>1, <2>2
<1> QED BY Zenon, <1>7, <1>8, <1>9, <1>10, <1>11

\* What is in an array whose words have or lose bits of a range.
LEMMA RangesChange ==
    ASSUME NEW words \in WordArrays, NEW s \in Nat, NEW e \in Nat, e <= kValidBits
    PROVE  /\ SetRange(words, s, e) \in WordArrays
           /\ ClearRange(words, s, e) \in WordArrays
           /\ BitsOf(SetRange(words, s, e)) = BitsOf(words) \cup s..(e - 1)
           /\ BitsOf(ClearRange(words, s, e)) = BitsOf(words) \ s..(e - 1)
<1>1. CASE s >= e
  <2>1. SetRange(words, s, e) = words /\ ClearRange(words, s, e) = words
    BY <1>1 DEF SetRange, ClearRange
  <2>2. s..(e - 1) = {}
    BY <1>1
  <2> QED BY Zenon, <2>1, <2>2
<1>2. CASE s < e
  <2> DEFINE D == 0..(kWords - 1)
             mask(i) == RangeMask(i, s, e)
             more == [i \in D |-> words[i] \cup mask(i)]
             less == [i \in D |-> words[i] \ mask(i)]
  <2>1. DOMAIN words = D /\ \A i \in D : words[i] \in SUBSET kAllOnes /\ i \in Nat
    BY EnoughWords DEF WordArrays
  <2>2. SetRange(words, s, e) = more /\ ClearRange(words, s, e) = less
    <3>1. ~(s >= e)
      BY <1>2
    <3> QED BY Zenon, <2>1, <3>1 DEF SetRange, ClearRange
  <2>3. \A i \in D : mask(i) \in SUBSET kAllOnes
    <3> SUFFICES ASSUME NEW i \in D PROVE mask(i) \in SUBSET kAllOnes
      OBVIOUS
    <3>1. \A w, n : Shl(w, n) \in SUBSET kAllOnes
      BY DEF Shl
    <3>2. e - (e \div kWordBits) * kWordBits = e % kWordBits
      <4>1. /\ e = (e \div kWordBits) * kWordBits + (e % kWordBits)
            /\ (e \div kWordBits) \in Nat /\ e % kWordBits \in kAllOnes
        BY WordAndOffset
      <4>2. (e \div kWordBits) * kWordBits \in Nat /\ e % kWordBits \in Nat
        BY <4>1, WordsInOrder DEF kAllOnes
      <4> QED BY <4>1, <4>2
    <3>3. LowBits(e % kWordBits) \in SUBSET kAllOnes
      <4>1. e % kWordBits \in kAllOnes
        BY WordAndOffset
      <4> QED BY <4>1, WordAssumption DEF LowBits, kAllOnes
    <3>4. LowBits(e - (e \div kWordBits) * kWordBits) \in SUBSET kAllOnes
      BY Zenon, <3>2, <3>3
    <3>5. kAllOnes \in SUBSET kAllOnes /\ {} \in SUBSET kAllOnes
      OBVIOUS
    <3> QED BY Zenon, <3>1, <3>4, <3>5 DEF RangeMask
  <2>4. more \in WordArrays /\ less \in WordArrays
    <3> HIDE DEF D, mask
    <3> QED BY <2>1, <2>3 DEF WordArrays, D
  <2>5. ASSUME NEW n \in Nat
        PROVE  /\ n \in BitsOf(more) <=> n \in BitsOf(words) \/ n \in s..(e - 1)
               /\ n \in BitsOf(less) <=> n \in BitsOf(words) /\ n \notin s..(e - 1)
    <3> DEFINE i == n \div kWordBits
               b == n % kWordBits
    <3>1. i \in Nat /\ b \in kAllOnes /\ n = i * kWordBits + b
      BY Zenon, WordAndOffset
    <3>2. /\ n \in BitsOf(more) <=> i \in D /\ b \in more[i]
          /\ n \in BitsOf(less) <=> i \in D /\ b \in less[i]
          /\ n \in BitsOf(words) <=> i \in D /\ b \in words[i]
      BY Zenon, <2>4, BitOfWord
    <3>3. b \in mask(i) <=> n \in s..(e - 1)
      <4>1. b \in mask(i) <=> s <= n /\ n < e
        BY Zenon, <1>2, <3>1, MaskOfRange
      <4> HIDE DEF mask, i, b
      <4> QED BY <4>1
    <3>4. n \in s..(e - 1) => i \in D
      <4> SUFFICES ASSUME n \in s..(e - 1), i >= kWords PROVE FALSE
        <5> HIDE DEF i
        <5> QED BY <3>1, EnoughWords
      <4>1. kWords * kWordBits <= i * kWordBits
        <5> HIDE DEF i
        <5>1. i = kWords \/ kWords < i
          BY <3>1, EnoughWords
        <5>2. kWords < i => kWords * kWordBits + kWordBits <= i * kWordBits
          BY Zenon, <3>1, EnoughWords, WordsInOrder
        <5>3. i * kWordBits \in Nat /\ kWords * kWordBits \in Nat
          BY Zenon, <3>1, EnoughWords, WordsInOrder
        <5>4. i = kWords => i * kWordBits = kWords * kWordBits
          OBVIOUS
        <5> QED BY <5>1, <5>2, <5>3, <5>4, WordAssumption
      <4>2. n \in Nat /\ n < e /\ e <= kValidBits /\ kValidBits <= kWords * kWordBits
        BY EnoughWords
      <4>3. b \in Nat /\ i * kWordBits \in Nat /\ kWords * kWordBits \in Nat
        <5> HIDE DEF i, b
        <5> QED BY <3>1, WordsInOrder, EnoughWords DEF kAllOnes
      <4> HIDE DEF i, b
      <4> QED BY <3>1, <4>1, <4>2, <4>3, SizeAssumption
    <3>5. i \in D => more[i] = words[i] \cup mask(i) /\ less[i] = words[i] \ mask(i)
      <4> HIDE DEF D, mask
      <4> QED OBVIOUS
    <3> HIDE DEF i, b, D, mask, more, less
    <3> QED BY Zenon, <3>2, <3>3, <3>4, <3>5
  <2>6. /\ \A n \in BitsOf(more) : n \in Nat
        /\ \A n \in BitsOf(less) : n \in Nat
        /\ \A n \in BitsOf(words) : n \in Nat
        /\ \A n \in s..(e - 1) : n \in Nat
    <3> HIDE DEF more, less
    <3> QED BY <2>4, BitsOfAreNatural
  <2> HIDE DEF more, less
  <2>7. BitsOf(more) = BitsOf(words) \cup s..(e - 1)
    BY Zenon, <2>5, <2>6
  <2>8. BitsOf(less) = BitsOf(words) \ s..(e - 1)
    BY Zenon, <2>5, <2>6
  <2> QED BY Zenon, <2>2, <2>4, <2>7, <2>8
<1> QED BY <1>1, <1>2

-----------------------------------------------------------------------------
(* Searching                                                                 *)

\* A set of natural numbers has a least element.
LEMMA LeastElement ==
    ASSUME NEW S \in SUBSET Nat, S # {}
    PROVE  \E x \in S : \A y \in S : x =< y
<1> DEFINE R == {ss \in Nat \X Nat : ss[1] < ss[2]}
<1>1. OpToRel(<, Nat) = R
  BY DEF OpToRel
<1>2. PICK x \in S : \A y \in S : ~(<<y, x>> \in R)
  BY <1>1, NatLessThanWellFounded, WFMin, ZenonT(60)
<1>3. ASSUME NEW y \in S
      PROVE  x =< y
  <2>1. x \in Nat /\ y \in Nat /\ <<y, x>> \notin R
    BY <1>2
  <2>2. <<y, x>> \in Nat \X Nat
    BY <2>1
  <2>3. ~(y < x)
    BY <2>1, <2>2
  <2> QED BY <2>1, <2>3
<1> QED BY <1>3

\* Min returns it, and there is one.
LEMMA MinIsLeast ==
    ASSUME NEW S \in SUBSET Nat
    PROVE  /\ S # {} => Min(S) \in S /\ \A y \in S : Min(S) <= y
           /\ \A x \in S : (\A y \in S : x <= y) => Min(S) = x
<1>1. ASSUME S # {} PROVE Min(S) \in S /\ \A y \in S : Min(S) <= y
  <2>1. \E x \in S : \A y \in S : x =< y
    BY <1>1, LeastElement
  <2> QED BY Zenon, <2>1 DEF Min
<1>2. ASSUME NEW x \in S, \A y \in S : x <= y PROVE Min(S) = x
  <2>1. Min(S) \in S /\ \A y \in S : Min(S) <= y
    BY <1>1
  <2>2. Min(S) <= x /\ x <= Min(S) /\ Min(S) \in Nat /\ x \in Nat
    BY <1>2, <2>1
  <2> HIDE DEF Min
  <2> QED BY <2>2
<1> QED BY Zenon, <1>1, <1>2

\* r is the first of the bits from `from` on, and it is before `to`; there is none
\* and r is `none`.
IsFirst(bits, from, to, r) ==
    r \in bits /\ from <= r /\ r < to /\ \A n \in bits : n >= from => r <= n
HasNone(bits, from, to) == \A n \in bits : n < from \/ n >= to

\* The loop over whole words finds their first bit.
LEMMA FirstOfWords ==
    ASSUME NEW words \in WordArrays, NEW from \in Nat, NEW to \in Nat, to <= kWords, NEW none
    PROVE  \/ IsFirst(BitsOf(words), from * kWordBits, to * kWordBits,
                      FirstInWords(words, from, to, none))
           \/ /\ HasNone(BitsOf(words), from * kWordBits, to * kWordBits)
              /\ FirstInWords(words, from, to, none) = none
<1> DEFINE candidates == {i \in from..(to - 1) : words[i] # {}}
           i == Min(candidates)
           b == TrailingZeros(words[i])
           r == FirstInWords(words, from, to, none)
<1>1. /\ candidates = {} => r = none
      /\ candidates # {} => r = i * kWordBits + b
  BY Zenon DEF FirstInWords
<1>2. \A j \in from..(to - 1) : j \in Nat /\ j \in 0..(kWords - 1) /\ words[j] \in SUBSET kAllOnes
  BY EnoughWords DEF WordArrays
<1>3. candidates \in SUBSET Nat
  BY <1>2
\* Any bit of these words is in a candidate.
<1>4. ASSUME NEW n \in BitsOf(words), n >= from * kWordBits, n < to * kWordBits
      PROVE  /\ n \div kWordBits \in candidates
             /\ n % kWordBits \in words[n \div kWordBits]
             /\ n = (n \div kWordBits) * kWordBits + (n % kWordBits)
  <2> DEFINE w == n \div kWordBits
             o == n % kWordBits
             pw == w * kWordBits
             pf == from * kWordBits
             pt == to * kWordBits
  <2>1. n \in Nat
    BY BitsOfAreNatural
  <2>2. w \in Nat /\ o \in kAllOnes /\ n = pw + o
    BY Zenon, <2>1, WordAndOffset
  <2>3. o \in words[w] /\ w \in 0..(kWords - 1)
    BY Zenon, <2>1, BitOfWord
  <2> HIDE DEF w
  <2>4. /\ pw \in Nat /\ pf \in Nat /\ pt \in Nat
        /\ w < from => pw + kWordBits <= pf
        /\ to < w => pt + kWordBits <= pw
        /\ to = w => pt = pw
    BY Zenon, <2>2, WordsInOrder
  <2>5. n >= pf /\ n < pt
    BY <1>4
  <2>6. o \in Nat /\ o < kWordBits /\ kWordBits \in Nat
    BY <2>2, WordAssumption DEF kAllOnes
  <2> HIDE DEF o, pw, pf, pt
  <2>7. w \in from..(to - 1)
    BY <2>1, <2>2, <2>4, <2>5, <2>6
  <2>8. w \in candidates
    BY <2>3, <2>7
  <2> HIDE DEF candidates
  <2> QED BY Zenon, <2>2, <2>3, <2>8 DEF w, o, pw
<1>5. CASE candidates = {}
  <2>1. HasNone(BitsOf(words), from * kWordBits, to * kWordBits)
    <3> SUFFICES ASSUME NEW n \in BitsOf(words),
                        ~(n < from * kWordBits), ~(n >= to * kWordBits)
                 PROVE  FALSE
      BY DEF HasNone
    <3>1. n \in Nat /\ from * kWordBits \in Nat /\ to * kWordBits \in Nat
      BY BitsOfAreNatural, WordsInOrder
    <3>2. n >= from * kWordBits /\ n < to * kWordBits
      BY <3>1
    <3> HIDE DEF candidates
    <3> QED BY Zenon, <1>4, <1>5, <3>2
  <2> QED BY Zenon, <1>1, <1>5, <2>1
<1>6. CASE candidates # {}
  <2> HIDE DEF candidates
  <2>1. i \in candidates /\ \A j \in candidates : i <= j
    BY Zenon, <1>3, <1>6, MinIsLeast
  <2>2. i \in from..(to - 1) /\ words[i] # {}
    BY Zenon, <2>1 DEF candidates
  <2>3. i \in Nat /\ i \in 0..(kWords - 1) /\ words[i] \in SUBSET kAllOnes
    BY Zenon, <1>2, <2>2
  <2>4. b \in words[i] /\ \A o \in words[i] : b <= o
    <3>1. words[i] \in SUBSET Nat
      BY <2>3 DEF kAllOnes
    <3> HIDE DEF i
    <3>2. Min(words[i]) \in words[i] /\ \A o \in words[i] : Min(words[i]) <= o
      BY Zenon, <2>2, <3>1, MinIsLeast
    <3> QED BY Zenon, <3>2 DEF TrailingZeros
  <2>5. b \in kAllOnes
    BY Zenon, <2>3, <2>4
  <2> HIDE DEF i, b, r
  <2> DEFINE q == i * kWordBits + b
  <2>6. q \in Nat /\ q \div kWordBits = i /\ q % kWordBits = b
    BY Zenon, <2>3, <2>5, BitInWord
  <2>7. q \in BitsOf(words)
    BY Zenon, <2>3, <2>4, <2>6, BitOfWord
  <2> DEFINE pi == i * kWordBits
             pf == from * kWordBits
             pt == to * kWordBits
  <2>8. /\ pi \in Nat /\ pf \in Nat /\ pt \in Nat
        /\ from < i => pf + kWordBits <= pi
        /\ i < to => pi + kWordBits <= pt
        /\ from = i => pf = pi
    BY Zenon, <2>3, WordsInOrder
  <2>9. b \in Nat /\ b < kWordBits /\ kWordBits \in Nat
    BY <2>5, WordAssumption DEF kAllOnes
  <2>10. q = pi + b
    OBVIOUS
  <2>11. pf <= q /\ q < pt
    <3> HIDE DEF pi, pf, pt, q
    <3> QED BY <2>2, <2>3, <2>8, <2>9, <2>10
  <2>12. ASSUME NEW n \in BitsOf(words), n >= pf
         PROVE  q <= n
    <3> DEFINE w == n \div kWordBits
               o == n % kWordBits
               pw == w * kWordBits
    <3>1. n \in Nat
      BY BitsOfAreNatural
    <3>2. CASE n >= pt
      <4> HIDE DEF q, pt
      <4> QED BY <2>6, <2>8, <2>11, <3>1, <3>2
    <3>3. CASE n < pt
      <4>1. w \in candidates /\ o \in words[w] /\ n = pw + o
        BY Zenon, <1>4, <2>12, <3>3
      <4>2. i <= w /\ w \in Nat /\ o \in kAllOnes
        BY Zenon, <1>3, <2>1, <3>1, <4>1, WordAndOffset
      <4> HIDE DEF w, o
      <4>3. /\ pw \in Nat
            /\ i < w => pi + kWordBits <= pw
            /\ i = w => pi = pw
        BY Zenon, <2>3, <4>2, WordsInOrder
      <4>4. i = w => b <= o
        BY Zenon, <2>4, <4>1
      <4>5. o \in Nat
        BY <4>2 DEF kAllOnes
      <4> HIDE DEF pi, pw, q
      <4> QED BY <2>3, <2>8, <2>9, <2>10, <4>1, <4>2, <4>3, <4>4, <4>5
    <3> HIDE DEF pt
    <3> QED BY <2>8, <3>1, <3>2, <3>3
  <2>13. IsFirst(BitsOf(words), pf, pt, q)
    <3> HIDE DEF pf, pt, q
    <3> QED BY Zenon, <2>7, <2>11, <2>12 DEF IsFirst
  <2> QED BY Zenon, <1>1, <1>6, <2>13 DEF i, b, r
<1> QED BY <1>5, <1>6

\* The rest of the word in which the search starts.
LEMMA FirstOfRest ==
    ASSUME NEW words \in WordArrays, NEW s \in Nat, s \div kWordBits < kWords,
           NEW rest, rest = Shr(words[s \div kWordBits], s % kWordBits)
    PROVE  LET next == (s \div kWordBits + 1) * kWordBits
           IN  /\ rest # {} => IsFirst(BitsOf(words), s, next, s + TrailingZeros(rest))
               /\ rest = {} => HasNone(BitsOf(words), s, next)
<1> DEFINE w == s \div kWordBits
           f == s % kWordBits
           pw == w * kWordBits
           next == (w + 1) * kWordBits
<1>1. w \in Nat /\ f \in kAllOnes /\ s = pw + f
  BY Zenon, WordAndOffset
<1>2. w \in 0..(kWords - 1)
  <2> HIDE DEF w
  <2>1. w < kWords
    BY DEF w
  <2> QED BY <1>1, <2>1, EnoughWords
<1>3. words[w] \in SUBSET kAllOnes
  <2> HIDE DEF w
  <2> QED BY <1>2 DEF WordArrays
<1>4. rest \in SUBSET kAllOnes /\ \A b \in kAllOnes : b \in rest <=> b + f \in words[w]
  <2>1. words[w] \in SUBSET Nat /\ f \in Nat
    BY <1>1, <1>3 DEF kAllOnes
  <2>2. \A b \in kAllOnes : b \in Shr(words[w], f) <=> b + f \in words[w]
    <3> HIDE DEF w, f
    <3> QED BY Zenon, <2>1, ShiftedBits
  <2>3. Shr(words[w], f) \in SUBSET kAllOnes
    BY DEF Shr
  <2> QED BY Zenon, <2>2, <2>3
<1> HIDE DEF w, f
<1>5. pw \in Nat /\ next = pw + kWordBits
  BY Zenon, <1>1, WordsInOrder
<1>6. f \in Nat /\ f < kWordBits /\ kWordBits \in Nat
  BY <1>1, WordAssumption DEF kAllOnes
<1> HIDE DEF pw, next
\* The bits of this word, from s on, are those of `rest`.
<1>7. ASSUME NEW n \in BitsOf(words), s <= n, n < next
      PROVE  n - s \in rest
  <2> DEFINE o == n % kWordBits
             v == n \div kWordBits
             pv == v * kWordBits
  <2>1. n \in Nat
    BY BitsOfAreNatural
  <2>2. v \in Nat /\ o \in kAllOnes /\ n = pv + o /\ o \in words[v]
    BY Zenon, <2>1, WordAndOffset, BitOfWord
  <2> HIDE DEF v, o
  <2>3. /\ pv \in Nat
        /\ v < w => pv + kWordBits <= pw
        /\ w < v => pw + kWordBits <= pv
        /\ v = w => pv = pw
    BY Zenon, <1>1, <2>2, WordsInOrder DEF pw
  <2>4. o \in Nat /\ o < kWordBits
    BY <2>2, WordAssumption DEF kAllOnes
  <2> HIDE DEF pv
  <2>5. v = w
    BY <1>1, <1>5, <1>6, <1>7, <2>1, <2>2, <2>3, <2>4
  <2>6. n - s \in Nat /\ n - s < kWordBits /\ (n - s) + f = o
    BY <1>1, <1>5, <1>6, <1>7, <2>1, <2>2, <2>3, <2>4, <2>5
  <2>7. n - s \in kAllOnes
    BY <1>6, <2>6 DEF kAllOnes
  <2>8. (n - s) + f \in words[w]
    BY Zenon, <2>2, <2>5, <2>6
  <2> QED BY Zenon, <1>4, <2>7, <2>8
<1>8. ASSUME NEW b \in rest PROVE s + b \in BitsOf(words) /\ s + b < next /\ b \in Nat
  <2>1. b + f \in words[w] /\ b \in kAllOnes
    BY Zenon, <1>4
  <2>2. b + f \in kAllOnes
    BY Zenon, <1>3, <2>1
  <2> DEFINE q == w * kWordBits + (b + f)
  <2>3. q \in Nat /\ q \div kWordBits = w /\ q % kWordBits = b + f
    BY Zenon, <1>1, <2>2, BitInWord
  <2>4. q \in BitsOf(words)
    BY Zenon, <1>2, <2>1, <2>3, BitOfWord
  <2>5. b \in Nat /\ b + f \in Nat /\ b + f < kWordBits
    BY <1>6, <2>1, <2>2 DEF kAllOnes
  <2>6. q = pw + (b + f)
    BY DEF pw
  <2> HIDE DEF q
  <2>7. q = s + b /\ s + b < next
    BY <1>1, <1>5, <1>6, <2>5, <2>6
  <2> QED BY Zenon, <2>4, <2>5, <2>7
<1>9. ASSUME rest = {} PROVE HasNone(BitsOf(words), s, next)
  <2> SUFFICES ASSUME NEW n \in BitsOf(words), ~(n < s), ~(n >= next) PROVE FALSE
    BY DEF HasNone
  <2>1. n \in Nat /\ next \in Nat
    BY <1>5, <1>6, BitsOfAreNatural
  <2>2. s <= n /\ n < next
    BY <2>1
  <2> QED BY Zenon, <1>7, <1>9, <2>2
<1>10. ASSUME rest # {} PROVE IsFirst(BitsOf(words), s, next, s + TrailingZeros(rest))
  <2> DEFINE b == TrailingZeros(rest)
  <2>1. rest \in SUBSET Nat
    BY <1>4 DEF kAllOnes
  <2>2. b \in rest /\ \A c \in rest : b <= c
    <3>1. Min(rest) \in rest /\ \A c \in rest : Min(rest) <= c
      BY Zenon, <1>10, <2>1, MinIsLeast
    <3> QED BY Zenon, <3>1 DEF TrailingZeros
  <2> HIDE DEF b
  <2>3. s + b \in BitsOf(words) /\ s + b < next /\ b \in Nat
    BY Zenon, <1>8, <2>2
  <2>4. ASSUME NEW n \in BitsOf(words), n >= s PROVE s + b <= n
    <3>1. n \in Nat /\ next \in Nat
      BY <1>5, <1>6, BitsOfAreNatural
    <3>2. CASE n < next
      <4>1. n - s \in rest
        <5>1. s <= n
          BY <2>4, <3>1
        <5> QED BY Zenon, <1>7, <3>2, <5>1
      <4>2. b <= n - s
        BY Zenon, <2>2, <4>1
      <4> QED BY <2>3, <3>1, <4>2
    <3>3. CASE ~(n < next)
      BY <2>3, <3>1, <3>3
    <3> QED BY <3>2, <3>3
  <2>5. s <= s + b
    BY <2>3
  <2> QED BY Zenon, <2>3, <2>4, <2>5 DEF IsFirst, b
<1> QED BY Zenon, <1>9, <1>10 DEF next, w

\* What both searches do.
LEMMA FirstFromStart ==
    ASSUME NEW words \in WordArrays, NEW s \in Nat, s \div kWordBits < kWords,
           NEW to \in Nat, s \div kWordBits + 1 <= to, to <= kWords, NEW none,
           NEW rest, rest = Shr(words[s \div kWordBits], s % kWordBits),
           NEW r, r = IF rest # {} THEN s + TrailingZeros(rest)
                      ELSE FirstInWords(words, s \div kWordBits + 1, to, none)
    PROVE  \/ IsFirst(BitsOf(words), s, to * kWordBits, r)
           \/ HasNone(BitsOf(words), s, to * kWordBits) /\ r = none
<1> DEFINE w == s \div kWordBits
           next == (w + 1) * kWordBits
           pt == to * kWordBits
           bits == BitsOf(words)
<1>1. w \in Nat /\ w + 1 \in Nat
  <2>1. w \in Nat
    BY WordAndOffset
  <2> HIDE DEF w
  <2> QED BY <2>1
<1>2. /\ rest # {} => IsFirst(bits, s, next, s + TrailingZeros(rest))
      /\ rest = {} => HasNone(bits, s, next)
  BY Zenon, FirstOfRest
<1>3. \A n \in bits : n \in Nat
  BY BitsOfAreNatural
<1>4. next \in Nat /\ pt \in Nat /\ next <= pt
  <2> HIDE DEF w
  <2>1. /\ next \in Nat /\ pt \in Nat
        /\ w + 1 < to => next + kWordBits <= pt
        /\ w + 1 = to => next = pt
    BY Zenon, <1>1, WordsInOrder
  <2>2. w + 1 <= to
    BY DEF w
  <2> HIDE DEF next, pt
  <2> QED BY <1>1, <2>1, <2>2, WordAssumption
<1>5. \/ IsFirst(bits, next, pt, FirstInWords(words, w + 1, to, none))
      \/ HasNone(bits, next, pt) /\ FirstInWords(words, w + 1, to, none) = none
  <2> DEFINE v == w + 1
  <2>1. v \in Nat /\ to <= kWords
    BY Zenon, <1>1
  <2> HIDE DEF v, bits
  <2>2. \/ IsFirst(BitsOf(words), v * kWordBits, to * kWordBits,
                   FirstInWords(words, v, to, none))
        \/ /\ HasNone(BitsOf(words), v * kWordBits, to * kWordBits)
           /\ FirstInWords(words, v, to, none) = none
    BY <2>1, FirstOfWords
  <2> QED BY Zenon, <2>2 DEF v, bits
<1>8. s < next
  <2> DEFINE f == s % kWordBits
             pw == w * kWordBits
  <2>1. f \in kAllOnes /\ s = pw + f
    BY Zenon, WordAndOffset
  <2> HIDE DEF w
  <2>2. next = pw + kWordBits /\ pw \in Nat
    BY Zenon, <1>1, WordsInOrder
  <2>3. f \in Nat /\ f < kWordBits /\ kWordBits \in Nat
    BY <2>1, WordAssumption DEF kAllOnes
  <2> HIDE DEF f, pw, next
  <2> QED BY <2>1, <2>2, <2>3
<1> SUFFICES IsFirst(bits, s, pt, r) \/ (HasNone(bits, s, pt) /\ r = none)
  OBVIOUS
<1> HIDE DEF w, next, pt, bits
<1>6. CASE rest # {}
  <2>1. IsFirst(bits, s, next, r)
    BY Zenon, <1>2, <1>6
  <2>2. r \in bits /\ s <= r /\ r < next /\ \A n \in bits : n >= s => r <= n
    BY Zenon, <2>1 DEF IsFirst
  <2>3. r < pt
    BY <1>3, <1>4, <2>2
  <2> QED BY Zenon, <2>2, <2>3 DEF IsFirst
<1>7. CASE rest = {}
  <2>1. r = FirstInWords(words, w + 1, to, none)
    BY Zenon, <1>7 DEF w
  <2>2. \A n \in bits : n < s \/ n >= next
    BY Zenon, <1>2, <1>7 DEF HasNone
  <2>3. CASE IsFirst(bits, next, pt, r)
    <3>1. r \in bits /\ next <= r /\ r < pt /\ \A n \in bits : n >= next => r <= n
      BY Zenon, <2>3 DEF IsFirst
    <3>2. s <= r
      BY <1>3, <1>4, <1>8, <2>2, <3>1
    <3>3. \A n \in bits : n >= s => r <= n
      BY <1>3, <1>4, <2>2, <3>1
    <3> QED BY Zenon, <3>1, <3>2, <3>3 DEF IsFirst
  <2>4. CASE HasNone(bits, next, pt) /\ r = none
    <3>1. \A n \in bits : n < next \/ n >= pt
      BY Zenon, <2>4 DEF HasNone
    <3>2. \A n \in bits : n < s \/ n >= pt
      BY <1>3, <1>4, <2>2, <3>1
    <3> QED BY Zenon, <2>4, <3>2 DEF HasNone
  <2> QED BY Zenon, <1>5, <2>1, <2>3, <2>4
<1> QED BY <1>6, <1>7

\* The bits of the last word that are not units.
Padding == kValidBits..(kWords * kWordBits - 1)

\* SetAll sets all of them and ClearAll none; nothing else reaches them.
IsMask(words) ==
    /\ words \in WordArrays
    /\ Padding \cap BitsOf(words) = {} \/ Padding \subseteq BitsOf(words)

\* Places in the array.
LEMMA WordOfBit ==
    ASSUME NEW n \in Nat
    PROVE  /\ n < kWords * kWordBits <=> n \div kWordBits < kWords
           /\ n < kValidBits => n < kWords * kWordBits
<1> DEFINE w == n \div kWordBits
           o == n % kWordBits
           pw == w * kWordBits
           p == kWords * kWordBits
<1>1. w \in Nat /\ o \in kAllOnes /\ n = pw + o
  BY Zenon, WordAndOffset
<1>2. kWords \in Nat /\ p \in Nat /\ kValidBits <= p
  BY Zenon, EnoughWords
<1> HIDE DEF w
<1>3. /\ pw \in Nat
      /\ w < kWords => pw + kWordBits <= p
      /\ kWords < w => p + kWordBits <= pw
      /\ w = kWords => pw = p
  BY Zenon, <1>1, <1>2, WordsInOrder
<1>4. o \in Nat /\ o < kWordBits /\ kWordBits \in Nat
  BY <1>1, WordAssumption DEF kAllOnes
<1> SUFFICES (n < p <=> w < kWords) /\ (n < kValidBits => n < p)
  BY Zenon DEF w
<1> HIDE DEF o, pw, p
<1> QED BY <1>1, <1>2, <1>3, <1>4, SizeAssumption

\* The inverted words have the other bits.
LEMMA InvertedBits ==
    ASSUME NEW words \in WordArrays
    PROVE  /\ Inverted(words) \in WordArrays
           /\ \A n \in Nat : n \in BitsOf(Inverted(words)) <=>
                                n < kWords * kWordBits /\ n \notin BitsOf(words)
<1> DEFINE D == 0..(kWords - 1)
           inv == Inverted(words)
<1>1. DOMAIN words = D /\ \A i \in D : words[i] \in SUBSET kAllOnes
  BY DEF WordArrays
<1>2. inv = [i \in D |-> kAllOnes \ words[i]]
  BY Zenon, <1>1 DEF Inverted, Not
<1>3. inv \in WordArrays
  <2> HIDE DEF D, inv
  <2> QED BY <1>2 DEF WordArrays, D
<1>4. ASSUME NEW n \in Nat
      PROVE  n \in BitsOf(inv) <=> n < kWords * kWordBits /\ n \notin BitsOf(words)
  <2> DEFINE w == n \div kWordBits
             o == n % kWordBits
  <2>1. w \in Nat /\ o \in kAllOnes
    BY Zenon, WordAndOffset
  <2> HIDE DEF inv
  <2>2. /\ n \in BitsOf(inv) <=> w \in D /\ o \in inv[w]
        /\ n \in BitsOf(words) <=> w \in D /\ o \in words[w]
    BY Zenon, <1>3, BitOfWord
  <2>3. n < kWords * kWordBits <=> w \in D
    <3>1. n < kWords * kWordBits <=> w < kWords
      BY Zenon, WordOfBit
    <3>2. w < kWords <=> w \in D
      <4> HIDE DEF w
      <4> QED BY <2>1, EnoughWords
    <3> QED BY Zenon, <3>1, <3>2
  <2>4. w \in D => (o \in inv[w] <=> o \notin words[w])
    <3> HIDE DEF w, o, D
    <3> QED BY <1>2, <2>1
  <2> HIDE DEF w, o, D
  <2> QED BY Zenon, <2>2, <2>3, <2>4
<1> QED BY Zenon, <1>3, <1>4

\* FindFirstClear passes over set bits to the first that is clear, or to the end.
LEMMA FirstClear ==
    ASSUME NEW words, IsMask(words), NEW s \in Starts,
           NEW c, c = FindFirstClear(words, s)
    PROVE  /\ c \in s..kValidBits
           /\ \A n \in s..(c - 1) : n \in BitsOf(words)
           /\ c < kValidBits => c \notin BitsOf(words)
<1> DEFINE w == s \div kWordBits
           inv == Inverted(words)
           clear == BitsOf(inv)
           bits == BitsOf(words)
           rest == Shr(inv[w], s % kWordBits)
           p == kWords * kWordBits
<1>1. /\ words \in WordArrays
      /\ Padding \cap bits = {} \/ Padding \subseteq bits
  BY Zenon DEF IsMask
<1>2. s \in Nat /\ s < kValidBits /\ kValidBits \in Nat
  BY SizeAssumption DEF Starts
<1>3. p \in Nat /\ kValidBits <= p /\ s < p /\ kWords \in Nat
  <2>1. p \in Nat /\ kValidBits <= p /\ kWords \in Nat
    BY Zenon, EnoughWords
  <2>2. s < p
    BY Zenon, <1>2, WordOfBit
  <2> QED BY Zenon, <2>1, <2>2
<1>4. w \in Nat /\ w < kWords
  BY Zenon, <1>2, <1>3, WordOfBit, WordAndOffset
<1>5. inv \in WordArrays /\ \A n \in Nat : n \in clear <=> n < p /\ n \notin bits
  BY Zenon, <1>1, InvertedBits
<1>6. Not(words[w]) = inv[w]
  <2>1. w \in DOMAIN words
    <3> HIDE DEF w
    <3> QED BY <1>1, <1>3, <1>4 DEF WordArrays
  <2> HIDE DEF w
  <2> QED BY <2>1 DEF Inverted
<1>7. c = IF rest # {} THEN s + TrailingZeros(rest)
          ELSE FirstInWords(inv, w + 1, kWords, kValidBits)
  BY Zenon, <1>6 DEF FindFirstClear
<1>8. IsFirst(clear, s, p, c) \/ (HasNone(clear, s, p) /\ c = kValidBits)
  <2>1. w + 1 <= kWords /\ kWords <= kWords
    <3> HIDE DEF w
    <3> QED BY <1>3, <1>4
  <2> HIDE DEF inv
  <2>2. \A r : r = (IF rest # {} THEN s + TrailingZeros(rest)
                    ELSE FirstInWords(inv, w + 1, kWords, kValidBits)) =>
          \/ IsFirst(BitsOf(inv), s, kWords * kWordBits, r)
          \/ HasNone(BitsOf(inv), s, kWords * kWordBits) /\ r = kValidBits
    BY <1>2, <1>3, <1>4, <1>5, <2>1, FirstFromStart
  <2> QED BY Zenon, <1>7, <2>2
<1>9. \A n \in Padding : n \in Nat /\ n >= kValidBits /\ n < p
  BY <1>2, <1>3 DEF Padding
<1>10. \A n \in Nat : n >= kValidBits /\ n < p => n \in Padding
  BY <1>2, <1>3 DEF Padding
<1> SUFFICES /\ c \in s..kValidBits
             /\ \A n \in s..(c - 1) : n \in bits
             /\ c < kValidBits => c \notin bits
  OBVIOUS
<1>11. \A n \in clear : n \in Nat
  <2> HIDE DEF inv
  <2> QED BY <1>5, BitsOfAreNatural
<1> HIDE DEF w, inv, clear, bits, rest, p, FindFirstClear
<1>12. CASE IsFirst(clear, s, p, c)
  <2>1. c \in clear /\ s <= c /\ c < p /\ \A n \in clear : n >= s => c <= n
    BY Zenon, <1>12 DEF IsFirst
  <2>2. c \in Nat /\ c \notin bits
    BY Zenon, <1>5, <1>11, <2>1
  <2>3. c <= kValidBits
    <3> SUFFICES ASSUME kValidBits < c PROVE FALSE
      BY <1>2, <2>2
    <3>1. c \in Padding
      BY <1>2, <1>10, <2>1, <2>2
    <3>2. kValidBits \in Padding /\ kValidBits < p
      BY <1>2, <1>3, <1>10, <2>1, <2>2
    <3>3. kValidBits \notin bits
      BY Zenon, <1>1, <2>2, <3>1, <3>2
    <3>4. kValidBits \in clear /\ kValidBits >= s
      BY <1>2, <1>5, <3>2, <3>3
    <3> QED BY <1>2, <2>1, <2>2, <3>4
  <2>4. \A n \in s..(c - 1) : n \in bits
    <3> SUFFICES ASSUME NEW n \in s..(c - 1), n \notin bits PROVE FALSE
      OBVIOUS
    <3>1. n \in Nat /\ n >= s /\ n < c /\ n < p
      BY <1>2, <1>3, <2>1, <2>2
    <3>2. n \in clear
      BY Zenon, <1>5, <3>1
    <3> QED BY <2>1, <2>2, <3>1, <3>2
  <2> QED BY <1>2, <2>1, <2>2, <2>3, <2>4
<1>13. CASE HasNone(clear, s, p) /\ c = kValidBits
  <2>1. \A n \in clear : n < s \/ n >= p
    BY Zenon, <1>13 DEF HasNone
  <2>2. \A n \in s..(c - 1) : n \in bits
    <3> SUFFICES ASSUME NEW n \in s..(c - 1), n \notin bits PROVE FALSE
      OBVIOUS
    <3>1. n \in Nat /\ n >= s /\ n < p
      BY <1>2, <1>3, <1>13
    <3>2. n \in clear
      BY Zenon, <1>5, <3>1
    <3> QED BY <1>2, <1>3, <2>1, <3>1, <3>2
  <2> QED BY <1>2, <1>13, <2>2
<1> QED BY Zenon, <1>8, <1>12, <1>13

\* FindFirstSet passes over clear bits to the first that is set, or to the end.
LEMMA FirstSet ==
    ASSUME NEW words \in WordArrays, NEW s \in Nat, NEW e \in Nat, s < e, e <= kValidBits,
           NEW r, r = FindFirstSet(words, s, e)
    PROVE  /\ r \in Nat /\ s <= r
           /\ \A n \in s..(e - 1) : n \in BitsOf(words) => r <= n
           /\ r < e => r \in BitsOf(words)
<1> DEFINE w == s \div kWordBits
           bits == BitsOf(words)
           rest == Shr(words[w], s % kWordBits)
           to == (e + kWordBits - 1) \div kWordBits
           pt == to * kWordBits
<1>1. kValidBits \in Nat /\ kWordBits \in Nat /\ kWordBits > 0 /\ s < kValidBits
  BY SizeAssumption, WordAssumption
<1>2. w \in Nat /\ w < kWords /\ kWords \in Nat
  BY Zenon, <1>1, WordOfBit, WordAndOffset, EnoughWords
<1>3. to \in Nat /\ pt \in Nat /\ e <= pt /\ pt < e + kWordBits
  <2> DEFINE m == e + kWordBits - 1
             o == m % kWordBits
  <2>1. m \in Nat
    BY <1>1
  <2>2. to \in Nat /\ o \in kAllOnes /\ m = pt + o
    <3> HIDE DEF m
    <3>1. /\ m \div kWordBits \in Nat /\ o \in kAllOnes
          /\ m = (m \div kWordBits) * kWordBits + o
      BY Zenon, <2>1, WordAndOffset
    <3> QED BY Zenon, <3>1 DEF m
  <2>3. pt \in Nat
    <3> HIDE DEF to
    <3> QED BY Zenon, <2>2, WordsInOrder
  <2>4. o \in Nat /\ o < kWordBits
    BY <1>1, <2>2 DEF kAllOnes
  <2>5. m = e + kWordBits - 1
    OBVIOUS
  <2> HIDE DEF m, o, pt, to
  <2> QED BY <1>1, <2>2, <2>3, <2>4, <2>5
<1>4. w + 1 <= to /\ to <= kWords
  <2> DEFINE f == s % kWordBits
             pw == w * kWordBits
             pk == kWords * kWordBits
  <2>1. f \in kAllOnes /\ s = pw + f
    BY Zenon, WordAndOffset
  <2>2. pk \in Nat /\ kValidBits <= pk /\ pk < kValidBits + kWordBits
    BY Zenon, EnoughWords
  <2> HIDE DEF w, to
  <2>3. /\ pw \in Nat
        /\ to < w => pt + kWordBits <= pw
        /\ to = w => pt = pw
        /\ kWords < to => pk + kWordBits <= pt
    BY Zenon, <1>2, <1>3, WordsInOrder
  <2>4. f \in Nat
    BY <2>1 DEF kAllOnes
  <2> HIDE DEF f, pw, pk, pt
  <2> QED BY <1>1, <1>2, <1>3, <2>1, <2>2, <2>3, <2>4
<1>5. r = IF rest # {} THEN s + TrailingZeros(rest)
          ELSE FirstInWords(words, w + 1, to, e)
  BY Zenon DEF FindFirstSet
<1>6. IsFirst(bits, s, pt, r) \/ (HasNone(bits, s, pt) /\ r = e)
  <2> HIDE DEF to
  <2>1. \A q : q = (IF rest # {} THEN s + TrailingZeros(rest)
                    ELSE FirstInWords(words, w + 1, to, e)) =>
          \/ IsFirst(BitsOf(words), s, to * kWordBits, q)
          \/ HasNone(BitsOf(words), s, to * kWordBits) /\ q = e
    BY <1>2, <1>3, <1>4, FirstFromStart
  <2> QED BY Zenon, <1>5, <2>1
<1>7. \A n \in bits : n \in Nat
  BY BitsOfAreNatural
<1> SUFFICES /\ r \in Nat /\ s <= r
             /\ \A n \in s..(e - 1) : n \in bits => r <= n
             /\ r < e => r \in bits
  OBVIOUS
<1> HIDE DEF w, bits, rest, to, pt, FindFirstSet
<1>8. CASE IsFirst(bits, s, pt, r)
  <2>1. r \in bits /\ s <= r /\ r < pt /\ \A n \in bits : n >= s => r <= n
    BY Zenon, <1>8 DEF IsFirst
  <2> QED BY <1>7, <2>1
<1>9. CASE HasNone(bits, s, pt) /\ r = e
  <2>1. \A n \in bits : n < s \/ n >= pt
    BY Zenon, <1>9 DEF HasNone
  <2>2. \A n \in s..(e - 1) : n \notin bits
    BY <1>3, <1>7, <2>1
  <2> QED BY <1>9, <2>2
<1> QED BY Zenon, <1>6, <1>8, <1>9

-----------------------------------------------------------------------------
(* The invariant *)

\* The words are words, and the padding is all set or all clear.
IInv == IsMask(Words)

\* What leaves the padding alone leaves a mask.
LEMMA SamePadding ==
    ASSUME NEW words, IsMask(words), NEW new \in WordArrays,
           \A n \in Padding : n \in BitsOf(new) <=> n \in BitsOf(words)
    PROVE  IsMask(new)
<1>1. Padding \cap BitsOf(words) = {} \/ Padding \subseteq BitsOf(words)
  BY Zenon DEF IsMask
<1>2. CASE Padding \cap BitsOf(words) = {}
  <2>1. Padding \cap BitsOf(new) = {}
    BY Zenon, <1>2
  <2> QED BY Zenon, <2>1 DEF IsMask
<1>3. CASE Padding \subseteq BitsOf(words)
  <2>1. Padding \subseteq BitsOf(new)
    BY Zenon, <1>3
  <2> QED BY Zenon, <2>1 DEF IsMask
<1> QED BY <1>1, <1>2, <1>3

\* Nothing of a range of units is padding.
LEMMA RangeIsNoPadding ==
    ASSUME NEW words, IsMask(words), NEW s \in Starts, NEW e \in Ends
    PROVE  IsMask(SetRange(words, s, e)) /\ IsMask(ClearRange(words, s, e))
<1>1. s \in Nat /\ e \in Nat /\ e <= kValidBits /\ words \in WordArrays
  BY SizeAssumption DEF Starts, Ends, IsMask
<1> DEFINE more == SetRange(words, s, e)
           less == ClearRange(words, s, e)
<1>2. /\ more \in WordArrays /\ less \in WordArrays
      /\ BitsOf(more) = BitsOf(words) \cup s..(e - 1)
      /\ BitsOf(less) = BitsOf(words) \ s..(e - 1)
  BY Zenon, <1>1, RangesChange
<1>3. \A n \in Padding : n \notin s..(e - 1)
  <2>1. kWords * kWordBits \in Nat /\ kValidBits \in Nat
    BY EnoughWords, SizeAssumption
  <2> QED BY <1>1, <2>1 DEF Padding
<1> HIDE DEF more, less
<1>4. /\ \A n \in Padding : n \in BitsOf(more) <=> n \in BitsOf(words)
      /\ \A n \in Padding : n \in BitsOf(less) <=> n \in BitsOf(words)
  BY Zenon, <1>2, <1>3
<1>5. IsMask(more) /\ IsMask(less)
  BY Zenon, <1>2, <1>4, SamePadding
<1> QED BY Zenon, <1>5 DEF more, less

\* Setting and clearing a bit.
LEMMA OneBit ==
    ASSUME NEW words, IsMask(words), NEW bit \in Starts
    PROVE  /\ IsMask(Set(words, bit)) /\ IsMask(Clear(words, bit))
           /\ \A n \in Nat : n \in BitsOf(Set(words, bit)) <=> n \in BitsOf(words) \/ n = bit
           /\ \A n \in Nat : n \in BitsOf(Clear(words, bit)) <=> n \in BitsOf(words) /\ n # bit
<1> DEFINE w == bit \div kWordBits
           o == bit % kWordBits
           D == 0..(kWords - 1)
           more == Set(words, bit)
           less == Clear(words, bit)
           mask == BitMask(bit)
<1>1. bit \in Nat /\ bit < kValidBits /\ kValidBits \in Nat /\ words \in WordArrays
  BY SizeAssumption DEF Starts, IsMask
<1>2. w \in Nat /\ o \in kAllOnes /\ bit = w * kWordBits + o /\ w < kWords /\ kWords \in Nat
  BY Zenon, <1>1, WordAndOffset, WordOfBit, EnoughWords
<1>3. \A b : b \in mask <=> b = o
  <2> SUFFICES ASSUME NEW b PROVE b \in mask <=> b = o
    OBVIOUS
  <2>1. mask \in SUBSET kAllOnes
    BY DEF BitMask, Shl
  <2>2. ASSUME b \in kAllOnes PROVE b \in mask <=> b = o
    <3>1. o \in Nat /\ b \in Nat
      BY <1>2, <2>2 DEF kAllOnes
    <3>2. {0} \in SUBSET Nat
      OBVIOUS
    <3>3. b \in mask <=> b - o \in {0}
      <4> HIDE DEF o
      <4>1. b \in Shl({0}, o) <=> b - o \in {0}
        BY <2>2, <3>1, <3>2, ShiftedBits
      <4> QED BY Zenon, <4>1 DEF BitMask, o
    <3> HIDE DEF o, mask
    <3> QED BY <3>1, <3>3
  <2> HIDE DEF mask, o
  <2> QED BY Zenon, <1>2, <2>1, <2>2
<1>4. w \in D /\ DOMAIN words = D /\ \A i \in D : i \in Nat /\ words[i] \in SUBSET kAllOnes
  <2> HIDE DEF w
  <2> QED BY <1>1, <1>2 DEF WordArrays
<1>5. /\ more = [words EXCEPT ![w] = words[w] \cup mask]
      /\ less = [words EXCEPT ![w] = words[w] \ mask]
  BY DEF Set, Clear
<1> HIDE DEF w, o, mask, more, less
<1>6. /\ \A i \in D : more[i] = IF i = w THEN words[w] \cup mask ELSE words[i]
      /\ \A i \in D : less[i] = IF i = w THEN words[w] \ mask ELSE words[i]
  <2> HIDE DEF D
  <2> QED BY <1>4, <1>5
<1>7. more \in WordArrays /\ less \in WordArrays
  <2>1. mask \in SUBSET kAllOnes
    BY Zenon, <1>2, <1>3
  <2> QED BY <1>1, <1>4, <1>5, <2>1 DEF WordArrays
<1>8. ASSUME NEW n \in Nat
      PROVE  /\ n \in BitsOf(more) <=> n \in BitsOf(words) \/ n = bit
             /\ n \in BitsOf(less) <=> n \in BitsOf(words) /\ n # bit
  <2> DEFINE v == n \div kWordBits
             b == n % kWordBits
  <2>1. b \in kAllOnes /\ n = v * kWordBits + b
    BY Zenon, WordAndOffset
  <2>2. /\ n \in BitsOf(more) <=> v \in D /\ b \in more[v]
        /\ n \in BitsOf(less) <=> v \in D /\ b \in less[v]
        /\ n \in BitsOf(words) <=> v \in D /\ b \in words[v]
    BY Zenon, <1>1, <1>7, BitOfWord
  <2>3. n = bit <=> v = w /\ b = o
    <3>1. n = bit => v = w /\ b = o
      BY Zenon DEF w, o
    <3>2. v = w /\ b = o => n = bit
      BY Zenon, <1>2, <2>1
    <3> QED BY Zenon, <3>1, <3>2
  <2> HIDE DEF v, b, D
  <2>4. CASE v = w
    <3>1. more[v] = words[v] \cup mask /\ less[v] = words[v] \ mask
      BY Zenon, <1>4, <1>6, <2>4
    <3> QED BY Zenon, <1>3, <1>4, <2>2, <2>3, <2>4, <3>1
  <2>5. CASE v # w
    <3>1. v \in D => more[v] = words[v] /\ less[v] = words[v]
      BY Zenon, <1>6, <2>5
    <3> QED BY Zenon, <2>2, <2>3, <2>5, <3>1
  <2> QED BY <2>4, <2>5
<1>9. \A n \in Padding : n \in Nat /\ n # bit
  <2>1. kWords * kWordBits \in Nat
    BY EnoughWords
  <2> QED BY <1>1, <2>1 DEF Padding
<1>10. /\ \A n \in Padding : n \in BitsOf(more) <=> n \in BitsOf(words)
       /\ \A n \in Padding : n \in BitsOf(less) <=> n \in BitsOf(words)
  BY Zenon, <1>8, <1>9
<1>11. IsMask(more) /\ IsMask(less)
  BY Zenon, <1>7, <1>10, SamePadding
<1> QED BY Zenon, <1>8, <1>11 DEF more, less

LEMMA AllBits == IsMask(ClearAll) /\ IsMask(SetAll)
<1>1. ClearAll \in WordArrays /\ SetAll \in WordArrays
  BY DEF ClearAll, SetAll, WordArrays
<1>2. Padding \cap BitsOf(ClearAll) = {}
  <2>1. BitsOf(ClearAll) = {}
    BY DEF BitsOf, ClearAll
  <2> QED BY Zenon, <2>1
<1>3. Padding \subseteq BitsOf(SetAll)
  <2> SUFFICES ASSUME NEW n \in Padding PROVE n \in BitsOf(SetAll)
    OBVIOUS
  <2> DEFINE w == n \div kWordBits
             o == n % kWordBits
  <2>1. n \in Nat /\ n < kWords * kWordBits /\ kWords \in Nat
    <3>1. kWords * kWordBits \in Nat /\ kWords \in Nat
      BY Zenon, EnoughWords
    <3> QED BY <3>1, SizeAssumption DEF Padding
  <2>2. w \in Nat /\ o \in kAllOnes /\ w < kWords
    BY Zenon, <2>1, WordAndOffset, WordOfBit
  <2> HIDE DEF w, o
  <2>3. w \in 0..(kWords - 1) /\ o \in SetAll[w]
    BY <2>1, <2>2 DEF SetAll
  <2> QED BY Zenon, <1>1, <2>1, <2>3, BitOfWord DEF w, o
<1> QED BY Zenon, <1>1, <1>2, <1>3 DEF IsMask

\* No call leaves the mask half padded.
LEMMA StepInv == IInv /\ [Next]_Words => IInv'
<1> SUFFICES ASSUME IInv, [Next]_Words PROVE IInv'
  OBVIOUS
<1>1. IsMask(Words)
  BY DEF IInv
<1>2. CASE SetBit
  <2>1. PICK bit \in Starts : Words' = Set(Words, bit)
    BY Zenon, <1>2 DEF SetBit
  <2>2. IsMask(Set(Words, bit))
    BY Zenon, <1>1, OneBit
  <2> QED BY Zenon, <2>1, <2>2 DEF IInv
<1>3. CASE ClearBit
  <2>1. PICK bit \in Starts : Words' = Clear(Words, bit)
    BY Zenon, <1>3 DEF ClearBit
  <2>2. IsMask(Clear(Words, bit))
    BY Zenon, <1>1, OneBit
  <2> QED BY Zenon, <2>1, <2>2 DEF IInv
<1>4. CASE SetBits
  BY Zenon, <1>1, <1>4, RangeIsNoPadding DEF SetBits, IInv
<1>5. CASE ClearBits
  BY Zenon, <1>1, <1>5, RangeIsNoPadding DEF ClearBits, IInv
<1>6. CASE Fill
  BY Zenon, <1>6, AllBits DEF Fill, IInv
<1>7. CASE Empty
  BY Zenon, <1>7, AllBits DEF Empty, IInv
<1>8. CASE UNCHANGED Words
  BY Zenon, <1>1, <1>8 DEF IInv
<1> QED BY Zenon, <1>2, <1>3, <1>4, <1>5, <1>6, <1>7, <1>8 DEF Next

\* The words of a mask stay within their width, and its padding is all set or all
\* clear, whatever is called.
THEOREM Invariance == Spec => []IInv
<1>1. Init => IInv
  BY Zenon, AllBits DEF Init, IInv
<1> QED BY <1>1, StepInv, PTL DEF Spec

\* Setting or clearing a range changes its bits and no others.
THEOREM RangesAreExact == Spec => []RangesAgree
<1>1. IInv => RangesAgree
  <2> SUFFICES ASSUME IInv, NEW s \in Starts, NEW e \in Ends
               PROVE  /\ BitsOf(SetRange(Words, s, e)) = Bits \cup s..(e - 1)
                      /\ BitsOf(ClearRange(Words, s, e)) = Bits \ s..(e - 1)
    BY Zenon DEF RangesAgree
  <2>1. s \in Nat /\ e \in Nat /\ e <= kValidBits /\ Words \in WordArrays
    BY SizeAssumption DEF Starts, Ends, IInv, IsMask
  <2> QED BY Zenon, <2>1, RangesChange DEF Bits
<1> QED BY <1>1, Invariance, PTL

\* The searches return the first bit that is clear or set, and behind the last
\* unit when there is none.
THEOREM SearchesAreExact == Spec => []SearchesAgree
<1>1. IInv => SearchesAgree
  <2> SUFFICES ASSUME IInv PROVE SearchesAgree
    OBVIOUS
  <2>1. IsMask(Words) /\ Words \in WordArrays /\ kValidBits \in Nat
    BY SizeAssumption DEF IInv, IsMask
  <2>2. ASSUME NEW s \in Starts
        PROVE  LET clear == (s..(kValidBits - 1)) \ Bits
               IN  FindFirstClear(Words, s) = IF clear = {} THEN kValidBits ELSE Min(clear)
    <3> DEFINE clear == (s..(kValidBits - 1)) \ Bits
               c == FindFirstClear(Words, s)
    <3>1. /\ c \in s..kValidBits
          /\ \A n \in s..(c - 1) : n \in Bits
          /\ c < kValidBits => c \notin Bits
      BY Zenon, <2>1, FirstClear DEF Bits
    <3>2. s \in Nat /\ clear \in SUBSET Nat
      BY <2>1 DEF Starts
    <3> HIDE DEF c
    <3>3. CASE c = kValidBits
      <4>1. clear = {}
        BY <2>1, <3>1, <3>2, <3>3
      <4> QED BY Zenon, <3>3, <4>1 DEF c
    <3>4. CASE c # kValidBits
      <4>1. c \in clear /\ \A n \in clear : c <= n
        BY <2>1, <3>1, <3>2, <3>4
      <4> HIDE DEF clear
      <4>2. Min(clear) = c
        BY Zenon, <3>2, <4>1, MinIsLeast
      <4>3. clear # {}
        BY Zenon, <4>1
      <4> QED BY Zenon, <4>2, <4>3 DEF c, clear
    <3> QED BY Zenon, <3>3, <3>4
  <2>3. ASSUME NEW s \in Starts, NEW e \in Ends, s < e
        PROVE  LET set == Bits \cap s..(e - 1)
                   found == FindFirstSet(Words, s, e)
               IN  IF set = {} THEN found >= e ELSE found = Min(set)
    <3> DEFINE set == Bits \cap s..(e - 1)
               r == FindFirstSet(Words, s, e)
    <3>1. s \in Nat /\ e \in Nat /\ e <= kValidBits
      BY <2>1 DEF Starts, Ends
    <3>2. /\ r \in Nat /\ s <= r
          /\ \A n \in s..(e - 1) : n \in Bits => r <= n
          /\ r < e => r \in Bits
      BY Zenon, <2>1, <2>3, <3>1, FirstSet DEF Bits
    <3>3. set \in SUBSET Nat
      BY <3>1
    <3> HIDE DEF r
    <3>4. CASE r < e
      <4>1. r \in set /\ \A n \in set : r <= n
        BY <3>1, <3>2, <3>4
      <4> HIDE DEF set
      <4>2. Min(set) = r
        BY Zenon, <3>3, <4>1, MinIsLeast
      <4> QED BY Zenon, <4>1, <4>2 DEF r, set
    <3>5. CASE r >= e
      <4>1. set = {}
        BY <3>1, <3>2, <3>5
      <4> QED BY Zenon, <3>5, <4>1 DEF r
    <3>6. r < e \/ r >= e
      BY <3>1, <3>2
    <3> QED BY Zenon, <3>4, <3>5, <3>6
  <2> QED BY Zenon, <2>2, <2>3 DEF SearchesAgree
<1> QED BY <1>1, Invariance, PTL

-----------------------------------------------------------------------------
(* The scan *)

\* The places from s on at which the units fit.
FitsFrom(words, units, s) ==
    {r \in s..(kValidBits - units) : r..(r + units - 1) \cap BitsOf(words) = {}}

FirstFit(words, units, s) ==
    IF FitsFrom(words, units, s) = {} THEN NoRegion ELSE Min(FitsFrom(words, units, s))

\* A place that fits and that no other precedes is the first.
LEMMA IsFirstFit ==
    ASSUME NEW words, NEW units \in Nat, NEW s \in Nat
    PROVE  /\ \A r \in FitsFrom(words, units, s) :
                (\A n \in FitsFrom(words, units, s) : r <= n) => FirstFit(words, units, s) = r
           /\ FitsFrom(words, units, s) = {} => FirstFit(words, units, s) = NoRegion
<1> DEFINE F == FitsFrom(words, units, s)
<1>1. F \in SUBSET Nat
  BY SizeAssumption DEF FitsFrom
<1>2. F = {} => FirstFit(words, units, s) = NoRegion
  BY Zenon DEF FirstFit
<1>3. F # {} => FirstFit(words, units, s) = Min(F)
  BY Zenon DEF FirstFit
<1> HIDE DEF F
<1>4. ASSUME NEW r \in F, \A n \in F : r <= n PROVE FirstFit(words, units, s) = r
  <2>1. Min(F) = r
    BY Zenon, <1>1, <1>4, MinIsLeast
  <2>2. F # {}
    BY Zenon, <1>4
  <2> QED BY Zenon, <1>3, <2>1, <2>2
<1> QED BY Zenon, <1>2, <1>4 DEF F

\* One step of the scan: it stops, or goes on behind the bit that is in the way
\* and loses no place that fits.
LEMMA ScanStep ==
    ASSUME NEW words, IsMask(words), NEW units \in Nat \ {0, 1}, NEW s \in Starts,
           NEW c, c = FindFirstClear(words, s),
           NEW r, r = FindFirstSet(words, c + 1, c + units)
    PROVE  /\ c \in Nat /\ s <= c
           /\ c + units <= kValidBits => r \in Nat
           /\ c + units > kValidBits => FirstFit(words, units, s) = NoRegion
           /\ (c + units <= kValidBits /\ r - c >= units) => FirstFit(words, units, s) = c
           /\ (c + units <= kValidBits /\ r - c < units) =>
                /\ r \in Nat /\ c < r /\ r < kValidBits
                /\ FirstFit(words, units, s) = FirstFit(words, units, r + 1)
<1> DEFINE bits == BitsOf(words)
           F == FitsFrom(words, units, s)
<1>1. /\ s \in Nat /\ s < kValidBits /\ kValidBits \in Nat /\ units >= 2 /\ units \in Nat
      /\ words \in WordArrays
  BY SizeAssumption DEF Starts, IsMask
<1>2. /\ c \in s..kValidBits
      /\ \A n \in s..(c - 1) : n \in bits
      /\ c < kValidBits => c \notin bits
  BY Zenon, FirstClear
<1>3. c \in Nat /\ s <= c
  BY <1>1, <1>2
\* No place before c fits, because it is clear itself.
<1>4. \A n \in F : n \in Nat /\ n >= c /\ n >= s /\ n + units <= kValidBits
  <2> SUFFICES ASSUME NEW n \in F
               PROVE  n \in Nat /\ n >= c /\ n >= s /\ n + units <= kValidBits
    OBVIOUS
  <2>1. n \in s..(kValidBits - units) /\ n..(n + units - 1) \cap bits = {}
    BY Zenon DEF FitsFrom
  <2> HIDE DEF bits, F
  <2>2. n \in Nat /\ n >= s /\ n + units <= kValidBits /\ n \in n..(n + units - 1)
    BY <1>1, <2>1
  <2>3. n \notin bits
    BY Zenon, <2>1, <2>2
  <2>4. n >= c
    BY <1>1, <1>2, <1>3, <2>2, <2>3
  <2> QED BY Zenon, <2>2, <2>4
<1>5. ASSUME c + units > kValidBits PROVE FirstFit(words, units, s) = NoRegion
  <2>1. F = {}
    <3> HIDE DEF F
    <3> QED BY <1>1, <1>3, <1>4, <1>5
  <2> QED BY Zenon, <1>1, <2>1, IsFirstFit
<1>6. ASSUME c + units <= kValidBits
      PROVE  /\ r \in Nat /\ c + 1 <= r
             /\ \A n \in (c + 1)..(c + units - 1) : n \in bits => r <= n
             /\ r < c + units => r \in bits
  <2>1. c + 1 \in Nat /\ c + units \in Nat /\ c + 1 < c + units /\ c + units <= kValidBits
    BY <1>1, <1>3, <1>6
  <2> DEFINE a == c + 1
             e == c + units
  <2>2. a \in Nat /\ e \in Nat /\ a < e /\ e <= kValidBits /\ r = FindFirstSet(words, a, e)
    BY Zenon, <2>1
  <2> HIDE DEF a, e
  <2>3. /\ r \in Nat /\ a <= r
        /\ \A n \in a..(e - 1) : n \in bits => r <= n
        /\ r < e => r \in bits
    BY Zenon, <1>1, <2>2, FirstSet
  <2>4. a = c + 1 /\ e = c + units /\ c + units \in Int
    BY <1>1, <1>3 DEF a, e
  <2>5. \A n \in (c + 1)..(c + units - 1) : n \in bits => r <= n
    <3> SUFFICES ASSUME NEW n \in (c + 1)..(c + units - 1), n \in bits PROVE r <= n
      OBVIOUS
    <3>1. n \in a..(e - 1)
      BY <1>1, <1>3, <2>4
    <3> QED BY Zenon, <2>3, <3>1
  <2> QED BY Zenon, <2>3, <2>4, <2>5
<1>7. ASSUME c + units <= kValidBits, r - c >= units PROVE FirstFit(words, units, s) = c
  <2>1. c..(c + units - 1) \cap bits = {}
    <3> SUFFICES ASSUME NEW n \in c..(c + units - 1), n \in bits PROVE FALSE
      OBVIOUS
    <3>1. c \notin bits
      BY <1>1, <1>2, <1>3, <1>7
    <3> HIDE DEF bits
    <3>2. n \in (c + 1)..(c + units - 1)
      <4>1. n # c
        BY Zenon, <3>1
      <4> QED BY <1>1, <1>3, <4>1
    <3>3. r <= n
      BY Zenon, <1>6, <1>7, <3>2
    <3> QED BY <1>1, <1>3, <1>6, <1>7, <3>2, <3>3
  <2>2. c \in s..(kValidBits - units)
    BY <1>1, <1>3, <1>7
  <2>3. c \in F
    BY Zenon, <2>1, <2>2 DEF FitsFrom
  <2>4. \A n \in F : c <= n
    <3> HIDE DEF F
    <3> QED BY <1>3, <1>4
  <2> QED BY Zenon, <1>1, <2>3, <2>4, IsFirstFit
<1>8. ASSUME c + units <= kValidBits, r - c < units
      PROVE  /\ r \in Nat /\ c < r /\ r < kValidBits
             /\ FirstFit(words, units, s) = FirstFit(words, units, r + 1)
  <2>1. r \in Nat /\ c + 1 <= r /\ r < c + units /\ r < kValidBits
    BY <1>1, <1>3, <1>6, <1>8
  <2>2. r \in bits
    BY Zenon, <1>6, <1>8, <2>1
  <2> DEFINE G == FitsFrom(words, units, r + 1)
  <2>3. ASSUME NEW n \in F PROVE n \in G
    <3>1. n \in s..(kValidBits - units) /\ n..(n + units - 1) \cap bits = {}
      BY Zenon DEF FitsFrom
    <3>2. n \in Nat /\ n >= c /\ n + units <= kValidBits
      BY Zenon, <1>4
    <3>3. r \notin n..(n + units - 1)
      <4> HIDE DEF bits
      <4> QED BY Zenon, <2>2, <3>1
    <3>4. n > r
      BY <1>1, <1>3, <2>1, <3>2, <3>3
    <3>5. n \in (r + 1)..(kValidBits - units)
      BY <1>1, <2>1, <3>2, <3>4
    <3> QED BY Zenon, <3>1, <3>5 DEF FitsFrom
  <2>4. ASSUME NEW n \in G PROVE n \in F
    <3>1. n \in (r + 1)..(kValidBits - units) /\ n..(n + units - 1) \cap bits = {}
      BY Zenon DEF FitsFrom
    <3>2. n \in s..(kValidBits - units)
      BY <1>1, <1>3, <2>1, <3>1
    <3> QED BY Zenon, <3>1, <3>2 DEF FitsFrom
  <2>5. F = G
    <3> HIDE DEF F, G
    <3> QED BY Zenon, <2>3, <2>4
  <2>6. FirstFit(words, units, s) = FirstFit(words, units, r + 1)
    BY Zenon, <2>5 DEF FirstFit
  <2>7. c < r
    BY <1>3, <2>1
  <2> QED BY Zenon, <2>1, <2>6, <2>7
<1> QED BY Zenon, <1>3, <1>5, <1>6, <1>7, <1>8

\* f does in every place what the loop of the scan does there.
Computes(f, words, units) ==
    f = [start \in 0..(kValidBits + 1) |->
            IF start >= kValidBits THEN NoRegion
            ELSE LET regionStart == FindFirstClear(words, start)
                     bitEnd == regionStart + units
                     regionEnd == FindFirstSet(words, regionStart + 1, bitEnd)
                 IN  IF bitEnd > kValidBits THEN NoRegion
                     ELSE IF regionEnd - regionStart < units
                          THEN f[regionEnd + 1] ELSE regionStart]

LEMMA RegionFromIsChosen ==
    ASSUME NEW words, NEW units
    PROVE  RegionFrom(words, units) = CHOOSE f : Computes(f, words, units)
BY Zenon DEF RegionFrom, Computes

\* What a function that does what the loop does returns in one place.
LEMMA ComputesStep ==
    ASSUME NEW words, NEW units, NEW f, Computes(f, words, units),
           NEW s \in 0..(kValidBits + 1),
           NEW c, c = FindFirstClear(words, s),
           NEW r, r = FindFirstSet(words, c + 1, c + units)
    PROVE  /\ s >= kValidBits => f[s] = NoRegion
           /\ (~(s >= kValidBits) /\ c + units > kValidBits) => f[s] = NoRegion
           /\ (~(s >= kValidBits) /\ ~(c + units > kValidBits) /\ r - c < units) => f[s] = f[r + 1]
           /\ (~(s >= kValidBits) /\ ~(c + units > kValidBits) /\ ~(r - c < units)) => f[s] = c
<1>1. f[s] = IF s >= kValidBits THEN NoRegion
             ELSE IF c + units > kValidBits THEN NoRegion
             ELSE IF r - c < units THEN f[r + 1] ELSE c
  BY Zenon DEF Computes
<1> QED BY Zenon, <1>1

\* The first place that fits is what the loop finds, whatever it does elsewhere.
LEMMA FirstFitIsComputed ==
    ASSUME NEW words, IsMask(words), NEW units \in Nat \ {0, 1},
           NEW s \in 0..(kValidBits + 1),
           NEW c, c = FindFirstClear(words, s),
           NEW r, r = FindFirstSet(words, c + 1, c + units)
    PROVE  FirstFit(words, units, s) =
             IF s >= kValidBits THEN NoRegion
             ELSE IF c + units > kValidBits THEN NoRegion
             ELSE IF r - c < units THEN FirstFit(words, units, r + 1) ELSE c
<1>1. kValidBits \in Nat /\ s \in Nat /\ units \in Nat /\ units >= 2
  BY SizeAssumption
<1>2. CASE s >= kValidBits
  <2>1. FitsFrom(words, units, s) = {}
    BY <1>1, <1>2 DEF FitsFrom
  <2> QED BY Zenon, <1>1, <1>2, <2>1, IsFirstFit
<1>3. CASE ~(s >= kValidBits)
  <2>1. s \in Starts
    BY <1>1, <1>3 DEF Starts
  <2>2. /\ c \in Nat /\ s <= c
        /\ c + units <= kValidBits => r \in Nat
        /\ c + units > kValidBits => FirstFit(words, units, s) = NoRegion
        /\ (c + units <= kValidBits /\ r - c >= units) => FirstFit(words, units, s) = c
        /\ (c + units <= kValidBits /\ r - c < units) =>
             /\ r \in Nat /\ c < r /\ r < kValidBits
             /\ FirstFit(words, units, s) = FirstFit(words, units, r + 1)
    BY <2>1, ScanStep
  <2>3. CASE c + units > kValidBits
    BY Zenon, <1>3, <2>2, <2>3
  <2>4. CASE ~(c + units > kValidBits)
    <3>1. c + units <= kValidBits
      BY <1>1, <2>2, <2>4
    <3>2. CASE r - c < units
      BY Zenon, <1>3, <2>2, <2>4, <3>1, <3>2
    <3>3. CASE ~(r - c < units)
      <4>1. r \in Nat
        BY Zenon, <2>2, <3>1
      <4>2. r - c >= units
        BY <1>1, <2>2, <3>3, <4>1
      <4> QED BY Zenon, <1>3, <2>2, <2>4, <3>1, <3>3, <4>2
    <3> QED BY Zenon, <3>2, <3>3
  <2> QED BY Zenon, <2>3, <2>4
<1> QED BY Zenon, <1>2, <1>3

\* The first places that fit are a function that does what the loop does.
LEMMA FirstFitsCompute ==
    ASSUME NEW words, IsMask(words), NEW units \in Nat \ {0, 1}
    PROVE  Computes([s \in 0..(kValidBits + 1) |-> FirstFit(words, units, s)], words, units)
<1> DEFINE g == [s \in 0..(kValidBits + 1) |-> FirstFit(words, units, s)]
           Body(s) == LET regionStart == FindFirstClear(words, s)
                          bitEnd == regionStart + units
                          regionEnd == FindFirstSet(words, regionStart + 1, bitEnd)
                      IN  IF bitEnd > kValidBits THEN NoRegion
                          ELSE IF regionEnd - regionStart < units
                               THEN g[regionEnd + 1] ELSE regionStart
<1>1. ASSUME NEW s \in 0..(kValidBits + 1)
      PROVE  g[s] = IF s >= kValidBits THEN NoRegion ELSE Body(s)
  <2>1. PICK c : c = FindFirstClear(words, s)
    OBVIOUS
  <2>2. PICK r : r = FindFirstSet(words, c + 1, c + units)
    OBVIOUS
  <2>3. FirstFit(words, units, s) =
             IF s >= kValidBits THEN NoRegion
             ELSE IF c + units > kValidBits THEN NoRegion
             ELSE IF r - c < units THEN FirstFit(words, units, r + 1) ELSE c
    BY <2>1, <2>2, FirstFitIsComputed
  <2>4. ASSUME ~(s >= kValidBits), ~(c + units > kValidBits), r - c < units
        PROVE  r + 1 \in 0..(kValidBits + 1)
    <3>1. s \in Starts /\ s \in Nat /\ kValidBits \in Nat /\ units \in Nat /\ units >= 2
      BY <2>4, SizeAssumption DEF Starts
    <3>2. /\ c \in Nat /\ s <= c
          /\ (c + units <= kValidBits /\ r - c < units) => r \in Nat /\ c < r /\ r < kValidBits
      BY <2>1, <2>2, <3>1, ScanStep
    <3> QED BY <2>4, <3>1, <3>2
  <2>5. ASSUME ~(s >= kValidBits), ~(c + units > kValidBits), r - c < units
        PROVE  g[r + 1] = FirstFit(words, units, r + 1)
    BY Zenon, <2>4, <2>5
  <2>6. g[s] = FirstFit(words, units, s)
    BY Zenon
  <2>7. Body(s) = IF c + units > kValidBits THEN NoRegion
                  ELSE IF r - c < units THEN g[r + 1] ELSE c
    <3> HIDE DEF g
    <3> QED BY <2>1, <2>2
  <2> HIDE DEF g, Body
  <2> QED BY Zenon, <2>3, <2>5, <2>6, <2>7
<1>2. [s \in 0..(kValidBits + 1) |-> IF s >= kValidBits THEN NoRegion ELSE Body(s)] =
      [s \in 0..(kValidBits + 1) |-> g[s]]
  <2> HIDE DEF g, Body
  <2> QED BY Zenon, <1>1
<1>3. g = [s \in 0..(kValidBits + 1) |-> g[s]]
  BY Zenon
<1>4. g = [s \in 0..(kValidBits + 1) |-> IF s >= kValidBits THEN NoRegion ELSE Body(s)]
  <2> HIDE DEF g, Body
  <2> QED BY Zenon, <1>2, <1>3
<1>5. Computes(g, words, units)
  <2> HIDE DEF g
  <2> QED BY Zenon, <1>4 DEF Computes
<1> QED BY Zenon, <1>5

\* No other function does: a place where it differed would be followed by a
\* later one, and the last place is one where the loop stops.
LEMMA ComputedIsFirstFit ==
    ASSUME NEW words, IsMask(words), NEW units \in Nat \ {0, 1}, NEW f, Computes(f, words, units)
    PROVE  \A s \in 0..(kValidBits + 1) : f[s] = FirstFit(words, units, s)
<1> DEFINE Differs(s) == f[s] # FirstFit(words, units, s)
           B == {k \in Nat : \E s \in 0..(kValidBits + 1) : s + k = kValidBits + 1 /\ Differs(s)}
<1> SUFFICES ASSUME NEW s0 \in 0..(kValidBits + 1), Differs(s0) PROVE FALSE
  OBVIOUS
<1>1. kValidBits \in Nat /\ units \in Nat /\ units >= 2
  BY SizeAssumption
<1>2. B \in SUBSET Nat /\ B # {}
  <2> HIDE DEF Differs
  <2>1. kValidBits + 1 - s0 \in Nat /\ s0 + (kValidBits + 1 - s0) = kValidBits + 1
    BY <1>1
  <2>2. kValidBits + 1 - s0 \in B
    BY <2>1
  <2> QED BY <2>2
<1>3. PICK k \in B : \A j \in B : k <= j
  <2> HIDE DEF B
  <2> QED BY Zenon, <1>2, LeastElement
<1>4. PICK s \in 0..(kValidBits + 1) : s + k = kValidBits + 1 /\ Differs(s)
  BY Zenon, <1>3
<1>5. s \in Nat /\ k \in Nat
  BY <1>1, <1>2, <1>3
<1>6. PICK c : c = FindFirstClear(words, s)
  OBVIOUS
<1>7. PICK r : r = FindFirstSet(words, c + 1, c + units)
  OBVIOUS
<1>8. FirstFit(words, units, s) =
             IF s >= kValidBits THEN NoRegion
             ELSE IF c + units > kValidBits THEN NoRegion
             ELSE IF r - c < units THEN FirstFit(words, units, r + 1) ELSE c
  BY <1>6, <1>7, FirstFitIsComputed
<1>9. /\ s >= kValidBits => f[s] = NoRegion
      /\ (~(s >= kValidBits) /\ c + units > kValidBits) => f[s] = NoRegion
      /\ (~(s >= kValidBits) /\ ~(c + units > kValidBits) /\ r - c < units) => f[s] = f[r + 1]
      /\ (~(s >= kValidBits) /\ ~(c + units > kValidBits) /\ ~(r - c < units)) => f[s] = c
  BY <1>6, <1>7, ComputesStep
<1>10. /\ ~(s >= kValidBits) /\ ~(c + units > kValidBits) /\ r - c < units
       /\ Differs(r + 1)
  BY Zenon, <1>4, <1>8, <1>9
<1>11. r \in Nat /\ s < r + 1 /\ r < kValidBits
  <2>1. s \in Starts
    BY <1>1, <1>5, <1>10 DEF Starts
  <2>2. /\ c \in Nat /\ s <= c
        /\ (c + units <= kValidBits /\ r - c < units) => r \in Nat /\ c < r /\ r < kValidBits
    BY <1>6, <1>7, <2>1, ScanStep
  <2> HIDE DEF Differs
  <2> QED BY <1>1, <1>5, <1>10, <2>2
<1>12. PICK j : j = kValidBits + 1 - (r + 1)
  OBVIOUS
<1>13. j \in Nat /\ j < k /\ (r + 1) + j = kValidBits + 1 /\ r + 1 \in 0..(kValidBits + 1)
  <2> HIDE DEF Differs
  <2> QED BY <1>1, <1>4, <1>5, <1>11, <1>12
<1>14. j \in B
  <2> HIDE DEF Differs
  <2> QED BY Zenon, <1>10, <1>13
<1>15. k <= j
  BY Zenon, <1>3, <1>14
<1> HIDE DEF B, Differs
<1> QED BY <1>5, <1>13, <1>15

LEMMA RegionFromIsFirstFit ==
    ASSUME NEW words, IsMask(words), NEW units \in Nat \ {0, 1}
    PROVE  \A s \in 0..(kValidBits + 1) : RegionFrom(words, units)[s] = FirstFit(words, units, s)
<1>1. \E f : Computes(f, words, units)
  BY Zenon, FirstFitsCompute
<1>2. Computes(RegionFrom(words, units), words, units)
  BY Zenon, <1>1, RegionFromIsChosen
<1> QED BY Zenon, <1>2, ComputedIsFirstFit

\* The scan of a window finds the first place from where it starts on at which
\* the units fit, for every number of units and every mask a window can have.
THEOREM ScanIsExact == Spec => []ScanFindsFirst
<1>1. IInv => ScanFindsFirst
  <2> SUFFICES ASSUME IInv, NEW units \in RegionSizes, NEW s \in Ends
               PROVE  LET fits == {r \in s..(kValidBits - units) :
                                      r..(r + units - 1) \cap Bits = {}}
                      IN  RegionFrom(Words, units)[s] = IF fits = {} THEN NoRegion ELSE Min(fits)
    BY Zenon DEF ScanFindsFirst
  <2>1. IsMask(Words) /\ units \in Nat \ {0, 1}
    BY RegionAssumption DEF IInv
  <2>2. s \in 0..(kValidBits + 1)
    BY SizeAssumption DEF Ends
  <2>3. RegionFrom(Words, units)[s] = FirstFit(Words, units, s)
    BY Zenon, <2>1, <2>2, RegionFromIsFirstFit
  <2> QED BY Zenon, <2>3 DEF FirstFit, FitsFrom, Bits
<1> QED BY <1>1, Invariance, PTL

-----------------------------------------------------------------------------
(* Sums over a set *)

\* The set that the parts of s make up.
Together(Part, s) == UNION {Part[x] : x \in s}

LEMMA PartAndRest ==
    ASSUME NEW S, IsFiniteSet(S), NEW Part, \A x \in S : IsFiniteSet(Part[x]),
           \A x, y \in S : x # y => Part[x] \cap Part[y] = {},
           NEW s \in SUBSET S
    PROVE  /\ IsFiniteSet(Together(Part, s))
           /\ \A x \in s : Cardinality(Together(Part, s)) =
                  Cardinality(Part[x]) + Cardinality(Together(Part, s \ {x}))
<1>1. \A t \in SUBSET S : IsFiniteSet(Together(Part, t))
  <2> SUFFICES ASSUME NEW t \in SUBSET S PROVE IsFiniteSet(Together(Part, t))
    OBVIOUS
  <2>1. IsFiniteSet(t)
    BY FS_Subset
  <2>2. IsFiniteSet({Part[x] : x \in t})
    <3> DEFINE f == [x \in t |-> Part[x]]
               R == {Part[x] : x \in t}
    <3>1. f \in Surjection(t, R)
      BY DEF Surjection
    <3> QED BY <2>1, <3>1, FS_Surjection
  <2>3. \A P \in {Part[x] : x \in t} : IsFiniteSet(P)
    OBVIOUS
  <2> QED BY <2>2, <2>3, FS_UNION DEF Together
<1>2. ASSUME NEW x \in s
      PROVE  Cardinality(Together(Part, s)) =
                  Cardinality(Part[x]) + Cardinality(Together(Part, s \ {x}))
  <2> DEFINE P == Part[x]
             R == Together(Part, s \ {x})
  <2>1. Together(Part, s) = P \cup R /\ P \cap R = {}
    BY DEF Together
  <2>2. IsFiniteSet(P) /\ IsFiniteSet(R)
    BY <1>1
  <2>3. Cardinality(P \cup R) = Cardinality(P) + Cardinality(R) - Cardinality(P \cap R)
    BY <2>2, FS_Union
  <2>4. Cardinality(P \cap R) = 0
    BY <2>1, FS_EmptySet
  <2>5. Cardinality(P) \in Nat /\ Cardinality(R) \in Nat
    BY <2>2, FS_CardinalityType
  <2> HIDE DEF P, R
  <2>6. Cardinality(P \cup R) = Cardinality(P) + Cardinality(R)
    BY <2>3, <2>4, <2>5
  <2> QED BY <2>1, <2>6 DEF P, R
<1> QED BY <1>1, <1>2

\* sum is computed by taking the elements out one by one, as FoldSet does.
AddsUp(sum, weight, S) ==
    /\ sum[{}] = 0
    /\ \A s \in SUBSET S :
        (s # {} /\ sum[s \ {CHOOSE x \in s : TRUE}] \in Nat) =>
            sum[s] = weight[CHOOSE x \in s : TRUE] + sum[s \ {CHOOSE x \in s : TRUE}]

\* What the sum is when each element weighs as much as its part.
LEMMA SumOfParts ==
    ASSUME NEW S, IsFiniteSet(S), NEW Part, \A x \in S : IsFiniteSet(Part[x]),
           \A x, y \in S : x # y => Part[x] \cap Part[y] = {},
           NEW weight, \A x \in S : weight[x] = Cardinality(Part[x]),
           NEW sum, AddsUp(sum, weight, S)
    PROVE  sum[S] = Cardinality(Together(Part, S))
<1> DEFINE Wrong == {s \in SUBSET S : sum[s] # Cardinality(Together(Part, s))}
           Sizes == {Cardinality(s) : s \in Wrong}
<1>1. SUFFICES ASSUME S \in Wrong PROVE FALSE
  OBVIOUS
<1>2. \A s \in SUBSET S : IsFiniteSet(s) /\ Cardinality(s) \in Nat
  BY FS_Subset, FS_CardinalityType
<1>3. Sizes \in SUBSET Nat /\ Sizes # {}
  BY <1>1, <1>2
<1>4. PICK n \in Sizes : \A k \in Sizes : n <= k
  <2> HIDE DEF Sizes
  <2> QED BY <1>3, LeastElement
<1>5. PICK s \in Wrong : n = Cardinality(s)
  OBVIOUS
<1>6. s # {}
  <2>1. Together(Part, {}) = {}
    BY DEF Together
  <2>2. Cardinality(Together(Part, {})) = 0
    BY <2>1, FS_EmptySet
  <2> QED BY <2>2, <1>5 DEF AddsUp
<1> DEFINE x == CHOOSE x \in s : TRUE
           rest == s \ {x}
<1>7. x \in s /\ rest \in SUBSET S
  BY <1>6
<1>9. Cardinality(rest) < n
  <2>1. Cardinality(rest) = Cardinality(s) - 1 /\ Cardinality(s) \in Nat
    BY <1>2, <1>5, <1>7, FS_RemoveElement
  <2> QED BY <2>1, <1>5
<1>10. rest \notin Wrong
  <2>1. Cardinality(rest) \in Nat /\ n \in Nat
    BY <1>2, <1>3, <1>7
  <2>2. rest \in Wrong => Cardinality(rest) \in Sizes
    OBVIOUS
  <2> HIDE DEF Sizes, rest, Wrong
  <2> QED BY <1>4, <1>9, <2>1, <2>2
<1>11. sum[rest] = Cardinality(Together(Part, rest))
  BY <1>7, <1>10
<1>8. sum[s] = weight[x] + sum[rest]
  <2>1. sum[rest] \in Nat
    <3>1. IsFiniteSet(Together(Part, rest))
      <4> HIDE DEF x
      <4> QED BY <1>7, PartAndRest
    <3> QED BY <1>11, <3>1, FS_CardinalityType
  <2> QED BY <1>6, <2>1 DEF AddsUp
<1>12. Cardinality(Together(Part, s)) = Cardinality(Part[x]) + Cardinality(Together(Part, rest))
  <2> HIDE DEF x
  <2> QED BY <1>7, PartAndRest
<1>13. weight[x] = Cardinality(Part[x])
  BY <1>7
<1> HIDE DEF x, rest
<1> QED BY <1>5, <1>8, <1>11, <1>12, <1>13

\* There is such a sum: the sizes of the parts are one.
LEMMA SumOfPartsAddsUp ==
    ASSUME NEW S, IsFiniteSet(S), NEW Part, \A x \in S : IsFiniteSet(Part[x]),
           \A x, y \in S : x # y => Part[x] \cap Part[y] = {},
           NEW weight, \A x \in S : weight[x] = Cardinality(Part[x])
    PROVE  AddsUp([s \in SUBSET S |-> Cardinality(Together(Part, s))], weight, S)
<1>1. Cardinality(Together(Part, {})) = 0
  <2>1. Together(Part, {}) = {}
    BY DEF Together
  <2> QED BY <2>1, FS_EmptySet
<1>2. ASSUME NEW s \in SUBSET S, s # {}, NEW x \in s
      PROVE  Cardinality(Together(Part, s)) =
                  weight[x] + Cardinality(Together(Part, s \ {x}))
  <2>1. Cardinality(Together(Part, s)) =
            Cardinality(Part[x]) + Cardinality(Together(Part, s \ {x}))
    BY PartAndRest
  <2> QED BY <2>1
<1> DEFINE sizes == [s \in SUBSET S |-> Cardinality(Together(Part, s))]
<1>3. ASSUME NEW s \in SUBSET S, s # {}, NEW x, x = CHOOSE y \in s : TRUE
      PROVE  sizes[s] = weight[x] + sizes[s \ {x}]
  <2>1. x \in s
    BY <1>3
  <2> QED BY <1>2, <1>3, <2>1
<1>4. sizes[{}] = 0
  BY <1>1
<1> HIDE DEF sizes
<1>5. AddsUp(sizes, weight, S)
  BY <1>3, <1>4 DEF AddsUp
<1> QED BY <1>5 DEF sizes

-----------------------------------------------------------------------------
(* Counting *)

LEMMA Translated ==
    ASSUME NEW S \in SUBSET Int, IsFiniteSet(S), NEW d \in Int
    PROVE  Cardinality({x + d : x \in S}) = Cardinality(S)
<1> DEFINE T == {x + d : x \in S}
           f == [x \in S |-> x + d]
<1>1. f \in Surjection(S, T)
  BY DEF Surjection
<1>2. f \in Injection(S, T)
  BY DEF Injection, IsInjective
<1> HIDE DEF f, T
<1>3. Cardinality(T) = Cardinality(S)
  BY <1>1, <1>2, FS_Surjection
<1> QED BY <1>3 DEF T

\* The bits of a word from lo on and before hi.
InWord(word, lo, hi) == {b \in word : lo <= b /\ b < hi}

LEMMA CountShifted ==
    ASSUME NEW word \in SUBSET kAllOnes, NEW lo \in Nat, NEW hi \in Nat, lo <= hi, hi <= kWordBits
    PROVE  /\ PopCount(Shl(Shr(word, lo), kWordBits - (hi - lo))) = Cardinality(InWord(word, lo, hi))
           /\ hi = kWordBits => PopCount(Shr(word, lo)) = Cardinality(InWord(word, lo, hi))
           /\ lo = 0 => PopCount(Shl(word, kWordBits - hi)) = Cardinality(InWord(word, lo, hi))
<1> DEFINE S == InWord(word, lo, hi)
           d == kWordBits - hi
<1>1. /\ kWordBits \in Nat /\ kAllOnes = 0..(kWordBits - 1) /\ d \in Int /\ -lo \in Int
      /\ word \in SUBSET Int /\ d = kWordBits - hi
  BY WordAssumption DEF kAllOnes
<1>2. S \in SUBSET Int /\ IsFiniteSet(S)
  <2>1. S \in SUBSET kAllOnes
    BY Zenon, <1>1 DEF InWord
  <2>2. IsFiniteSet(kAllOnes)
    BY <1>1, FS_Interval
  <2>3. kAllOnes \in SUBSET Int
    BY <1>1
  <2> HIDE DEF S
  <2> QED BY <2>1, <2>2, <2>3, FS_Subset
<1>3. Shl(Shr(word, lo), kWordBits - (hi - lo)) = {x + d : x \in S}
  <2>1. ASSUME NEW n \in Shl(Shr(word, lo), kWordBits - (hi - lo))
        PROVE  n \in {x + d : x \in S}
    <3>1. PICK b \in word : /\ b - lo \in kAllOnes /\ n \in kAllOnes
                            /\ n = (b - lo) + (kWordBits - (hi - lo))
      BY DEF Shl, Shr
    <3>2. b \in S /\ n = b + d
      <4> HIDE DEF d
      <4> QED BY <1>1, <3>1 DEF InWord
    <3> QED BY <3>2
  <2>2. ASSUME NEW x \in S
        PROVE  x + d \in Shl(Shr(word, lo), kWordBits - (hi - lo))
    <3>1. x \in word /\ lo <= x /\ x < hi
      BY DEF InWord
    <3> HIDE DEF S, d
    <3>2. x - lo \in kAllOnes /\ x + d \in kAllOnes /\ x + d = (x - lo) + (kWordBits - (hi - lo))
      BY <1>1, <3>1
    <3>3. x - lo \in Shr(word, lo)
      BY <3>1, <3>2 DEF Shr
    <3> QED BY Zenon, <3>2, <3>3 DEF Shl
  <2> HIDE DEF S, d
  <2>3. \A n \in {x + d : x \in S} : n \in Shl(Shr(word, lo), kWordBits - (hi - lo))
    BY Zenon, <2>2
  <2> QED BY Zenon, <2>1, <2>3
<1>4. ASSUME hi = kWordBits PROVE Shr(word, lo) = {x + (-lo) : x \in S}
  <2>1. ASSUME NEW n \in Shr(word, lo) PROVE n \in {x + (-lo) : x \in S}
    <3>1. PICK b \in word : n = b - lo /\ n \in kAllOnes
      BY DEF Shr
    <3>2. b \in S /\ n = b + (-lo)
      BY <1>1, <1>4, <3>1 DEF InWord
    <3> QED BY <3>2
  <2>2. ASSUME NEW x \in S PROVE x + (-lo) \in Shr(word, lo)
    <3>1. x \in word /\ lo <= x /\ x < hi
      BY DEF InWord
    <3>2. x - lo \in kAllOnes /\ x + (-lo) = x - lo
      BY <1>1, <3>1
    <3> QED BY <3>1, <3>2 DEF Shr
  <2> HIDE DEF S
  <2>3. \A n \in {x + (-lo) : x \in S} : n \in Shr(word, lo)
    BY Zenon, <2>2
  <2> QED BY Zenon, <2>1, <2>3
<1>5. ASSUME lo = 0 PROVE Shl(word, kWordBits - hi) = {x + d : x \in S}
  <2>1. ASSUME NEW n \in Shl(word, kWordBits - hi) PROVE n \in {x + d : x \in S}
    <3>1. PICK b \in word : n = b + (kWordBits - hi) /\ n \in kAllOnes
      BY DEF Shl
    <3>2. b \in S /\ n = b + d
      <4> HIDE DEF d
      <4> QED BY <1>1, <1>5, <3>1 DEF InWord
    <3> QED BY <3>2
  <2>2. ASSUME NEW x \in S PROVE x + d \in Shl(word, kWordBits - hi)
    <3>1. x \in word /\ lo <= x /\ x < hi
      BY DEF InWord
    <3>2. x + d \in kAllOnes
      <4> HIDE DEF S, d
      <4> QED BY <1>1, <3>1
    <3> HIDE DEF S
    <3> QED BY Zenon, <3>1, <3>2 DEF Shl
  <2> HIDE DEF S, d
  <2>3. \A n \in {x + d : x \in S} : n \in Shl(word, kWordBits - hi)
    BY Zenon, <2>2
  <2> QED BY Zenon, <2>1, <2>3
<1> HIDE DEF S, d
<1>6. /\ Cardinality({x + d : x \in S}) = Cardinality(S)
      /\ Cardinality({x + (-lo) : x \in S}) = Cardinality(S)
  BY <1>1, <1>2, Translated
<1> QED BY Zenon, <1>3, <1>4, <1>5, <1>6 DEF PopCount, S

\* The bits of the array in a part of a word are as many as the word has there.
LEMMA CountInWord ==
    ASSUME NEW words \in WordArrays, NEW i \in 0..(kWords - 1),
           NEW lo \in Nat, NEW hi \in Nat, hi <= kWordBits
    PROVE  /\ IsFiniteSet(InWord(words[i], lo, hi))
           /\ Cardinality(BitsOf(words) \cap (i * kWordBits + lo)..(i * kWordBits + hi - 1)) =
                 Cardinality(InWord(words[i], lo, hi))
<1> DEFINE S == InWord(words[i], lo, hi)
           p == i * kWordBits
           bits == BitsOf(words)
           R == bits \cap (p + lo)..(p + hi - 1)
<1>1. /\ kWordBits \in Nat /\ kAllOnes = 0..(kWordBits - 1) /\ i \in Nat
      /\ words[i] \in SUBSET kAllOnes /\ p \in Nat
  BY WordAssumption, EnoughWords, WordsInOrder DEF kAllOnes, WordArrays
<1>2. S \in SUBSET Int /\ IsFiniteSet(S)
  <2>1. S \in SUBSET kAllOnes
    BY Zenon, <1>1 DEF InWord
  <2>2. IsFiniteSet(kAllOnes)
    BY <1>1, FS_Interval
  <2>3. kAllOnes \in SUBSET Int
    BY <1>1
  <2> HIDE DEF S
  <2> QED BY <2>1, <2>2, <2>3, FS_Subset
<1>3. \A b \in kAllOnes : /\ p + b \in Nat
                          /\ p + b \in bits <=> b \in words[i]
  <2> SUFFICES ASSUME NEW b \in kAllOnes
               PROVE  p + b \in Nat /\ (p + b \in bits <=> b \in words[i])
    OBVIOUS
  <2>1. p + b \in Nat /\ (p + b) \div kWordBits = i /\ (p + b) % kWordBits = b
    BY Zenon, <1>1, BitInWord
  <2> HIDE DEF p
  <2> QED BY Zenon, <2>1, BitOfWord
<1>4. ASSUME NEW n \in R PROVE n \in {x + p : x \in S}
  <2>1. n \in bits /\ n \in Int /\ p + lo <= n /\ n <= p + hi - 1
    <3> HIDE DEF p, bits
    <3> QED BY <1>1
  <2> HIDE DEF p, bits
  <2>2. n - p \in kAllOnes /\ n = p + (n - p) /\ n = (n - p) + p /\ lo <= n - p /\ n - p < hi
    BY <1>1, <2>1
  <2>3. n - p \in words[i]
    BY Zenon, <1>3, <2>1, <2>2
  <2>4. n - p \in S
    BY Zenon, <2>2, <2>3 DEF InWord
  <2> HIDE DEF S
  <2> QED BY Zenon, <2>2, <2>4
<1>5. ASSUME NEW x \in S PROVE x + p \in R
  <2>1. x \in words[i] /\ lo <= x /\ x < hi
    BY DEF InWord
  <2> HIDE DEF p, bits, S
  <2>2. x \in kAllOnes
    BY Zenon, <1>1, <2>1
  <2>3. p + x \in bits
    BY Zenon, <1>3, <2>1, <2>2
  <2>4. x + p = p + x /\ x + p \in (p + lo)..(p + hi - 1)
    BY <1>1, <2>1, <2>2
  <2> QED BY Zenon, <2>3, <2>4
<1>6. R = {x + p : x \in S}
  <2> HIDE DEF R, S, p
  <2>1. \A n \in {x + p : x \in S} : n \in R
    BY Zenon, <1>5
  <2> QED BY Zenon, <1>4, <2>1
<1>7. Cardinality({x + p : x \in S}) = Cardinality(S)
  <2>1. p \in Int
    BY <1>1
  <2> HIDE DEF S, p
  <2> QED BY Zenon, <1>2, <2>1, Translated
<1>8. IsFiniteSet(S) /\ Cardinality(R) = Cardinality(S)
  BY Zenon, <1>2, <1>6, <1>7
<1> QED BY Zenon, <1>8

\* The loop over whole words counts their bits.
LEMMA CountWords ==
    ASSUME NEW words \in WordArrays, NEW from \in Nat, NEW to \in Nat, to <= kWords
    PROVE  /\ IsFiniteSet(BitsOf(words) \cap (from * kWordBits)..(to * kWordBits - 1))
           /\ MapThenSumSet(LAMBDA i : PopCount(words[i]), from..(to - 1)) =
                 Cardinality(BitsOf(words) \cap (from * kWordBits)..(to * kWordBits - 1))
<1> DEFINE S == from..(to - 1)
           bits == BitsOf(words)
           Part == [i \in S |-> bits \cap (i * kWordBits)..(i * kWordBits + kWordBits - 1)]
           weight == [i \in S |-> PopCount(words[i])]
<1>1. kWordBits \in Nat /\ kWordBits > 0 /\ kWords \in Nat
  BY WordAssumption, EnoughWords
<1>2. IsFiniteSet(S) /\ \A i \in S : i \in Nat /\ i \in 0..(kWords - 1) /\ from <= i /\ i < to
  BY <1>1, FS_Interval
<1>3. ASSUME NEW i \in S
      PROVE  IsFiniteSet(Part[i]) /\ weight[i] = Cardinality(Part[i])
  <2> DEFINE p == i * kWordBits
  <2>1. i \in 0..(kWords - 1) /\ 0 \in Nat /\ kWordBits \in Nat /\ kWordBits <= kWordBits /\ p \in Nat
    BY <1>1, <1>2, WordsInOrder
  <2>2. Cardinality(bits \cap (p + 0)..(p + kWordBits - 1)) =
            Cardinality(InWord(words[i], 0, kWordBits))
    BY Zenon, <2>1, CountInWord
  <2>3. words[i] \in SUBSET kAllOnes
    BY Zenon, <2>1 DEF WordArrays
  <2>4. InWord(words[i], 0, kWordBits) = words[i]
    BY <1>1, <2>3 DEF InWord, kAllOnes
  <2>5. Part[i] = bits \cap p..(p + kWordBits - 1)
    BY Zenon
  <2>6. p + 0 = p
    <3> HIDE DEF p
    <3> QED BY <2>1
  <2>7. IsFiniteSet(Part[i])
    <3> HIDE DEF p
    <3>1. IsFiniteSet(p..(p + kWordBits - 1))
      BY <2>1, FS_Interval
    <3>2. Part[i] \in SUBSET (p..(p + kWordBits - 1))
      BY Zenon, <2>5
    <3> HIDE DEF Part
    <3> QED BY Zenon, <3>1, <3>2, FS_Subset
  <2>8. weight[i] = Cardinality(words[i])
    BY Zenon DEF PopCount
  <2> HIDE DEF p, bits, Part, weight
  <2> QED BY Zenon, <2>2, <2>4, <2>5, <2>6, <2>7, <2>8
<1>4. \A i, j \in S : i # j => Part[i] \cap Part[j] = {}
  <2> SUFFICES ASSUME NEW i \in S, NEW j \in S, i < j PROVE Part[i] \cap Part[j] = {}
    <3> HIDE DEF S, Part
    <3>1. \A i, j \in S : i \in Int /\ j \in Int /\ (i # j => i < j \/ j < i)
      BY <1>2
    <3> QED BY Zenon, <3>1
  <2> DEFINE p == i * kWordBits
             q == j * kWordBits
  <2>1. p \in Nat /\ q \in Nat /\ p + kWordBits <= q
    BY <1>2, WordsInOrder
  <2>2. Part[i] = bits \cap p..(p + kWordBits - 1) /\ Part[j] = bits \cap q..(q + kWordBits - 1)
    BY Zenon
  <2> HIDE DEF p, q, Part, bits
  <2>3. p..(p + kWordBits - 1) \cap q..(q + kWordBits - 1) = {}
    BY <1>1, <2>1
  <2> QED BY Zenon, <2>2, <2>3
<1>5. Together(Part, S) = bits \cap (from * kWordBits)..(to * kWordBits - 1)
  <2> DEFINE a == from * kWordBits
             e == to * kWordBits
  <2>1. a \in Nat /\ e \in Nat
    BY WordsInOrder
  <2>2. \A n \in bits : n \in Nat
    BY BitsOfAreNatural
  <2>3. ASSUME NEW i \in S, NEW n \in Part[i] PROVE n \in bits /\ n \in a..(e - 1)
    <3> DEFINE p == i * kWordBits
    <3>1. n \in bits \cap p..(p + kWordBits - 1)
      BY Zenon
    <3>2. i \in Nat /\ from <= i /\ i < to
      BY Zenon, <1>2
    <3>3. p \in Nat /\ (from < i => a + kWordBits <= p) /\ p + kWordBits <= e
      BY <3>2, WordsInOrder
    <3>4. a <= p
      <4>1. CASE from < i
        <5> HIDE DEF a, p
        <5> QED BY <1>1, <2>1, <3>3, <4>1
      <4>2. CASE from = i
        BY <2>1, <4>2
      <4> QED BY <3>2, <4>1, <4>2
    <3> HIDE DEF a, e, p, bits, Part, S
    <3>5. n \in a..(e - 1)
      BY <1>1, <2>1, <2>2, <3>1, <3>3, <3>4
    <3> QED BY Zenon, <3>1, <3>5
  <2>4. ASSUME NEW n \in bits, n \in a..(e - 1) PROVE \E i \in S : n \in Part[i]
    <3> DEFINE i == n \div kWordBits
               o == n % kWordBits
               p == i * kWordBits
    <3>1. n \in Nat
      BY Zenon, <2>2
    <3>2. i \in Nat /\ o \in 0..(kWordBits - 1) /\ n = p + o
      BY <3>1, WordAndOffset DEF kAllOnes
    <3>3. /\ p \in Nat /\ (i < from => p + kWordBits <= a)
          /\ (to < i => e + kWordBits <= p)
      BY <3>2, WordsInOrder
    <3>4. to = i => e = p
      OBVIOUS
    <3> HIDE DEF i, o, p, a, e
    <3>5. i \in S
      <4> HIDE DEF Part, bits
      <4> QED BY <1>1, <2>1, <2>4, <3>1, <3>2, <3>3, <3>4
    <3>6. n \in p..(p + kWordBits - 1)
      <4> HIDE DEF Part, bits, S
      <4> QED BY <1>1, <3>1, <3>2, <3>3
    <3>7. Part[i] = bits \cap p..(p + kWordBits - 1)
      BY Zenon, <3>5 DEF p
    <3> HIDE DEF Part, S, bits
    <3> QED BY Zenon, <3>5, <3>6, <3>7
  <2> HIDE DEF Part, S, bits
  <2>5. \A n : n \in Together(Part, S) <=> \E i \in S : n \in Part[i]
    BY Zenon DEF Together
  <2>6. \A n : n \in bits \cap a..(e - 1) <=> n \in Together(Part, S)
    <3> HIDE DEF a, e
    <3> QED BY Zenon, <2>3, <2>4, <2>5
  <2> QED BY Zenon, <2>6
<1> DEFINE Sums(sum) ==
             sum = [s \in SUBSET S |->
                        IF s = {} THEN 0
                        ELSE LET x == CHOOSE x \in s : TRUE
                             IN  PopCount(words[x]) + sum[s \ {x}]]
           sizes == [s \in SUBSET S |-> Cardinality(Together(Part, s))]
           sum == CHOOSE sum : Sums(sum)
<1>6. MapThenSumSet(LAMBDA i : PopCount(words[i]), S) = sum[S]
  BY Zenon DEF MapThenSumSet, MapThenFoldSet
<1>7. AddsUp(sizes, weight, S)
  <2> HIDE DEF Part, weight, S
  <2> QED BY <1>2, <1>3, <1>4, SumOfPartsAddsUp
<1>8. \A s \in SUBSET S : sizes[s] \in Nat
  <2> SUFFICES ASSUME NEW s \in SUBSET S PROVE sizes[s] \in Nat
    OBVIOUS
  <2> HIDE DEF Part, S
  <2>1. IsFiniteSet(Together(Part, s))
    BY <1>2, <1>3, <1>4, PartAndRest
  <2> QED BY <2>1, FS_CardinalityType
<1>9. \A x \in S : weight[x] = PopCount(words[x])
  BY Zenon
<1>10. Sums(sizes)
  <2>1. ASSUME NEW s \in SUBSET S, s # {}, NEW x, x = CHOOSE y \in s : TRUE
        PROVE  sizes[s] = PopCount(words[x]) + sizes[s \ {x}]
    <3> HIDE DEF weight, sizes, S
    <3>1. x \in s /\ s \ {x} \in SUBSET S
      BY <2>1
    <3>2. sizes[s \ {x}] \in Nat
      BY Zenon, <1>8, <3>1
    <3>3. sizes[s] = weight[x] + sizes[s \ {x}]
      BY <1>7, <2>1, <3>2 DEF AddsUp
    <3> QED BY Zenon, <1>9, <3>1, <3>3
  <2>2. sizes[{}] = 0
    <3> HIDE DEF sizes, S, weight
    <3> QED BY <1>7 DEF AddsUp
  <2>3. ASSUME NEW s \in SUBSET S
        PROVE  sizes[s] = IF s = {} THEN 0
                          ELSE LET x == CHOOSE x \in s : TRUE
                               IN  PopCount(words[x]) + sizes[s \ {x}]
    <3> HIDE DEF sizes, S
    <3> QED BY <2>1, <2>2
  <2> HIDE DEF S
  <2> QED BY Zenon, <2>3
<1>11. Sums(sum)
  <2> HIDE DEF Sums
  <2> QED BY Zenon, <1>10
<1>12. AddsUp(sum, weight, S)
  <2> HIDE DEF sum
  <2>1. sum[{}] = 0
    <3> HIDE DEF S
    <3> QED BY <1>11
  <2>2. ASSUME NEW s \in SUBSET S, s # {}, NEW x, x = CHOOSE y \in s : TRUE
        PROVE  sum[s] = weight[x] + sum[s \ {x}]
    <3> HIDE DEF weight, S
    <3>1. x \in S
      BY <2>2
    <3>2. sum[s] = PopCount(words[x]) + sum[s \ {x}]
      BY <1>11, <2>2
    <3> QED BY Zenon, <1>9, <3>1, <3>2
  <2> HIDE DEF weight, S
  <2> QED BY <2>1, <2>2 DEF AddsUp
<1>13. sum[S] = Cardinality(Together(Part, S))
  <2> HIDE DEF Part, weight, S, sum
  <2> QED BY <1>2, <1>3, <1>4, <1>12, SumOfParts
<1>14. IsFiniteSet(Together(Part, S))
  <2> HIDE DEF Part, weight, S, sum
  <2> QED BY <1>2, <1>3, <1>4, PartAndRest
<1> HIDE DEF sum, Part
<1> QED BY Zenon, <1>5, <1>6, <1>13, <1>14

\* RangePopcount: the bits of the first word, of the words between and of the last.
LEMMA RangeCount ==
    ASSUME NEW words \in WordArrays, NEW s \in Starts, NEW e \in Ends
    PROVE  RangePopcount(words, s, e) = Cardinality(BitsOf(words) \cap s..(e - 1))
<1> DEFINE ws == s \div kWordBits
           we == e \div kWordBits
           fs == s % kWordBits
           fe == e % kWordBits
           p == ws * kWordBits
           q == we * kWordBits
           bits == BitsOf(words)
           full == MapThenSumSet(LAMBDA i : PopCount(words[i]), (ws + 1)..(we - 1))
           last == IF e - we * kWordBits > 0
                   THEN PopCount(Shl(words[we], kWordBits - (e - we * kWordBits))) ELSE 0
           first == PopCount(Shr(words[ws], fs))
           count == RangePopcount(words, s, e)
<1>1. /\ kWordBits \in Nat /\ kWordBits > 0 /\ s \in Nat /\ e \in Nat
      /\ s < kValidBits /\ e <= kValidBits /\ kValidBits \in Nat
  BY WordAssumption, SizeAssumption DEF Starts, Ends
<1>2. /\ kWords \in Nat /\ kWords * kWordBits \in Nat /\ kValidBits <= kWords * kWordBits
  BY EnoughWords
<1>3. /\ ws \in Nat /\ fs \in 0..(kWordBits - 1) /\ s = p + fs
      /\ we \in Nat /\ fe \in 0..(kWordBits - 1) /\ e = q + fe
  BY <1>1, WordAndOffset DEF kAllOnes
<1>4. /\ p \in Nat /\ q \in Nat
      /\ (ws + 1) * kWordBits = p + kWordBits
      /\ we < ws => q + kWordBits <= p
      /\ ws < we => p + kWordBits <= q
      /\ kWords <= ws => kWords * kWordBits <= p
      /\ kWords < we => kWords * kWordBits + kWordBits <= q
      /\ kWords = we => kWords * kWordBits = q
  <2>1. kWords = ws => kWords * kWordBits = p
    OBVIOUS
  <2>2. kWords < ws => kWords * kWordBits + kWordBits <= p
    BY <1>2, <1>3, WordsInOrder
  <2>3. /\ p \in Nat /\ q \in Nat
        /\ (ws + 1) * kWordBits = p + kWordBits
        /\ we < ws => q + kWordBits <= p
        /\ ws < we => p + kWordBits <= q
        /\ kWords < we => kWords * kWordBits + kWordBits <= q
    BY <1>2, <1>3, WordsInOrder
  <2>4. kWords = we => kWords * kWordBits = q
    OBVIOUS
  <2>5. kWords <= ws <=> kWords = ws \/ kWords < ws
    BY <1>2, <1>3
  <2> HIDE DEF ws, we, p, q
  <2>6. kWords <= ws => kWords * kWordBits <= p
    BY <1>1, <1>2, <2>1, <2>2, <2>3, <2>5
  <2> QED BY Zenon, <2>3, <2>4, <2>6
<1>5. ws \in 0..(kWords - 1) /\ words[ws] \in SUBSET kAllOnes
  <2> HIDE DEF ws, we, p, q, fs, fe
  <2>1. ws \in 0..(kWords - 1)
    BY <1>1, <1>2, <1>3, <1>4
  <2> QED BY <2>1 DEF WordArrays
<1>6. /\ s >= e => count = 0
      /\ (s < e /\ we = ws) =>
            count = PopCount(Shl(Shr(words[ws], fs), kWordBits - (e - s)))
      /\ (s < e /\ we # ws) => count = first + full + last
  <2>1. (s >= e) => ~(s < e)
    BY <1>1
  <2>2. s >= e => count = 0
    BY Zenon, <2>1 DEF RangePopcount
  <2>3. (s < e /\ we = ws) =>
            count = PopCount(Shl(Shr(words[ws], fs), kWordBits - (e - s)))
    BY Zenon, <2>1 DEF RangePopcount
  <2>4. (s < e /\ we # ws) => count = first + full + last
    BY Zenon, <2>1 DEF RangePopcount
  <2> QED BY Zenon, <2>2, <2>3, <2>4
<1> HIDE DEF count
<1>7. CASE s >= e
  <2>1. bits \cap s..(e - 1) = {}
    <3> HIDE DEF bits
    <3> QED BY <1>1, <1>7
  <2>2. Cardinality(bits \cap s..(e - 1)) = 0
    BY Zenon, <2>1, FS_EmptySet
  <2> QED BY Zenon, <1>6, <1>7, <2>2 DEF count
<1>8. CASE s < e /\ we = ws
  <2>0. p = q
    BY Zenon, <1>8
  <2> HIDE DEF ws, we, fs, fe, p, q
  <2>1. /\ fs \in Nat /\ fe \in Nat /\ fs <= fe /\ fe <= kWordBits
        /\ e - s = fe - fs /\ p + fs = s /\ p + fe - 1 = e - 1
    BY <1>1, <1>3, <1>4, <1>8, <2>0
  <2>2. PopCount(Shl(Shr(words[ws], fs), kWordBits - (fe - fs))) =
            Cardinality(InWord(words[ws], fs, fe))
    BY Zenon, <1>5, <2>1, CountShifted
  <2>3. Cardinality(bits \cap (p + fs)..(p + fe - 1)) = Cardinality(InWord(words[ws], fs, fe))
    BY Zenon, <1>5, <2>1, CountInWord DEF p
  <2>4. count = PopCount(Shl(Shr(words[ws], fs), kWordBits - (e - s)))
    BY Zenon, <1>6, <1>8
  <2> HIDE DEF bits
  <2>5. count = Cardinality(bits \cap s..(e - 1))
    BY Zenon, <2>1, <2>2, <2>3, <2>4
  <2> QED BY Zenon, <2>5 DEF count, bits
<1>9. CASE s < e /\ we # ws
  <2> DEFINE a == p + kWordBits
             A == bits \cap s..(a - 1)
             M == bits \cap a..(q - 1)
             Z == bits \cap q..(e - 1)
  <2>1. /\ ws < we /\ we <= kWords /\ s <= a /\ a <= q /\ q <= e /\ a \in Nat
        /\ fs \in Nat /\ fe \in Nat /\ fs <= kWordBits /\ fe <= kWordBits
        /\ p + fs = s /\ p + kWordBits - 1 = a - 1 /\ q + fe - 1 = e - 1 /\ q + 0 = q
        /\ kWordBits - (kWordBits - fs) = fs /\ e - q = fe
    <3> HIDE DEF ws, we, fs, fe, p, q
    <3> QED BY <1>1, <1>2, <1>3, <1>4, <1>9
  <2>2. first = Cardinality(A) /\ IsFiniteSet(A)
    <3>1. first = Cardinality(InWord(words[ws], fs, kWordBits))
      <4> HIDE DEF ws, fs, p
      <4> QED BY <1>1, <1>5, <2>1, CountShifted
    <3>2. Cardinality(bits \cap (p + fs)..(p + kWordBits - 1)) =
              Cardinality(InWord(words[ws], fs, kWordBits))
      <4>1. kWordBits \in Nat /\ kWordBits <= kWordBits
        BY <1>1
      <4> HIDE DEF fs
      <4> QED BY Zenon, <1>5, <2>1, <4>1, CountInWord
    <3>3. IsFiniteSet(s..(a - 1)) /\ A \in SUBSET (s..(a - 1))
      <4> HIDE DEF bits, a
      <4> QED BY <1>1, <2>1, FS_Interval
    <3>4. IsFiniteSet(A)
      <4> HIDE DEF A, a
      <4> QED BY Zenon, <3>3, FS_Subset
    <3> HIDE DEF fs, p, bits, first, a
    <3> QED BY Zenon, <2>1, <3>1, <3>2, <3>4
  <2>3. full = Cardinality(M) /\ IsFiniteSet(M)
    <3> DEFINE from == ws + 1
    <3>1. from \in Nat /\ from * kWordBits = a
      <4>1. (ws + 1) * kWordBits = a
        BY Zenon, <1>4
      <4> HIDE DEF a, ws
      <4> QED BY <1>3, <4>1
    <3> HIDE DEF from
    <3>2. /\ IsFiniteSet(bits \cap (from * kWordBits)..(we * kWordBits - 1))
          /\ MapThenSumSet(LAMBDA i : PopCount(words[i]), from..(we - 1)) =
                 Cardinality(bits \cap (from * kWordBits)..(we * kWordBits - 1))
      BY <1>3, <2>1, <3>1, CountWords
    <3> QED BY Zenon, <3>1, <3>2 DEF from
  <2>4. last = Cardinality(Z) /\ IsFiniteSet(Z)
    <3>1. IsFiniteSet(q..(e - 1)) /\ Z \in SUBSET (q..(e - 1))
      <4> HIDE DEF bits, q
      <4> QED BY <1>1, <1>4, FS_Interval
    <3>2. IsFiniteSet(Z)
      <4> HIDE DEF Z, q
      <4> QED BY Zenon, <3>1, FS_Subset
    <3>3. CASE fe = 0
      <4>1. last = 0
        <5>1. ~(e - we * kWordBits > 0)
          <6>1. e - q = 0
            BY Zenon, <2>1, <3>3
          <6> HIDE DEF q
          <6>2. ~(e - q > 0)
            BY <6>1
          <6> QED BY Zenon, <6>2 DEF q
        <5> QED BY Zenon, <5>1
      <4>2. Z = {}
        <5> HIDE DEF bits, q, fe
        <5> QED BY <1>1, <1>3, <1>4, <3>3
      <4> HIDE DEF last, Z
      <4> QED BY Zenon, <3>2, <4>1, <4>2, FS_EmptySet
    <3>4. CASE fe # 0
      <4>1. fe > 0 /\ we < kWords /\ we \in 0..(kWords - 1)
        <5> HIDE DEF ws, we, fs, fe, p, q
        <5> QED BY <1>1, <1>2, <1>3, <1>4, <2>1, <3>4
      <4>2. words[we] \in SUBSET kAllOnes
        BY Zenon, <4>1 DEF WordArrays
      <4>3. last = PopCount(Shl(words[we], kWordBits - fe))
        <5>1. e - we * kWordBits = fe /\ e - we * kWordBits > 0
          BY Zenon, <2>1, <4>1
        <5> HIDE DEF fe
        <5> QED BY Zenon, <5>1
      <4>4. 0 \in Nat /\ 0 <= fe
        BY <2>1
      <4>5. PopCount(Shl(words[we], kWordBits - fe)) = Cardinality(InWord(words[we], 0, fe))
        <5> HIDE DEF fe, we
        <5> QED BY <2>1, <4>2, <4>4, CountShifted
      <4>6. Cardinality(bits \cap (q + 0)..(q + fe - 1)) = Cardinality(InWord(words[we], 0, fe))
        <5>1. q = we * kWordBits
          OBVIOUS
        <5> HIDE DEF fe, we, q, bits
        <5>2. Cardinality(BitsOf(words) \cap (we * kWordBits + 0)..(we * kWordBits + fe - 1)) =
                  Cardinality(InWord(words[we], 0, fe))
          BY <2>1, <4>1, <4>4, CountInWord
        <5> QED BY Zenon, <5>1, <5>2 DEF bits
      <4> HIDE DEF last, bits, fe, q
      <4> QED BY Zenon, <2>1, <3>2, <4>3, <4>5, <4>6
    <3> QED BY Zenon, <3>3, <3>4
  <2>5. bits \cap s..(e - 1) = (A \cup M) \cup Z /\ A \cap M = {} /\ (A \cup M) \cap Z = {}
    <3>0. \A n \in bits : n \in Nat
      BY BitsOfAreNatural
    <3> HIDE DEF bits, a, q
    <3>1. s..(e - 1) = (s..(a - 1) \cup a..(q - 1)) \cup q..(e - 1)
      BY <1>1, <1>4, <2>1
    <3>2. s..(a - 1) \cap a..(q - 1) = {} /\ (s..(a - 1) \cup a..(q - 1)) \cap q..(e - 1) = {}
      BY <1>1, <1>4, <2>1
    <3> QED BY Zenon, <3>1, <3>2
  <2>6. count = first + full + last
    BY Zenon, <1>6, <1>9
  <2> HIDE DEF A, M, Z, first, full, last
  <2>7. /\ IsFiniteSet(A \cup M)
        /\ Cardinality(A \cup M) = Cardinality(A) + Cardinality(M)
    <3>1. /\ IsFiniteSet(A \cup M)
          /\ Cardinality(A \cup M) = Cardinality(A) + Cardinality(M) - Cardinality(A \cap M)
      BY <2>2, <2>3, FS_Union
    <3>2. Cardinality(A \cap M) = 0
      BY Zenon, <2>5, FS_EmptySet
    <3>3. Cardinality(A) \in Nat /\ Cardinality(M) \in Nat
      BY <2>2, <2>3, FS_CardinalityType
    <3> QED BY <3>1, <3>2, <3>3
  <2>8. Cardinality((A \cup M) \cup Z) = Cardinality(A \cup M) + Cardinality(Z)
    <3>1. Cardinality((A \cup M) \cup Z) =
              Cardinality(A \cup M) + Cardinality(Z) - Cardinality((A \cup M) \cap Z)
      BY <2>4, <2>7, FS_Union
    <3>2. Cardinality((A \cup M) \cap Z) = 0
      BY Zenon, <2>5, FS_EmptySet
    <3>3. Cardinality(A \cup M) \in Nat /\ Cardinality(Z) \in Nat
      BY <2>4, <2>7, FS_CardinalityType
    <3> QED BY <3>1, <3>2, <3>3
  <2>9. count = Cardinality(bits \cap s..(e - 1))
    BY Zenon, <2>2, <2>3, <2>4, <2>5, <2>6, <2>7, <2>8
  <2> QED BY Zenon, <2>9 DEF count
<1>10. s >= e \/ s < e
  BY <1>1
<1> QED BY Zenon, <1>7, <1>8, <1>9, <1>10

\* RangePopcount counts the bits of every range, inside a word or across words.
THEOREM CountsAreExact == Spec => []PopcountAgrees
<1>1. IInv => PopcountAgrees
  <2> SUFFICES ASSUME IInv, NEW s \in Starts, NEW e \in Ends
               PROVE  RangePopcount(Words, s, e) = Cardinality(Bits \cap s..(e - 1))
    BY Zenon DEF PopcountAgrees
  <2>1. Words \in WordArrays
    BY DEF IInv, IsMask
  <2> QED BY Zenon, <2>1, RangeCount DEF Bits
<1> QED BY <1>1, Invariance, PTL
=============================================================================
