------------------------------ MODULE CustomBitSet ------------------------------
(***************************************************************************)
(* The bitmask of a window (CustomBitSet in PacketAllocator.h) word by     *)
(* word, and the scan Allocate makes with it.  A word is the set of its    *)
(* bits that are 1; a shift loses the bits that leave the word.            *)
(* PacketAllocator uses the mask as a set of units: the properties say     *)
(* that it is one.                                                         *)
(***************************************************************************)
EXTENDS Integers, FiniteSets, FiniteSetsExt

CONSTANTS kWordBits,   \* 64
          kValidBits,  \* the template parameter N
          RegionSizes  \* bound: the units the scan is asked for

ASSUME WordAssumption == kWordBits \in Nat /\ kWordBits > 0
ASSUME SizeAssumption == kValidBits \in Nat /\ kValidBits > 0
ASSUME RegionAssumption == RegionSizes \subseteq Nat \ {0, 1}

VARIABLE Words

kWords == (kValidBits + kWordBits - 1) \div kWordBits
kAllOnes == 0..(kWordBits - 1)

Shl(word, n) == {b + n : b \in word} \cap kAllOnes
Shr(word, n) == {b - n : b \in word} \cap kAllOnes
Not(word) == kAllOnes \ word
LowBits(n) == 0..(n - 1)   \* (1 << n) - 1
PopCount(word) == Cardinality(word)
TrailingZeros(word) == Min(word)

\* The bits of an array of words, padding included.
BitsOf(words) == UNION {{i * kWordBits + b : b \in words[i]} : i \in DOMAIN words}

-----------------------------------------------------------------------------
(* Changing bits *)

\* Mutant of RangeMask: the bits in the last word are forgotten.
RangeMaskShort(i, bitStart, bitEnd) ==
    LET wordStart == bitStart \div kWordBits
        wordEnd == bitEnd \div kWordBits
    IN  CASE i = wordStart -> Shl(kAllOnes, bitStart % kWordBits)
          [] wordStart < i /\ i < wordEnd -> kAllOnes
          [] OTHER -> {}

\* What SetRange sets and ClearRange clears in word i.
RangeMask(i, bitStart, bitEnd) ==
    LET wordStart == bitStart \div kWordBits
        wordEnd == bitEnd \div kWordBits
        first == bitStart % kWordBits
    IN  CASE i = wordStart /\ wordEnd = wordStart ->
                 Shl(LowBits((bitEnd % kWordBits) - first), first)
          [] i = wordStart /\ wordEnd # wordStart -> Shl(kAllOnes, first)
          [] wordStart < i /\ i < wordEnd -> kAllOnes
          [] i = wordEnd /\ wordEnd # wordStart -> LowBits(bitEnd - wordEnd * kWordBits)
          [] OTHER -> {}

SetRange(words, bitStart, bitEnd) ==
    IF bitStart >= bitEnd THEN words
    ELSE [i \in DOMAIN words |-> words[i] \cup RangeMask(i, bitStart, bitEnd)]

ClearRange(words, bitStart, bitEnd) ==
    IF bitStart >= bitEnd THEN words
    ELSE [i \in DOMAIN words |-> words[i] \ RangeMask(i, bitStart, bitEnd)]

BitMask(bit) == Shl({0}, bit % kWordBits)
Set(words, bit) == [words EXCEPT ![bit \div kWordBits] = @ \cup BitMask(bit)]
Clear(words, bit) == [words EXCEPT ![bit \div kWordBits] = @ \ BitMask(bit)]
Check(words, bit) == words[bit \div kWordBits] \cap BitMask(bit) # {}
ClearAll == [i \in 0..(kWords - 1) |-> {}]
SetAll == [i \in 0..(kWords - 1) |-> kAllOnes]

-----------------------------------------------------------------------------
(* Counting and finding bits *)

\* Mutant of RangePopcount: the low bits of the first word are not eliminated.
RangePopcountFromWordStart(words, bitStart, bitEnd) ==
    Cardinality({b \in BitsOf(words) :
                    b >= (bitStart \div kWordBits) * kWordBits /\ b < bitEnd})

RangePopcount(words, bitStart, bitEnd) ==
    LET wordStart == bitStart \div kWordBits
        wordEnd == bitEnd \div kWordBits
        word == Shr(words[wordStart], bitStart % kWordBits)
        full == MapThenSumSet(LAMBDA i : PopCount(words[i]), (wordStart + 1)..(wordEnd - 1))
        lastWordBits == bitEnd - wordEnd * kWordBits
        last == IF lastWordBits > 0
                THEN PopCount(Shl(words[wordEnd], kWordBits - lastWordBits)) ELSE 0
    IN  CASE bitStart >= bitEnd -> 0
          [] bitStart < bitEnd /\ wordEnd = wordStart ->
                 PopCount(Shl(word, kWordBits - (bitEnd - bitStart)))
          [] bitStart < bitEnd /\ wordEnd # wordStart -> PopCount(word) + full + last

\* The first set bit of words[from..to - 1], or `none`.
FirstInWords(words, from, to, none) ==
    LET candidates == {i \in from..(to - 1) : words[i] # {}}
        i == Min(candidates)
    IN  IF candidates = {} THEN none ELSE i * kWordBits + TrailingZeros(words[i])

Inverted(words) == [i \in DOMAIN words |-> Not(words[i])]

FindFirstClear(words, bitStart) ==
    LET wordStart == bitStart \div kWordBits
        word == Shr(Not(words[wordStart]), bitStart % kWordBits)
    IN  IF word # {} THEN bitStart + TrailingZeros(word)
        ELSE FirstInWords(Inverted(words), wordStart + 1, kWords, kValidBits)

\* Mutant of FindFirstSet: the word bitEnd lies in is not looked at.
FindFirstSetShort(words, bitStart, bitEnd) ==
    LET wordStart == bitStart \div kWordBits
        word == Shr(words[wordStart], bitStart % kWordBits)
    IN  IF word # {} THEN bitStart + TrailingZeros(word)
        ELSE FirstInWords(words, wordStart + 1, bitEnd \div kWordBits, bitEnd)

FindFirstSet(words, bitStart, bitEnd) ==
    LET wordStart == bitStart \div kWordBits
        word == Shr(words[wordStart], bitStart % kWordBits)
        wordEnd == (bitEnd + kWordBits - 1) \div kWordBits
    IN  IF word # {} THEN bitStart + TrailingZeros(word)
        ELSE FirstInWords(words, wordStart + 1, wordEnd, bitEnd)

-----------------------------------------------------------------------------
(* The scan of one window in Allocator::Allocate *)

NoRegion == -1

\* Mutant of RegionFrom: goes on behind the region that was not free.
RegionFromStep(words, units) ==
    LET f[start \in 0..(2 * kValidBits)] ==
            IF start >= kValidBits THEN NoRegion
            ELSE LET regionStart == FindFirstClear(words, start)
                     bitEnd == regionStart + units
                 IN  IF bitEnd > kValidBits THEN NoRegion
                     ELSE IF FindFirstSet(words, regionStart + 1, bitEnd) < bitEnd
                          THEN f[bitEnd] ELSE regionStart
    IN  f

\* Where the loop that starts looking at `start` finds room.
RegionFrom(words, units) ==
    LET f[start \in 0..(kValidBits + 1)] ==
            IF start >= kValidBits THEN NoRegion
            ELSE LET regionStart == FindFirstClear(words, start)
                     bitEnd == regionStart + units
                     regionEnd == FindFirstSet(words, regionStart + 1, bitEnd)
                 IN  IF bitEnd > kValidBits THEN NoRegion
                     ELSE IF regionEnd - regionStart < units
                          THEN f[regionEnd + 1] ELSE regionStart
    IN  f

-----------------------------------------------------------------------------

\* bitStart < kValidBits, bitEnd <= kValidBits: the documented preconditions.
Starts == 0..(kValidBits - 1)
Ends == 0..kValidBits

Init == Words = ClearAll

SetBit == \E bit \in Starts : Words' = Set(Words, bit)
ClearBit == \E bit \in Starts : Words' = Clear(Words, bit)
SetBits == \E s \in Starts, e \in Ends : Words' = SetRange(Words, s, e)
ClearBits == \E s \in Starts, e \in Ends : Words' = ClearRange(Words, s, e)
Fill == Words' = SetAll
Empty == Words' = ClearAll

Next == SetBit \/ ClearBit \/ SetBits \/ ClearBits \/ Fill \/ Empty

Spec == Init /\ [][Next]_Words

-----------------------------------------------------------------------------
(* Properties *)

Bits == BitsOf(Words)

\* SetRange and ClearRange change the bits of the range and no other, inside a
\* word, up to the boundary of one and across several (PacketAllocator.h:354).
RangesAgree ==
    \A s \in Starts, e \in Ends :
        /\ BitsOf(SetRange(Words, s, e)) = Bits \cup s..(e - 1)
        /\ BitsOf(ClearRange(Words, s, e)) = Bits \ s..(e - 1)

\* RangePopcount counts the bits of the range (PacketAllocator.h:243).
PopcountAgrees ==
    \A s \in Starts, e \in Ends :
        RangePopcount(Words, s, e) = Cardinality(Bits \cap s..(e - 1))

\* FindFirstClear finds the first bit that is 0, and kValidBits without one,
\* whatever the padding of the last word holds (PacketAllocator.h:285).
\* FindFirstSet finds the first bit that is 1 before bitEnd, and otherwise
\* returns bitEnd or more, which is what Allocate relies on; its comment says
\* bitEnd (PacketAllocator.h:312, PacketAllocator.cpp:308).
SearchesAgree ==
    /\ \A s \in Starts :
        LET clear == (s..(kValidBits - 1)) \ Bits
        IN  FindFirstClear(Words, s) = IF clear = {} THEN kValidBits ELSE Min(clear)
    /\ \A s \in Starts, e \in Ends :
        s < e =>
            LET set == Bits \cap s..(e - 1)
                found == FindFirstSet(Words, s, e)
            IN  IF set = {} THEN found >= e ELSE found = Min(set)

\* The scan, which jumps from obstacle to obstacle, finds the first place from
\* where it starts on at which the units fit (PacketAllocator.cpp:295): the
\* operator Fits of PacketAllocator.
ScanFindsFirst ==
    \A units \in RegionSizes, s \in Ends :
        LET fits == {r \in s..(kValidBits - units) : r..(r + units - 1) \cap Bits = {}}
        IN  RegionFrom(Words, units)[s] = IF fits = {} THEN NoRegion ELSE Min(fits)
=============================================================================
