------------------------- MODULE PacketAllocator_proofs -------------------------
(***************************************************************************)
(* Proofs about PacketAllocator.  The invariant of a heap is split as the  *)
(* code splits its state: BlocksInv speaks of the units of a window and    *)
(* the headers in them, ListsInv of the two window lists.  Each operator   *)
(* of the allocator gets one lemma per part it can disturb; the API calls  *)
(* are compositions of these operators, and so are their proofs.           *)
(***************************************************************************)
EXTENDS PacketAllocator, FiniteSetTheorems, SequenceTheorems, WellFoundedInduction,
        TLAPS

-----------------------------------------------------------------------------
(* The inductive invariant *)

Live(h, p) == h.UsedUnits[p] > 0
End(h, p) == p[2] + h.UsedUnits[p]

\* Headers are in chunks in use, and a fallback chunk has exactly one, at 0.
HeadersInv(h) ==
    /\ \A p \in Ptrs : Live(h, p) =>
        /\ h.kind[p[1]] # "unused"
        /\ h.kind[p[1]] = "fallback" => p[2] = 0
    /\ \A c \in Chunks : h.kind[c] = "fallback" => Live(h, <<c, 0>>)

\* A live block of a window covers used units up to the end of the window at
\* most, ends before the next live block starts, and every used unit is covered.
SpansAt(h, c) ==
    /\ \A u \in Units : Live(h, <<c, u>>) => End(h, <<c, u>>) <= kWindowMaxUnits
    /\ \A u, x \in Units : (u <= x /\ x < End(h, <<c, u>>)) => x \in h.Used[c]
    /\ \A u, v \in Units :
        (u < v /\ Live(h, <<c, u>>) /\ Live(h, <<c, v>>)) => End(h, <<c, u>>) <= v
    /\ \A x \in h.Used[c] : \E u \in Units : u <= x /\ x < End(h, <<c, u>>)

SpansInv(h) == \A c \in Chunks : IsWindow(h, c) => SpansAt(h, c)

CountInv(h) ==
    \A c \in Chunks : IsWindow(h, c) =>
        h.FreeUnitCount[c] = kWindowMaxUnits - Cardinality(h.Used[c])

BlocksInv(h) == HeadersInv(h) /\ SpansInv(h) /\ CountInv(h)

ListsInv(h) ==
    /\ \A i \in DOMAIN h.PreferredWindows :
        /\ IsWindow(h, h.PreferredWindows[i])
        /\ h.FullListIndex[h.PreferredWindows[i]] = kNotInFullList
    /\ \A i, j \in DOMAIN h.PreferredWindows :
        h.PreferredWindows[i] = h.PreferredWindows[j] => i = j
    /\ \A i \in DOMAIN h.FullWindows :
        /\ IsWindow(h, h.FullWindows[i])
        /\ h.FullListIndex[h.FullWindows[i]] = i - 1
    /\ \A c \in Chunks : IsWindow(h, c) =>
        \/ \E i \in DOMAIN h.PreferredWindows : h.PreferredWindows[i] = c
        \/ \E i \in DOMAIN h.FullWindows : h.FullWindows[i] = c

HeapInv(h) == h \in Heaps /\ BlocksInv(h) /\ ListsInv(h)

\* The client holds exactly the live blocks, and the preallocated windows stay.
ClientInv ==
    ~destroyed =>
        /\ \A p \in Ptrs : asked[p] # NotHeld <=> Live(heap, p)
        /\ \A i \in DOMAIN HugeChunk : IsWindow(heap, HugeChunk[i])

GoneInv ==
    destroyed =>
        /\ \A p \in Ptrs : asked[p] = NotHeld
        /\ \A c \in Chunks : ~IsWindow(heap, c)

IInv == TypeOK /\ HeapInv(heap) /\ ClientInv /\ GoneInv

-----------------------------------------------------------------------------
(* Arithmetic and finite sets *)

LEMMA Constants ==
    /\ kWindowMaxUnits \in Nat /\ kWindowMaxUnits >= 8
    /\ kFallbackThresholdUnits \in Nat
    /\ kFallbackThresholdUnits <= kWindowMaxUnits
    /\ kPreferredThresholdUnits \in Nat
BY WindowAssumption DEF kFallbackThresholdUnits, kPreferredThresholdUnits

\* A request takes at least its header unit.
LEMMA UnitsForType ==
    ASSUME NEW bytes \in Nat
    PROVE  UnitsFor(bytes) \in Nat /\ UnitsFor(bytes) >= 1
<1> DEFINE sum == (bytes + kUnitSize - 1) % UintModulus
<1>1. sum \in Nat
  BY UnitAssumption, ModulusAssumption
<1>2. sum \div kUnitSize \in Nat
  <2> HIDE DEF sum
  <2> QED BY <1>1, UnitAssumption
<1> QED
  BY <1>2 DEF UnitsFor

\* Taking a free region of a window away, or giving part of it back, moves
\* Cardinality(Used) by the length of the region.
LEMMA UsedFinite ==
    ASSUME NEW S \in SUBSET Units
    PROVE  IsFiniteSet(S) /\ Cardinality(S) \in 0..kWindowMaxUnits
<1>1. IsFiniteSet(Units) /\ Cardinality(Units) = kWindowMaxUnits
  BY Constants, FS_Interval DEF Units
<1> QED BY <1>1, FS_Subset, FS_CardinalityType, Constants

LEMMA RegionCard ==
    ASSUME NEW a \in Nat, NEW n \in Nat
    PROVE  IsFiniteSet(a..(a + n - 1)) /\ Cardinality(a..(a + n - 1)) = n
<1>1. /\ IsFiniteSet(a..(a + n - 1))
      /\ Cardinality(a..(a + n - 1)) = IF a > a + n - 1 THEN 0 ELSE a + n - 1 - a + 1
  BY FS_Interval
<1> QED BY <1>1

LEMMA CarvedCard ==
    ASSUME NEW S \in SUBSET Units, NEW a \in Nat, NEW n \in Nat,
           a + n <= kWindowMaxUnits, a..(a + n - 1) \cap S = {}
    PROVE  /\ S \cup a..(a + n - 1) \in SUBSET Units
           /\ Cardinality(S \cup a..(a + n - 1)) = Cardinality(S) + n
<1>1. S \cup a..(a + n - 1) \in SUBSET Units
  BY Constants DEF Units
<1>2. Cardinality(S \cup a..(a + n - 1)) =
        Cardinality(S) + Cardinality(a..(a + n - 1)) - Cardinality(S \cap a..(a + n - 1))
  BY UsedFinite, RegionCard, FS_Union
<1>3. S \cap a..(a + n - 1) = {}
  OBVIOUS
<1>4. Cardinality(S \cap a..(a + n - 1)) = 0
  BY <1>3, FS_EmptySet
<1> QED BY <1>1, <1>2, <1>4, RegionCard, UsedFinite

LEMMA ReleasedCard ==
    ASSUME NEW S \in SUBSET Units, NEW a \in Nat, NEW b \in Nat, a <= b,
           a..(b - 1) \subseteq S
    PROVE  /\ S \ a..(b - 1) \in SUBSET Units
           /\ Cardinality(S \ a..(b - 1)) = Cardinality(S) - (b - a)
<1> DEFINE R == a..(b - 1)
<1>1. IsFiniteSet(R) /\ Cardinality(R) = b - a
  <2>1. b - a \in Nat /\ R = a..(a + (b - a) - 1)
    OBVIOUS
  <2> HIDE DEF R
  <2> QED BY <2>1, RegionCard
<1>2. IsFiniteSet(S) /\ Cardinality(S) \in Nat
  BY UsedFinite
<1>3. IsFiniteSet(S \ R) /\ Cardinality(S \ R) \in Nat
  BY UsedFinite
<1>4. S = (S \ R) \cup R /\ (S \ R) \cap R = {}
  OBVIOUS
<1>5. Cardinality((S \ R) \cup R) =
        Cardinality(S \ R) + Cardinality(R) - Cardinality((S \ R) \cap R)
  <2> HIDE DEF R
  <2> QED BY <1>1, <1>3, FS_Union
<1>6. Cardinality((S \ R) \cap R) = 0
  BY <1>4, FS_EmptySet
<1>7. Cardinality(S) = Cardinality(S \ R) + (b - a)
  <2>1. Cardinality(S) = Cardinality((S \ R) \cup R)
    BY <1>4, Zenon
  <2> DEFINE rest == Cardinality(S \ R)
  <2>2. Cardinality(S) = rest + Cardinality(R) - 0
    BY <2>1, <1>5, <1>6
  <2>3. rest \in Nat
    BY <1>3
  <2> HIDE DEF R, rest
  <2>4. Cardinality(S) = rest + (b - a)
    BY <2>2, <2>3, <1>1
  <2> QED BY <2>4 DEF rest
<1> DEFINE all == Cardinality(S)  rest == Cardinality(S \ R)
<1>8. all \in Nat /\ rest \in Nat /\ all = rest + (b - a)
  BY <1>2, <1>3, <1>7
<1>9. rest = all - (b - a)
  <2> HIDE DEF all, rest
  <2> QED BY <1>8
<1> QED BY <1>9

-----------------------------------------------------------------------------
(* Operators on the units of a window *)

SameLists(h, g) ==
    /\ g.kind = h.kind
    /\ g.FullListIndex = h.FullListIndex
    /\ g.PreferredWindows = h.PreferredWindows
    /\ g.FullWindows = h.FullWindows

SameUnits(h, g) ==
    /\ g.kind = h.kind
    /\ g.Used = h.Used
    /\ g.FreeUnitCount = h.FreeUnitCount
    /\ g.UsedUnits = h.UsedUnits

\* Carving a free region keeps the units in order, and makes one block live.
LEMMA CarveRegionInv ==
    ASSUME NEW h \in Heaps, BlocksInv(h), NEW c \in Chunks, IsWindow(h, c),
           NEW start \in Units, NEW units \in Nat, units >= 1,
           start + units <= kWindowMaxUnits,
           start..(start + units - 1) \cap h.Used[c] = {},
           NEW g, g = CarveRegion(h, c, start, units)
    PROVE  g \in Heaps /\ BlocksInv(g) /\ ~Live(h, <<c, start>>)
<1> USE Constants
<1>0. /\ SameLists(h, g)
      /\ g.UsedUnits = [h.UsedUnits EXCEPT ![<<c, start>>] = units]
      /\ g.FreeUnitCount = [h.FreeUnitCount EXCEPT ![c] = h.FreeUnitCount[c] - units]
      /\ g.Used = [h.Used EXCEPT ![c] = h.Used[c] \cup start..(start + units - 1)]
      /\ g.ResumeScanOffset = [h.ResumeScanOffset EXCEPT ![c] = start + units]
      /\ g = [kind |-> g.kind, Used |-> g.Used, FreeUnitCount |-> g.FreeUnitCount,
              ResumeScanOffset |-> g.ResumeScanOffset,
              FullListIndex |-> g.FullListIndex, UsedUnits |-> g.UsedUnits,
              PreferredWindows |-> g.PreferredWindows, FullWindows |-> g.FullWindows]
  BY DEF CarveRegion, Heaps, SameLists
<1>1. /\ <<c, start>> \in Ptrs /\ h.UsedUnits[<<c, start>>] \in Nat
      /\ h.Used[c] \in SUBSET Units /\ h.FreeUnitCount[c] \in 0..kWindowMaxUnits
  BY DEF Heaps, Ptrs
<1>2. ~Live(h, <<c, start>>)
  <2> SUFFICES ASSUME Live(h, <<c, start>>) PROVE FALSE
    OBVIOUS
  <2>1. start < End(h, <<c, start>>)
    BY <1>1 DEF End, Live, Units
  <2>2. start \in h.Used[c]
    BY <2>1 DEF BlocksInv, SpansInv, SpansAt, Units
  <2> QED BY <2>2 DEF Units
<1>3. /\ h.Used[c] \cup start..(start + units - 1) \in SUBSET Units
      /\ Cardinality(h.Used[c] \cup start..(start + units - 1)) = Cardinality(h.Used[c]) + units
  <2>1. start \in Nat
    BY DEF Units
  <2> QED BY <1>1, <2>1, CarvedCard
<1>4. h.FreeUnitCount[c] - units = kWindowMaxUnits - Cardinality(h.Used[c] \cup start..(start + units - 1))
  <2>1. h.FreeUnitCount[c] = kWindowMaxUnits - Cardinality(h.Used[c])
    BY DEF BlocksInv, CountInv
  <2> QED BY <1>1, <1>3, <2>1, UsedFinite
<1>5. h.FreeUnitCount[c] - units \in 0..kWindowMaxUnits
  BY <1>3, <1>4, UsedFinite
<1>6. g \in Heaps
  <2>1. start + units \in 0..kWindowMaxUnits
    BY DEF Units
  <2>2. /\ g.UsedUnits \in [Ptrs -> Nat]
        /\ g.FreeUnitCount \in [Chunks -> 0..kWindowMaxUnits]
        /\ g.Used \in [Chunks -> SUBSET Units]
        /\ g.ResumeScanOffset \in [Chunks -> 0..kWindowMaxUnits]
    BY <1>0, <1>1, <1>3, <1>5, <2>1, SMTT(30) DEF Heaps
  <2>3. /\ g.kind \in [Chunks -> {"unused", "window", "fallback"}]
        /\ g.FullListIndex \in [Chunks -> Int]
        /\ g.PreferredWindows \in Seq(Chunks)
        /\ g.FullWindows \in Seq(Chunks)
    BY <1>0 DEF Heaps, SameLists
  <2> QED BY <1>0, <2>2, <2>3 DEF Heaps
<1>7. HeadersInv(g)
  <2>1. g.kind = h.kind /\ HeadersInv(h) /\ h.UsedUnits \in [Ptrs -> Nat]
    BY <1>0 DEF SameLists, BlocksInv, Heaps
  <2>2. \A p \in Ptrs : Live(g, p) <=> (p = <<c, start>> \/ Live(h, p))
    BY <1>0, <1>1, <2>1 DEF Live
  <2>3. h.kind[c] = "window"
    BY DEF IsWindow
  <2>4. \A p \in Ptrs : p = <<c, start>> => p[1] = c
    OBVIOUS
  <2>5. \A d \in Chunks : <<d, 0>> \in Ptrs
    BY DEF Ptrs, Units
  <2> QED BY <2>1, <2>2, <2>3, <2>4, <2>5 DEF HeadersInv
<1>8. SpansInv(g)
  <2>1. /\ g.kind = h.kind /\ SpansInv(h)
        /\ h.UsedUnits \in [Ptrs -> Nat]
        /\ h.Used \in [Chunks -> SUBSET Units]
    BY <1>0 DEF SameLists, BlocksInv, Heaps
  <2> DEFINE E(u) == End(h, <<c, u>>)
  <2>2. \A u \in Units : E(u) = u + h.UsedUnits[<<c, u>>] /\ h.UsedUnits[<<c, u>>] \in Nat
    BY <2>1 DEF End, Ptrs
  <2>3. \A d \in Chunks, u \in Units :
            <<d, u>> # <<c, start>> =>
                /\ Live(g, <<d, u>>) <=> Live(h, <<d, u>>)
                /\ End(g, <<d, u>>) = End(h, <<d, u>>)
    BY <1>0, <2>1 DEF Live, End, Ptrs
  <2>4. Live(g, <<c, start>>) /\ End(g, <<c, start>>) = start + units
    BY <1>0, <1>1, <2>1 DEF Live, End
  <2>5. SpansAt(h, c)
    BY <2>1 DEF SpansInv
  <2>6. SpansAt(g, c)
    <3>1. g.Used[c] = h.Used[c] \cup start..(start + units - 1)
      BY <1>0, <2>1
    <3>2. \A u \in Units : Live(g, <<c, u>>) => End(g, <<c, u>>) <= kWindowMaxUnits
      BY <2>3, <2>4, <2>5 DEF SpansAt
    <3>3. ASSUME NEW u \in Units, NEW x \in Units, u <= x, x < End(g, <<c, u>>)
          PROVE  x \in g.Used[c]
      BY <2>3, <2>4, <2>5, <3>1, <3>3 DEF SpansAt, Units
    <3>4. ASSUME NEW u \in Units, NEW v \in Units, u < v,
                 Live(g, <<c, u>>), Live(g, <<c, v>>)
          PROVE  End(g, <<c, u>>) <= v
      <4>1. CASE u # start /\ v # start
        BY <2>3, <2>5, <3>4, <4>1 DEF SpansAt
      <4>2. CASE u = start
        <5>1. Live(h, <<c, v>>) /\ v < E(v)
          BY <2>2, <2>3, <3>4, <4>2 DEF Live, Units
        <5>2. v \in h.Used[c]
          BY <2>5, <5>1 DEF SpansAt, Units
        <5> QED BY <2>4, <3>4, <4>2, <5>2 DEF Units
      <4>3. CASE v = start
        <5>1. End(g, <<c, u>>) = E(u) /\ E(u) \in Nat
          BY <2>2, <2>3, <3>4, <4>3 DEF Units
        <5>2. start < E(u) => start \in h.Used[c]
          BY <2>5, <3>4, <4>3 DEF SpansAt, Units
        <5>3. start \notin h.Used[c]
          BY DEF Units
        <5> QED BY <4>3, <5>1, <5>2, <5>3 DEF Units
      <4> QED BY <4>1, <4>2, <4>3
    <3>5. ASSUME NEW x \in g.Used[c]
          PROVE  \E u \in Units : u <= x /\ x < End(g, <<c, u>>)
      <4>1. CASE x \in start..(start + units - 1)
        BY <2>4, <4>1 DEF Units
      <4>2. CASE x \in h.Used[c]
        <5>1. PICK u \in Units : u <= x /\ x < End(h, <<c, u>>)
          BY <2>5, <4>2 DEF SpansAt
        <5>2. u # start
          <6>1. x \in Units /\ E(u) \in Nat /\ (u = start => E(u) = u)
            BY <1>1, <1>2, <2>1, <2>2, <4>2 DEF Live, Units
          <6> QED BY <5>1, <6>1 DEF Units
        <5> QED BY <2>3, <5>1, <5>2
      <4> QED BY <3>1, <4>1, <4>2
    <3> QED BY <3>2, <3>3, <3>4, <3>5 DEF SpansAt
  <2>7. ASSUME NEW d \in Chunks, IsWindow(h, d), d # c
        PROVE  SpansAt(g, d)
    <3>1. SpansAt(h, d) /\ g.Used[d] = h.Used[d]
      BY <1>0, <2>1, <2>7 DEF SpansInv
    <3> QED BY <2>3, <2>7, <3>1 DEF SpansAt
  <2> QED BY <2>1, <2>6, <2>7 DEF SpansInv, IsWindow
<1>9. CountInv(g)
  <2>1. /\ g.kind = h.kind /\ CountInv(h)
        /\ h.FreeUnitCount \in [Chunks -> 0..kWindowMaxUnits]
        /\ h.Used \in [Chunks -> SUBSET Units]
    BY <1>0 DEF SameLists, BlocksInv, Heaps
  <2> QED BY <1>0, <1>4, <2>1 DEF CountInv, IsWindow
<1> QED BY <1>2, <1>6, <1>7, <1>8, <1>9 DEF BlocksInv

\* Giving back the tail of a live block (all of it when kept = 0) keeps the
\* units in order.  Free and Shrink are both of this form.
LEMMA ReleaseUnitsInv ==
    ASSUME NEW h \in Heaps, BlocksInv(h), NEW c \in Chunks, IsWindow(h, c),
           NEW start \in Units, Live(h, <<c, start>>),
           NEW kept \in Nat, kept <= h.UsedUnits[<<c, start>>],
           NEW g, g = ReleaseUnits([h EXCEPT !.UsedUnits[<<c, start>>] = kept],
                                   c, start + kept, start + h.UsedUnits[<<c, start>>])
    PROVE  /\ g \in Heaps /\ BlocksInv(g) /\ SameLists(h, g)
           /\ g.UsedUnits = [h.UsedUnits EXCEPT ![<<c, start>>] = kept]
<1> USE Constants
<1> DEFINE units == h.UsedUnits[<<c, start>>]
           from == start + kept
           to == start + units
<1>0. /\ SameLists(h, g)
      /\ g.UsedUnits = [h.UsedUnits EXCEPT ![<<c, start>>] = kept]
      /\ g.FreeUnitCount = [h.FreeUnitCount EXCEPT ![c] = h.FreeUnitCount[c] + (to - from)]
      /\ g.Used = [h.Used EXCEPT ![c] = h.Used[c] \ from..(to - 1)]
      /\ g.ResumeScanOffset = [h.ResumeScanOffset EXCEPT ![c] =
                                 IF h.ResumeScanOffset[c] > from THEN from
                                 ELSE h.ResumeScanOffset[c]]
      /\ g = [kind |-> g.kind, Used |-> g.Used, FreeUnitCount |-> g.FreeUnitCount,
              ResumeScanOffset |-> g.ResumeScanOffset,
              FullListIndex |-> g.FullListIndex, UsedUnits |-> g.UsedUnits,
              PreferredWindows |-> g.PreferredWindows, FullWindows |-> g.FullWindows]
  BY DEF ReleaseUnits, Heaps, SameLists
<1>1. /\ <<c, start>> \in Ptrs /\ units \in Nat /\ units > 0
      /\ start \in Nat /\ from \in Nat /\ to \in Nat /\ from <= to
      /\ h.Used[c] \in SUBSET Units /\ h.FreeUnitCount[c] \in 0..kWindowMaxUnits
      /\ h.ResumeScanOffset[c] \in 0..kWindowMaxUnits
  BY SMTT(30) DEF Heaps, Ptrs, Units, Live
<1>2. /\ g.kind = h.kind /\ SpansInv(h) /\ HeadersInv(h) /\ CountInv(h)
      /\ h.UsedUnits \in [Ptrs -> Nat]
      /\ h.Used \in [Chunks -> SUBSET Units]
      /\ h.FreeUnitCount \in [Chunks -> 0..kWindowMaxUnits]
      /\ h.ResumeScanOffset \in [Chunks -> 0..kWindowMaxUnits]
  BY <1>0 DEF SameLists, BlocksInv, Heaps
<1>3. SpansAt(h, c) /\ End(h, <<c, start>>) = to /\ to <= kWindowMaxUnits
  BY <1>1, <1>2 DEF SpansInv, SpansAt, End
<1>4. from..(to - 1) \subseteq h.Used[c]
  BY <1>1, <1>3 DEF SpansAt, Units
<1>5. /\ h.Used[c] \ from..(to - 1) \in SUBSET Units
      /\ Cardinality(h.Used[c] \ from..(to - 1)) = Cardinality(h.Used[c]) - (to - from)
  <2> HIDE DEF from, to
  <2> QED BY <1>1, <1>4, ReleasedCard
<1>6. /\ h.FreeUnitCount[c] + (to - from)
            = kWindowMaxUnits - Cardinality(h.Used[c] \ from..(to - 1))
      /\ h.FreeUnitCount[c] + (to - from) \in 0..kWindowMaxUnits
  <2>1. h.FreeUnitCount[c] = kWindowMaxUnits - Cardinality(h.Used[c])
    BY <1>2 DEF CountInv
  <2>2. /\ Cardinality(h.Used[c]) \in 0..kWindowMaxUnits
        /\ Cardinality(h.Used[c] \ from..(to - 1)) \in 0..kWindowMaxUnits
    BY <1>1, <1>5, UsedFinite
  <2> HIDE DEF from, to
  <2> QED BY <1>1, <1>5, <2>1, <2>2
<1>7. g \in Heaps
  <2>1. (IF h.ResumeScanOffset[c] > from THEN from ELSE h.ResumeScanOffset[c])
            \in 0..kWindowMaxUnits
    BY <1>1, <1>3
  <2>2. /\ g.UsedUnits \in [Ptrs -> Nat]
        /\ g.FreeUnitCount \in [Chunks -> 0..kWindowMaxUnits]
        /\ g.Used \in [Chunks -> SUBSET Units]
        /\ g.ResumeScanOffset \in [Chunks -> 0..kWindowMaxUnits]
    <3> HIDE DEF from, to, units
    <3>1. g.UsedUnits \in [Ptrs -> Nat]
      BY <1>0, <1>2
    <3>2. g.FreeUnitCount \in [Chunks -> 0..kWindowMaxUnits]
      BY <1>0, <1>2, <1>6, ZenonT(60)
    <3>3. g.Used \in [Chunks -> SUBSET Units]
      BY <1>0, <1>2, <1>5, ZenonT(60)
    <3>4. g.ResumeScanOffset \in [Chunks -> 0..kWindowMaxUnits]
      BY <1>0, <1>2, <2>1, ZenonT(60)
    <3> QED BY <3>1, <3>2, <3>3, <3>4
  <2>3. /\ g.kind \in [Chunks -> {"unused", "window", "fallback"}]
        /\ g.FullListIndex \in [Chunks -> Int]
        /\ g.PreferredWindows \in Seq(Chunks)
        /\ g.FullWindows \in Seq(Chunks)
    BY <1>0 DEF Heaps, SameLists
  <2> QED BY <1>0, <2>2, <2>3 DEF Heaps
<1>8. HeadersInv(g)
  <2>1. \A p \in Ptrs : /\ Live(g, p) => Live(h, p)
                        /\ p[1] # c => (Live(g, p) <=> Live(h, p))
    BY <1>0, <1>1, <1>2 DEF Live
  <2>2. h.kind[c] = "window"
    BY DEF IsWindow
  <2>3. \A d \in Chunks : <<d, 0>> \in Ptrs
    BY DEF Ptrs, Units
  <2> QED BY <1>2, <2>1, <2>2, <2>3 DEF HeadersInv
<1>9. SpansInv(g)
  <2> DEFINE E(u) == End(h, <<c, u>>)
  <2>1. \A u \in Units : E(u) = u + h.UsedUnits[<<c, u>>] /\ h.UsedUnits[<<c, u>>] \in Nat
    BY <1>2 DEF End, Ptrs
  <2>2. \A d \in Chunks, u \in Units :
            <<d, u>> # <<c, start>> =>
                /\ Live(g, <<d, u>>) <=> Live(h, <<d, u>>)
                /\ End(g, <<d, u>>) = End(h, <<d, u>>)
    BY <1>0, <1>2 DEF Live, End, Ptrs
  <2>3. End(g, <<c, start>>) = from
    BY <1>0, <1>1, <1>2 DEF End
  <2>4. SpansAt(g, c)
    <3>1. g.Used[c] = h.Used[c] \ from..(to - 1)
      BY <1>0, <1>2
    <3>2. \A u \in Units : Live(g, <<c, u>>) => End(g, <<c, u>>) <= kWindowMaxUnits
      BY <1>1, <1>3, <2>2, <2>3 DEF SpansAt
    <3>3. ASSUME NEW u \in Units, NEW x \in Units, u <= x, x < End(g, <<c, u>>)
          PROVE  x \in g.Used[c]
      <4>1. CASE u = start
        BY <1>1, <1>3, <2>3, <3>1, <3>3, <4>1 DEF SpansAt, Units
      <4>2. CASE u # start
        <5>1. x < E(u) /\ x \in h.Used[c]
          BY <1>3, <2>2, <3>3, <4>2 DEF SpansAt
        <5>2. Live(h, <<c, u>>)
          BY <2>1, <3>3, <5>1 DEF Live, Units
        <5>3. u < start => E(u) <= start
          BY <1>3, <5>2 DEF SpansAt
        <5>4. start < u => to <= u
          BY <1>3, <5>2 DEF SpansAt
        <5> QED BY <1>1, <2>1, <3>1, <3>3, <4>2, <5>1, <5>3, <5>4 DEF Units
      <4> QED BY <4>1, <4>2
    <3>4. ASSUME NEW u \in Units, NEW v \in Units, u < v,
                 Live(g, <<c, u>>), Live(g, <<c, v>>)
          PROVE  End(g, <<c, u>>) <= v
      <4>1. Live(h, <<c, v>>)
        BY <2>2, <3>4
      <4>2. CASE u = start
        BY <1>1, <1>3, <2>3, <3>4, <4>1, <4>2 DEF SpansAt, Units
      <4>3. CASE u # start
        BY <1>3, <2>2, <3>4, <4>1, <4>3 DEF SpansAt
      <4> QED BY <4>2, <4>3
    <3>5. ASSUME NEW x \in g.Used[c]
          PROVE  \E u \in Units : u <= x /\ x < End(g, <<c, u>>)
      <4>1. PICK u \in Units : u <= x /\ x < End(h, <<c, u>>)
        BY <1>3, <3>1 DEF SpansAt
      <4>2. u = start => x < from
        BY <1>1, <1>3, <3>1, <4>1 DEF Units
      <4> QED BY <2>2, <2>3, <4>1, <4>2
    <3> QED BY <3>2, <3>3, <3>4, <3>5 DEF SpansAt
  <2>5. ASSUME NEW d \in Chunks, IsWindow(h, d), d # c
        PROVE  SpansAt(g, d)
    <3>1. SpansAt(h, d) /\ g.Used[d] = h.Used[d]
      BY <1>0, <1>2, <2>5 DEF SpansInv
    <3> QED BY <2>2, <2>5, <3>1 DEF SpansAt
  <2> QED BY <1>2, <2>4, <2>5 DEF SpansInv, IsWindow
<1>10. CountInv(g)
  <2> HIDE DEF from, to
  <2> QED BY <1>0, <1>2, <1>6 DEF CountInv, IsWindow
<1> QED BY <1>0, <1>7, <1>8, <1>9, <1>10 DEF BlocksInv

-----------------------------------------------------------------------------
(* Operators on the window lists *)

\* BlocksInv looks at no field that the list operators change.
LEMMA BlocksInvOfSameUnits ==
    ASSUME NEW h, NEW g, SameUnits(h, g), BlocksInv(h)
    PROVE  BlocksInv(g)
BY DEF SameUnits, BlocksInv, HeadersInv, SpansInv, SpansAt, CountInv, Live, End, IsWindow

LEMMA SpansAtSame ==
    ASSUME NEW h, NEW g, NEW c, g.Used[c] = h.Used[c], SpansAt(h, c),
           \A u \in Units : g.UsedUnits[<<c, u>>] = h.UsedUnits[<<c, u>>]
    PROVE  SpansAt(g, c)
BY DEF SpansAt, Live, End

\* ListsInv looks at no field that carving and releasing change.
LEMMA ListsInvOfSameLists ==
    ASSUME NEW h, NEW g, SameLists(h, g), ListsInv(h)
    PROVE  ListsInv(g)
BY DEF SameLists, ListsInv, IsWindow

\* Moving the tail of the preferred list keeps every window on one list.
LEMMA MoveLastFewInv ==
    ASSUME NEW h \in Heaps, ListsInv(h), NEW count \in 0..Len(h.PreferredWindows),
           NEW g, g = moveLastFewWindowsToFull(h, count)
    PROVE  g \in Heaps /\ ListsInv(g) /\ SameUnits(h, g)
<1> DEFINE P == h.PreferredWindows
           F == h.FullWindows
           kept == Len(P) - count
           moved == [i \in 1..count |-> P[Len(P) + 1 - i]]
           index == [c \in Chunks |->
                        IF \E i \in 1..count : moved[i] = c
                        THEN Len(F) + (CHOOSE i \in 1..count : moved[i] = c) - 1
                        ELSE h.FullListIndex[c]]
<1>1. /\ SameUnits(h, g)
      /\ g.PreferredWindows = SubSeq(P, 1, kept)
      /\ g.FullWindows = F \o moved
      /\ g.FullListIndex = index
      /\ g.ResumeScanOffset = h.ResumeScanOffset
      /\ g = [kind |-> g.kind, Used |-> g.Used, FreeUnitCount |-> g.FreeUnitCount,
              ResumeScanOffset |-> g.ResumeScanOffset,
              FullListIndex |-> g.FullListIndex, UsedUnits |-> g.UsedUnits,
              PreferredWindows |-> g.PreferredWindows, FullWindows |-> g.FullWindows]
  BY DEF moveLastFewWindowsToFull, Heaps, SameUnits
<1>2. /\ P \in Seq(Chunks) /\ F \in Seq(Chunks)
      /\ Len(P) \in Nat /\ Len(F) \in Nat
      /\ DOMAIN P = 1..Len(P) /\ DOMAIN F = 1..Len(F)
      /\ \A i \in 1..Len(P) : P[i] \in Chunks
      /\ \A i \in 1..Len(F) : F[i] \in Chunks
      /\ h.FullListIndex \in [Chunks -> Int]
  BY LenProperties, ElementOfSeq DEF Heaps
<1>3. /\ count \in Nat /\ kept \in Nat /\ kept + count = Len(P)
      /\ \A i \in 1..count : Len(P) + 1 - i \in 1..Len(P) /\ Len(P) + 1 - i > kept
  BY <1>2
<1>4. /\ moved \in Seq(Chunks) /\ Len(moved) = count
      /\ \A i \in 1..count : moved[i] = P[Len(P) + 1 - i]
  BY <1>2, <1>3
<1>5. /\ SubSeq(P, 1, kept) \in Seq(Chunks) /\ Len(SubSeq(P, 1, kept)) = kept
      /\ \A i \in 1..kept : SubSeq(P, 1, kept)[i] = P[i]
  BY <1>2, <1>3, SubSeqProperties
<1>6. /\ F \o moved \in Seq(Chunks) /\ Len(F \o moved) = Len(F) + count
      /\ \A i \in 1..Len(F) : (F \o moved)[i] = F[i]
      /\ \A i \in 1..count : (F \o moved)[Len(F) + i] = moved[i]
  <2> HIDE DEF moved, F
  <2>1. /\ F \o moved \in Seq(Chunks) /\ Len(F \o moved) = Len(F) + Len(moved)
        /\ \A i \in 1..(Len(F) + Len(moved)) :
              (F \o moved)[i] = IF i <= Len(F) THEN F[i] ELSE moved[i - Len(F)]
    BY <1>2, <1>4, ConcatProperties
  <2>2. \A i \in 1..count : Len(F) + i \in 1..(Len(F) + Len(moved))
                             /\ ~(Len(F) + i <= Len(F)) /\ (Len(F) + i) - Len(F) = i
    BY <1>2, <1>3, <1>4
  <2> QED BY <1>2, <1>3, <1>4, <2>1, <2>2
<1>7. \A i, j \in 1..count : moved[i] = moved[j] => i = j
  <2>1. \A i, j \in DOMAIN P : P[i] = P[j] => i = j
    BY DEF ListsInv
  <2> HIDE DEF moved, P, kept
  <2> TAKE i, j \in 1..count
  <2>2. /\ Len(P) + 1 - i \in 1..Len(P) /\ Len(P) + 1 - j \in 1..Len(P)
    BY <1>3
  <2>4. Len(P) + 1 - i = Len(P) + 1 - j => i = j
    <3>1. Len(P) \in Int /\ i \in Int /\ j \in Int
      BY <1>2
    <3> QED BY <3>1
  <2>3. moved[i] = P[Len(P) + 1 - i] /\ moved[j] = P[Len(P) + 1 - j]
    BY <1>4
  <2> QED BY <1>2, <2>1, <2>2, <2>3, <2>4
<1>8. ASSUME NEW i \in 1..count
      PROVE  index[moved[i]] = Len(F) + i - 1
  <2>1. moved[i] \in Chunks
    BY <1>2, <1>3, <1>4
  <2>2. (CHOOSE j \in 1..count : moved[j] = moved[i]) = i
    <3> HIDE DEF moved
    <3> QED BY <1>7
  <2> HIDE DEF moved
  <2> QED BY <2>1, <2>2
<1>9. ASSUME NEW c \in Chunks, \A i \in 1..count : moved[i] # c
      PROVE  index[c] = h.FullListIndex[c]
  <2> HIDE DEF moved
  <2> QED BY <1>9
<1>10. index \in [Chunks -> Int]
  <2> HIDE DEF moved, F
  <2>1. ASSUME NEW c \in Chunks
        PROVE  index[c] \in Int
    <3>1. CASE \E i \in 1..count : moved[i] = c
      <4>1. PICK i \in 1..count : moved[i] = c
        BY <3>1
      <4> HIDE DEF index
      <4> QED BY <1>2, <1>8, <4>1
    <3>2. CASE \A i \in 1..count : moved[i] # c
      BY <1>2, <1>9, <3>2
    <3> QED BY <3>1, <3>2
  <2> QED BY <2>1
<1>11. g \in Heaps
  <2> HIDE DEF moved, index, P, F, kept
  <2> QED BY <1>1, <1>5, <1>6, <1>10 DEF Heaps, SameUnits
<1>12. ListsInv(g)
  <2> DEFINE Q == g.PreferredWindows
             G == g.FullWindows
  <2>1. /\ DOMAIN Q = 1..kept
        /\ DOMAIN G = 1..(Len(F) + count)
    <3> HIDE DEF moved, index, P, F, kept
    <3> QED BY <1>1, <1>5, <1>6, LenProperties
  <2>2. \A c : IsWindow(g, c) <=> IsWindow(h, c)
    BY <1>1 DEF IsWindow, SameUnits
  <2>3. /\ \A i \in 1..Len(P) : IsWindow(h, P[i]) /\ h.FullListIndex[P[i]] = kNotInFullList
        /\ \A i, j \in 1..Len(P) : P[i] = P[j] => i = j
        /\ \A i \in 1..Len(F) : IsWindow(h, F[i]) /\ h.FullListIndex[F[i]] = i - 1
        /\ \A c \in Chunks : IsWindow(h, c) =>
              (\E i \in 1..Len(P) : P[i] = c) \/ (\E i \in 1..Len(F) : F[i] = c)
    BY <1>2 DEF ListsInv
  <2>4. /\ \A i \in 1..kept : Q[i] = P[i] /\ i \in 1..Len(P)
        /\ \A i \in 1..Len(F) : G[i] = F[i]
        /\ \A i \in 1..count : G[Len(F) + i] = moved[i]
        /\ g.FullListIndex = index
    <3> HIDE DEF moved, index, P, F, kept
    <3>1. \A i \in 1..kept : i \in 1..Len(P)
      BY <1>2, <1>3
    <3> QED BY <1>1, <1>5, <1>6, <3>1
  <2> HIDE DEF moved, index, P, F, kept, Q, G
  <2>5. \A i \in 1..kept : IsWindow(g, Q[i]) /\ g.FullListIndex[Q[i]] = kNotInFullList
    <3> TAKE i \in 1..kept
    <3>1. ASSUME NEW j \in 1..count
          PROVE  moved[j] # P[i]
      <4>1. moved[j] = P[Len(P) + 1 - j] /\ Len(P) + 1 - j \in 1..Len(P)
            /\ Len(P) + 1 - j > kept
        BY <1>3, <1>4
      <4>2. Len(P) + 1 - j # i /\ i \in 1..Len(P)
        BY <1>3, <2>4, <4>1
      <4> QED BY <2>3, <4>1, <4>2
    <3>2. index[P[i]] = h.FullListIndex[P[i]]
      BY <1>2, <1>9, <2>4, <3>1
    <3> QED BY <2>2, <2>3, <2>4, <3>2
  <2>6. \A i, j \in 1..kept : Q[i] = Q[j] => i = j
    BY <2>3, <2>4
  <2>7. \A i \in 1..(Len(F) + count) : IsWindow(g, G[i]) /\ g.FullListIndex[G[i]] = i - 1
    <3> TAKE i \in 1..(Len(F) + count)
    <3>1. CASE i \in 1..Len(F)
      <4>1. \A j \in 1..count : moved[j] # F[i]
        <5>1. ASSUME NEW j \in 1..count
              PROVE  h.FullListIndex[moved[j]] = kNotInFullList
          <6>1. moved[j] = P[Len(P) + 1 - j] /\ Len(P) + 1 - j \in 1..Len(P)
            BY <1>3, <1>4
          <6> QED BY <2>3, <6>1
        <5>2. h.FullListIndex[F[i]] = i - 1
          BY <2>3, <3>1
        <5>3. i - 1 # kNotInFullList
          BY <1>2, <3>1 DEF kNotInFullList
        <5> QED BY <5>1, <5>2, <5>3
      <4>2. index[F[i]] = h.FullListIndex[F[i]]
        BY <1>2, <1>9, <3>1, <4>1
      <4> QED BY <2>2, <2>3, <2>4, <3>1, <4>2
    <3>2. CASE i > Len(F)
      <4>1. PICK j \in 1..count : i = Len(F) + j
        <5>1. i - Len(F) \in 1..count /\ i = Len(F) + (i - Len(F))
          BY <1>2, <1>3, <3>2
        <5> QED BY <5>1
      <4>2. G[i] = moved[j] /\ index[moved[j]] = i - 1
        <5>1. Len(F) + j - 1 = i - 1
          BY <1>2, <4>1
        <5> QED BY <1>8, <2>4, <4>1, <5>1
      <4>3. IsWindow(h, moved[j])
        BY <1>3, <1>4, <2>3
      <4> QED BY <2>2, <2>4, <4>2, <4>3
    <3> QED BY <1>2, <1>3, <3>1, <3>2
  <2>8. ASSUME NEW c \in Chunks, IsWindow(g, c)
        PROVE  (\E i \in 1..kept : Q[i] = c) \/ (\E i \in 1..(Len(F) + count) : G[i] = c)
    <3>1. CASE \E i \in 1..Len(P) : P[i] = c
      <4>1. PICK i \in 1..Len(P) : P[i] = c
        BY <3>1
      <4>2. CASE i <= kept
        <5>1. i \in 1..kept
          BY <1>2, <1>3, <4>1, <4>2
        <5> QED BY <2>4, <4>1, <5>1
      <4>3. CASE i > kept
        <5>1. /\ Len(P) + 1 - i \in 1..count
              /\ Len(P) + 1 - (Len(P) + 1 - i) = i
              /\ Len(F) + (Len(P) + 1 - i) \in 1..(Len(F) + count)
          BY <1>2, <1>3, <4>3, SMTT(30)
        <5>2. G[Len(F) + (Len(P) + 1 - i)] = c
          BY <1>4, <2>4, <4>1, <5>1
        <5> QED BY <5>1, <5>2
      <4>4. i <= kept \/ i > kept
        BY <1>2, <1>3, <4>1
      <4> QED BY <4>2, <4>3, <4>4
    <3>2. CASE \E i \in 1..Len(F) : F[i] = c
      <4>1. \A i \in 1..Len(F) : i \in 1..(Len(F) + count)
        BY <1>2, <1>3
      <4> QED BY <2>4, <3>2, <4>1
    <3> QED BY <2>2, <2>3, <2>8, <3>1, <3>2
  <2> QED BY <2>1, <2>5, <2>6, <2>7, <2>8 DEF ListsInv, Q, G
<1> QED BY <1>1, <1>11, <1>12

\* Promoting a full window closes the gap it leaves in the full list.
LEMMA MoveFullWindowInv ==
    ASSUME NEW h \in Heaps, ListsInv(h), NEW c \in Chunks, IsWindow(h, c),
           h.FullListIndex[c] # kNotInFullList,
           NEW g, g = MoveFullWindowToPreferred(h, c)
    PROVE  /\ g \in Heaps /\ ListsInv(g) /\ SameUnits(h, g)
           /\ g.FullListIndex[c] = kNotInFullList
<1> DEFINE P == h.PreferredWindows
           F == h.FullWindows
           slot == h.FullListIndex[c] + 1
           last == F[Len(F)]
           F2 == [F EXCEPT ![slot] = last]
           index == [h.FullListIndex EXCEPT ![last] = slot - 1, ![c] = kNotInFullList]
<1>1. /\ SameUnits(h, g)
      /\ g.PreferredWindows = Append(P, c)
      /\ g.FullWindows = SubSeq(F2, 1, Len(F) - 1)
      /\ g.FullListIndex = index
      /\ g.ResumeScanOffset = [h.ResumeScanOffset EXCEPT ![c] = 0]
      /\ g = [kind |-> g.kind, Used |-> g.Used, FreeUnitCount |-> g.FreeUnitCount,
              ResumeScanOffset |-> g.ResumeScanOffset,
              FullListIndex |-> g.FullListIndex, UsedUnits |-> g.UsedUnits,
              PreferredWindows |-> g.PreferredWindows, FullWindows |-> g.FullWindows]
  BY DEF MoveFullWindowToPreferred, Heaps, SameUnits
<1>2. /\ P \in Seq(Chunks) /\ F \in Seq(Chunks)
      /\ Len(P) \in Nat /\ Len(F) \in Nat
      /\ DOMAIN P = 1..Len(P) /\ DOMAIN F = 1..Len(F)
      /\ \A i \in 1..Len(P) : P[i] \in Chunks
      /\ \A i \in 1..Len(F) : F[i] \in Chunks
      /\ h.FullListIndex \in [Chunks -> Int]
      /\ h.ResumeScanOffset \in [Chunks -> 0..kWindowMaxUnits]
  BY LenProperties, ElementOfSeq DEF Heaps
<1>3. /\ \A i \in 1..Len(P) : IsWindow(h, P[i]) /\ h.FullListIndex[P[i]] = kNotInFullList
      /\ \A i, j \in 1..Len(P) : P[i] = P[j] => i = j
      /\ \A i \in 1..Len(F) : IsWindow(h, F[i]) /\ h.FullListIndex[F[i]] = i - 1
      /\ \A d \in Chunks : IsWindow(h, d) =>
            (\E i \in 1..Len(P) : P[i] = d) \/ (\E i \in 1..Len(F) : F[i] = d)
  BY <1>2 DEF ListsInv
<1>4. slot \in 1..Len(F) /\ F[slot] = c
  <2>1. PICK i \in 1..Len(F) : F[i] = c
    BY <1>3
  <2>2. slot = i
    BY <1>3, <2>1
  <2> QED BY <2>1, <2>2
<1>5. Len(F) \in 1..Len(F) /\ last \in Chunks /\ h.FullListIndex[last] = Len(F) - 1
  <2> HIDE DEF F, slot
  <2>1. Len(F) \in Int /\ slot \in Int /\ slot >= 1 /\ slot <= Len(F)
    BY <1>2, <1>4
  <2>2. Len(F) \in 1..Len(F)
    BY <2>1
  <2> QED BY <1>2, <1>3, <2>2
<1>13. Len(P) \in Nat /\ Len(F) \in Nat /\ slot \in Int /\ slot >= 1 /\ slot <= Len(F)
  <2> HIDE DEF P, F, slot
  <2> QED BY <1>2, <1>4
<1>6. /\ F2 \in Seq(Chunks) /\ Len(F2) = Len(F)
      /\ \A i \in 1..Len(F) : F2[i] = IF i = slot THEN last ELSE F[i]
  <2> HIDE DEF F, slot, last
  <2> QED BY <1>2, <1>4, <1>5, ExceptSeq
<1>7. /\ g.FullWindows \in Seq(Chunks) /\ Len(g.FullWindows) = Len(F) - 1
      /\ DOMAIN g.FullWindows = 1..(Len(F) - 1)
      /\ \A i \in 1..(Len(F) - 1) : g.FullWindows[i] = IF i = slot THEN last ELSE F[i]
  <2> HIDE DEF F, slot, last, F2
  <2>1. /\ \A i \in 1..(Len(F) - 1) : i \in 1..Len(F2) /\ i \in 1..Len(F)
        /\ Len(F) - 1 \in Int /\ Len(F) - 1 >= 0
    BY <1>2, <1>5, <1>6
  <2>2. \A i \in 1..(Len(F) - 1) : F2[i] \in Chunks
    BY <1>6, <2>1, ElementOfSeq
  <2>3. /\ g.FullWindows \in Seq(Chunks)
        /\ Len(g.FullWindows) = IF 1 <= Len(F) - 1 THEN (Len(F) - 1) - 1 + 1 ELSE 0
        /\ \A i \in 1 .. ((Len(F) - 1) - 1 + 1) : g.FullWindows[i] = F2[1 + i - 1]
    BY <1>1, <2>1, <2>2, SubSeqProperties, SMTT(30)
  <2>4. Len(g.FullWindows) = Len(F) - 1
    <3>1. \A n \in Nat : n >= 1 => (IF 1 <= n - 1 THEN (n - 1) - 1 + 1 ELSE 0) = n - 1
      OBVIOUS
    <3>2. Len(g.FullWindows) = IF 1 <= Len(F) - 1 THEN (Len(F) - 1) - 1 + 1 ELSE 0
      BY <2>3
    <3>3. Len(F) \in Nat /\ Len(F) >= 1
      BY <1>13
    <3>4. (IF 1 <= Len(F) - 1 THEN (Len(F) - 1) - 1 + 1 ELSE 0) = Len(F) - 1
      BY <3>1, <3>3
    <3> QED BY <3>2, <3>4
  <2>5. \A i \in 1..(Len(F) - 1) : g.FullWindows[i] = F2[i]
    BY <2>1, <2>3
  <2> QED BY <1>6, <2>1, <2>3, <2>4, <2>5, LenProperties
<1>8. /\ g.PreferredWindows \in Seq(Chunks)
      /\ DOMAIN g.PreferredWindows = 1..(Len(P) + 1)
      /\ \A i \in 1..Len(P) : g.PreferredWindows[i] = P[i]
      /\ g.PreferredWindows[Len(P) + 1] = c
  <2> HIDE DEF P
  <2> QED BY <1>1, <1>2, AppendProperties, LenProperties
<1>9. /\ index \in [Chunks -> Int]
      /\ index[c] = kNotInFullList
      /\ last # c => index[last] = slot - 1
      /\ \A d \in Chunks : d # c /\ d # last => index[d] = h.FullListIndex[d]
  <2> HIDE DEF last, F, slot, P, F2
  <2>1. slot - 1 \in Int /\ kNotInFullList \in Int
    BY <1>13 DEF kNotInFullList
  <2> QED BY <1>2, <1>5, <2>1
<1>10. g \in Heaps
  <2>1. g.ResumeScanOffset \in [Chunks -> 0..kWindowMaxUnits]
    BY <1>1, <1>2, Constants
  <2> HIDE DEF P, F, slot, last, F2, index
  <2> QED BY <1>1, <1>7, <1>8, <1>9, <2>1 DEF Heaps, SameUnits
<1>11. ListsInv(g)
  <2>1. \A d : IsWindow(g, d) <=> IsWindow(h, d)
    BY <1>1 DEF IsWindow, SameUnits
  <2>2. g.FullListIndex = index
    BY <1>1
  <2> HIDE DEF P, F, slot, last, F2, index
  <2>3. ASSUME NEW i \in 1..Len(P)
        PROVE  P[i] # c /\ index[P[i]] = kNotInFullList
    <3>1. P[i] # c /\ P[i] # last
      BY <1>2, <1>3, <1>5, SMTT(30) DEF kNotInFullList
    <3> QED BY <1>2, <1>3, <1>9, <3>1
  <2>4. \A i \in 1..(Len(P) + 1) : i \in 1..Len(P) \/ i = Len(P) + 1
    BY <1>2
  <2>5. \A i \in 1..(Len(P) + 1) :
            IsWindow(g, g.PreferredWindows[i])
            /\ g.FullListIndex[g.PreferredWindows[i]] = kNotInFullList
    BY <1>3, <1>8, <1>9, <2>1, <2>2, <2>3, <2>4, ZenonT(60)
  <2>6. \A i, j \in 1..(Len(P) + 1) : g.PreferredWindows[i] = g.PreferredWindows[j] => i = j
    BY <1>3, <1>8, <2>3, <2>4
  <2>7. ASSUME NEW i \in 1..(Len(F) - 1)
        PROVE  IsWindow(g, g.FullWindows[i]) /\ g.FullListIndex[g.FullWindows[i]] = i - 1
    <3>1. i \in 1..Len(F) /\ i # Len(F)
      BY <1>13
    <3>2. CASE i = slot
      <4>1. last # c
        <5>1. h.FullListIndex[F[slot]] = slot - 1
          BY <1>3, <1>4
        <5>2. slot - 1 # Len(F) - 1
          BY <1>13, <3>1, <3>2
        <5> QED BY <1>4, <1>5, <5>1, <5>2
      <4>2. IsWindow(h, last)
        BY <1>3, <1>5 DEF last
      <4> QED BY <1>7, <1>9, <2>1, <2>2, <3>2, <4>1, <4>2
    <3>3. CASE i # slot
      <4>1. h.FullListIndex[F[i]] = i - 1 /\ IsWindow(h, F[i]) /\ F[i] \in Chunks
        BY <1>2, <1>3, <3>1
      <4>2. i - 1 # slot - 1 /\ i - 1 # Len(F) - 1
        BY <1>13, <3>1, <3>3
      <4>3. h.FullListIndex[c] = slot - 1
        BY <1>3, <1>4
      <4>4. F[i] # c /\ F[i] # last
        BY <1>5, <4>1, <4>2, <4>3
      <4> QED BY <1>7, <1>9, <2>1, <2>2, <3>3, <4>1, <4>4
    <3> QED BY <3>2, <3>3
  <2>8. ASSUME NEW d \in Chunks, IsWindow(g, d)
        PROVE  \/ \E i \in 1..(Len(P) + 1) : g.PreferredWindows[i] = d
               \/ \E i \in 1..(Len(F) - 1) : g.FullWindows[i] = d
    <3>0. Len(P) + 1 \in 1..(Len(P) + 1) /\ \A i \in 1..Len(P) : i \in 1..(Len(P) + 1)
      BY <1>2
    <3>1. CASE d = c
      BY <1>8, <3>0, <3>1
    <3>2. CASE d # c /\ \E i \in 1..Len(P) : P[i] = d
      BY <1>8, <3>0, <3>2
    <3>3. CASE d # c /\ \E i \in 1..Len(F) : F[i] = d
      <4>1. PICK i \in 1..Len(F) : F[i] = d
        BY <3>3
      <4>2. CASE i # Len(F)
        <5>1. i \in 1..(Len(F) - 1)
          BY <1>13, <4>1, <4>2
        <5>2. i # slot
          BY <1>4, <3>3, <4>1
        <5> QED BY <1>7, <4>1, <5>1, <5>2
      <4>3. CASE i = Len(F)
        <5>1. last = d
          BY <4>1, <4>3 DEF last
        <5>2. slot # Len(F)
          BY <1>4, <3>3, <4>1, <4>3
        <5>3. slot \in 1..(Len(F) - 1)
          BY <1>13, <5>2
        <5> QED BY <1>7, <5>1, <5>3
      <4> QED BY <4>2, <4>3
    <3> QED BY <1>3, <2>1, <2>8, <3>1, <3>2, <3>3
  <2> QED BY <1>7, <1>8, <2>5, <2>6, <2>7, <2>8 DEF ListsInv
<1> QED BY <1>1, <1>9, <1>10, <1>11

-----------------------------------------------------------------------------
(* Chunks that come from calloc() and go back *)

\* A chunk that turns into a window is empty and preferred.
LEMMA NewWindowInv ==
    ASSUME NEW h, HeapInv(h), NEW c \in UnusedChunks(h),
           NEW g, g = NewWindow(h, c)
    PROVE  /\ HeapInv(g) /\ c \in Chunks /\ g.Used[c] = {}
           /\ g.kind = [h.kind EXCEPT ![c] = "window"]
           /\ g.UsedUnits = h.UsedUnits
<1> USE Constants
<1> DEFINE P == h.PreferredWindows
<1>0. h \in Heaps /\ c \in Chunks /\ h.kind[c] = "unused"
  BY DEF HeapInv, UnusedChunks
<1>1. /\ g.kind = [h.kind EXCEPT ![c] = "window"]
      /\ g.UsedUnits = h.UsedUnits
      /\ g.FreeUnitCount = [h.FreeUnitCount EXCEPT ![c] = kWindowMaxUnits]
      /\ g.Used = [h.Used EXCEPT ![c] = {}]
      /\ g.ResumeScanOffset = [h.ResumeScanOffset EXCEPT ![c] = 0]
      /\ g.FullListIndex = [h.FullListIndex EXCEPT ![c] = kNotInFullList]
      /\ g.PreferredWindows = Append(P, c)
      /\ g.FullWindows = h.FullWindows
      /\ g = [kind |-> g.kind, Used |-> g.Used, FreeUnitCount |-> g.FreeUnitCount,
              ResumeScanOffset |-> g.ResumeScanOffset,
              FullListIndex |-> g.FullListIndex, UsedUnits |-> g.UsedUnits,
              PreferredWindows |-> g.PreferredWindows, FullWindows |-> g.FullWindows]
  BY <1>0 DEF NewWindow, Heaps
<1>2. /\ h.kind \in [Chunks -> {"unused", "window", "fallback"}]
      /\ h.FreeUnitCount \in [Chunks -> 0..kWindowMaxUnits]
      /\ h.Used \in [Chunks -> SUBSET Units]
      /\ h.ResumeScanOffset \in [Chunks -> 0..kWindowMaxUnits]
      /\ h.FullListIndex \in [Chunks -> Int]
      /\ h.UsedUnits \in [Ptrs -> Nat]
      /\ P \in Seq(Chunks) /\ h.FullWindows \in Seq(Chunks)
  BY <1>0 DEF Heaps
<1>3. /\ g.PreferredWindows \in Seq(Chunks) /\ Len(P) \in Nat
      /\ DOMAIN P = 1..Len(P) /\ DOMAIN g.PreferredWindows = 1..(Len(P) + 1)
      /\ \A i \in 1..Len(P) : g.PreferredWindows[i] = P[i]
      /\ g.PreferredWindows[Len(P) + 1] = c
  <2> HIDE DEF P
  <2> QED BY <1>0, <1>1, <1>2, AppendProperties, LenProperties
<1>4. g \in Heaps
  <2>1. g.kind \in [Chunks -> {"unused", "window", "fallback"}]
    BY <1>0, <1>1, <1>2
  <2>5. /\ g.FreeUnitCount \in [Chunks -> 0..kWindowMaxUnits]
        /\ g.ResumeScanOffset \in [Chunks -> 0..kWindowMaxUnits]
    <3>1. kWindowMaxUnits \in 0..kWindowMaxUnits /\ 0 \in 0..kWindowMaxUnits
      OBVIOUS
    <3> QED BY <1>0, <1>1, <1>2, <3>1
  <2>2. g.Used \in [Chunks -> SUBSET Units]
    BY <1>0, <1>1, <1>2
  <2>3. g.FullListIndex \in [Chunks -> Int]
    BY <1>0, <1>1, <1>2 DEF kNotInFullList
  <2>4. g.PreferredWindows \in Seq(Chunks) /\ g.FullWindows \in Seq(Chunks)
    BY <1>1, <1>2, <1>3
  <2> QED BY <1>1, <1>2, <2>1, <2>2, <2>3, <2>4, <2>5 DEF Heaps
<1>5. \A p \in Ptrs : Live(g, p) <=> Live(h, p)
  BY <1>1 DEF Live
<1>6. HeadersInv(g)
  BY <1>0, <1>1, <1>2, <1>5, SMTT(30) DEF HeapInv, BlocksInv, HeadersInv, Live
<1>7. SpansInv(g)
  <2>1. \A u \in Units : ~Live(g, <<c, u>>) /\ End(g, <<c, u>>) = u
    <3> TAKE u \in Units
    <3>1. ~Live(h, <<c, u>>) /\ <<c, u>> \in Ptrs
      BY <1>0 DEF HeapInv, BlocksInv, HeadersInv, Ptrs
    <3>2. h.UsedUnits[<<c, u>>] = 0
      BY <1>2, <3>1 DEF Live
    <3> QED BY <1>1, <1>5, <3>1, <3>2 DEF End, Units
  <2>2. SpansAt(g, c)
    <3>1. g.Used[c] = {}
      BY <1>0, <1>1, <1>2
    <3> QED BY <2>1, <3>1 DEF SpansAt, Units
  <2>3. ASSUME NEW d \in Chunks, d # c, IsWindow(g, d)
        PROVE  SpansAt(g, d)
    <3>1. SpansAt(h, d) /\ g.Used[d] = h.Used[d]
      BY <1>1, <1>2, <2>3 DEF HeapInv, BlocksInv, SpansInv, IsWindow
    <3> QED BY <1>1, <3>1, SpansAtSame
  <2> QED BY <2>2, <2>3 DEF SpansInv
<1>8. CountInv(g)
  <2>1. Cardinality({}) = 0
    BY FS_EmptySet
  <2> QED BY <1>0, <1>1, <1>2, <2>1 DEF HeapInv, BlocksInv, CountInv, IsWindow
<1>9. ListsInv(g)
  <2>0. /\ \A i \in 1..Len(P) : P[i] \in Chunks
        /\ \A i \in DOMAIN h.FullWindows : h.FullWindows[i] \in Chunks
    BY <1>2, ElementOfSeq, LenProperties
  <2>1. /\ \A i \in 1..Len(P) : IsWindow(h, P[i]) /\ h.FullListIndex[P[i]] = kNotInFullList
        /\ \A i, j \in 1..Len(P) : P[i] = P[j] => i = j
        /\ \A i \in DOMAIN h.FullWindows :
              IsWindow(h, h.FullWindows[i]) /\ h.FullListIndex[h.FullWindows[i]] = i - 1
        /\ \A d \in Chunks : IsWindow(h, d) =>
              (\E i \in 1..Len(P) : P[i] = d)
              \/ (\E i \in DOMAIN h.FullWindows : h.FullWindows[i] = d)
    BY <1>3 DEF HeapInv, ListsInv
  <2>2. /\ \A i \in 1..(Len(P) + 1) : i \in 1..Len(P) \/ i = Len(P) + 1
        /\ \A i \in 1..Len(P) : i \in 1..(Len(P) + 1)
        /\ Len(P) + 1 \in 1..(Len(P) + 1)
    BY <1>3
  <2>3. /\ ~IsWindow(h, c) /\ IsWindow(g, c) /\ g.FullListIndex[c] = kNotInFullList
        /\ \A d \in Chunks : d # c =>
              /\ IsWindow(g, d) <=> IsWindow(h, d)
              /\ g.FullListIndex[d] = h.FullListIndex[d]
    BY <1>0, <1>1, <1>2 DEF IsWindow
  <2> HIDE DEF P
  <2>4. \A i \in 1..(Len(P) + 1) :
            /\ IsWindow(g, g.PreferredWindows[i])
            /\ g.FullListIndex[g.PreferredWindows[i]] = kNotInFullList
    BY <1>3, <2>0, <2>1, <2>2, <2>3
  <2>5. \A i, j \in 1..(Len(P) + 1) : g.PreferredWindows[i] = g.PreferredWindows[j] => i = j
    BY <1>3, <2>0, <2>1, <2>2, <2>3
  <2>6. g.FullWindows = h.FullWindows
    BY <1>1
  <2>7. \A i \in DOMAIN g.FullWindows :
            IsWindow(g, g.FullWindows[i]) /\ g.FullListIndex[g.FullWindows[i]] = i - 1
    BY <2>0, <2>1, <2>3, <2>6
  <2>8. \A d \in Chunks : IsWindow(g, d) =>
            (\E i \in 1..(Len(P) + 1) : g.PreferredWindows[i] = d)
            \/ (\E i \in DOMAIN g.FullWindows : g.FullWindows[i] = d)
    BY <1>3, <2>1, <2>2, <2>3, <2>6
  <2>9. DOMAIN g.PreferredWindows = 1..(Len(P) + 1)
    BY <1>3
  <2> QED BY <2>4, <2>5, <2>7, <2>8, <2>9 DEF ListsInv
<1>10. g.Used[c] = {}
  BY <1>0, <1>1, <1>2
<1> QED BY <1>0, <1>1, <1>4, <1>6, <1>7, <1>8, <1>9, <1>10 DEF HeapInv, BlocksInv

\* What happens in a chunk that is no window concerns no window.
HeaderChange(h, g, p, k, n) ==
    /\ g \in Heaps
    /\ g.kind = [h.kind EXCEPT ![p[1]] = k]
    /\ g.UsedUnits = [h.UsedUnits EXCEPT ![p] = n]
    /\ g.Used = h.Used /\ g.FreeUnitCount = h.FreeUnitCount
    /\ g.FullListIndex = h.FullListIndex
    /\ g.PreferredWindows = h.PreferredWindows
    /\ g.FullWindows = h.FullWindows

LEMMA NonWindowChange ==
    ASSUME NEW h, HeapInv(h), NEW p \in Ptrs, ~IsWindow(h, p[1]),
           NEW k, k # "window", NEW n, NEW g, HeaderChange(h, g, p, k, n)
    PROVE  SpansInv(g) /\ CountInv(g) /\ ListsInv(g)
<1> DEFINE c == p[1]
<1>1. /\ g.kind = [h.kind EXCEPT ![c] = k]
      /\ g.UsedUnits = [h.UsedUnits EXCEPT ![p] = n]
      /\ g.Used = h.Used /\ g.FreeUnitCount = h.FreeUnitCount
      /\ g.FullListIndex = h.FullListIndex
      /\ g.PreferredWindows = h.PreferredWindows
      /\ g.FullWindows = h.FullWindows
      /\ g \in Heaps
  BY DEF HeaderChange
<1>2. /\ h.kind \in [Chunks -> {"unused", "window", "fallback"}]
      /\ h.UsedUnits \in [Ptrs -> Nat]
  BY DEF HeapInv, Heaps
<1>3. \A d \in Chunks : IsWindow(g, d) <=> IsWindow(h, d)
  BY <1>1, <1>2 DEF IsWindow
<1>4. SpansInv(g)
  <2> SUFFICES ASSUME NEW d \in Chunks, IsWindow(g, d) PROVE SpansAt(g, d)
    BY DEF SpansInv
  <2>1. SpansAt(h, d) /\ d # c
    BY <1>3 DEF HeapInv, BlocksInv, SpansInv
  <2>2. \A u \in Units : <<d, u>> # p /\ <<d, u>> \in Ptrs
    BY <2>1 DEF Ptrs
  <2>3. \A u \in Units : g.UsedUnits[<<d, u>>] = h.UsedUnits[<<d, u>>]
    BY <1>1, <1>2, <2>2
  <2>4. g.Used[d] = h.Used[d]
    BY <1>1
  <2> QED BY <2>1, <2>3, <2>4, SpansAtSame
<1>5. CountInv(g)
  BY <1>1, <1>3 DEF HeapInv, BlocksInv, CountInv
<1>6. ListsInv(g)
  <2>1. /\ \A i \in DOMAIN h.PreferredWindows : h.PreferredWindows[i] \in Chunks
        /\ \A i \in DOMAIN h.FullWindows : h.FullWindows[i] \in Chunks
    <3>1. h.PreferredWindows \in Seq(Chunks) /\ h.FullWindows \in Seq(Chunks)
      BY DEF HeapInv, Heaps
    <3> QED BY <3>1, ElementOfSeq, LenProperties
  <2>2. ListsInv(h)
    BY DEF HeapInv
  <2> QED BY <1>1, <1>3, <2>1, <2>2 DEF ListsInv
<1> QED BY <1>4, <1>5, <1>6

LEMMA FallbackAllocateInv ==
    ASSUME NEW h, HeapInv(h), NEW c \in UnusedChunks(h), NEW units \in Nat, units >= 1,
           NEW g, HeaderChange(h, g, <<c, 0>>, "fallback", units)
    PROVE  HeapInv(g) /\ <<c, 0>> \in Ptrs /\ ~Live(h, <<c, 0>>)
<1>1. /\ c \in Chunks /\ h.kind[c] = "unused" /\ ~IsWindow(h, c)
      /\ <<c, 0>> \in Ptrs /\ <<c, 0>>[1] = c
  BY Constants DEF UnusedChunks, IsWindow, Ptrs, Units
<1>2. /\ g \in Heaps /\ SpansInv(g) /\ CountInv(g) /\ ListsInv(g)
      /\ g.kind = [h.kind EXCEPT ![c] = "fallback"]
      /\ g.UsedUnits = [h.UsedUnits EXCEPT ![<<c, 0>>] = units]
  <2>1. SpansInv(g) /\ CountInv(g) /\ ListsInv(g)
    BY <1>1, NonWindowChange
  <2> QED BY <1>1, <2>1 DEF HeaderChange
<1>3. /\ HeadersInv(h) /\ h.kind \in [Chunks -> {"unused", "window", "fallback"}]
      /\ h.UsedUnits \in [Ptrs -> Nat]
  BY DEF HeapInv, BlocksInv, Heaps
<1>4. \A p \in Ptrs : p[1] = c => ~Live(h, p)
  BY <1>1, <1>3 DEF HeadersInv
<1>5. HeadersInv(g)
  <2>1. ASSUME NEW p \in Ptrs, Live(g, p)
        PROVE  g.kind[p[1]] # "unused" /\ (g.kind[p[1]] = "fallback" => p[2] = 0)
    <3>1. CASE p = <<c, 0>>
      BY <1>1, <1>2, <1>3, <3>1
    <3>2. CASE p # <<c, 0>>
      <4>1. Live(h, p) /\ p[1] # c
        BY <1>2, <1>3, <1>4, <2>1, <3>2 DEF Live
      <4>2. g.kind[p[1]] = h.kind[p[1]]
        BY <1>2, <1>3, <4>1 DEF Ptrs
      <4> QED BY <1>3, <4>1, <4>2 DEF HeadersInv
    <3> QED BY <3>1, <3>2
  <2>2. ASSUME NEW d \in Chunks, g.kind[d] = "fallback"
        PROVE  Live(g, <<d, 0>>)
    <3>1. CASE d = c
      BY <1>1, <1>2, <1>3, <3>1 DEF Live
    <3>2. CASE d # c
      <4>1. <<d, 0>> \in Ptrs /\ <<d, 0>> # <<c, 0>>
        BY <3>2, Constants DEF Ptrs, Units
      <4>2. Live(h, <<d, 0>>)
        BY <1>2, <1>3, <2>2, <3>2 DEF HeadersInv
      <4> QED BY <1>2, <1>3, <4>1, <4>2 DEF Live
    <3> QED BY <3>1, <3>2
  <2> QED BY <2>1, <2>2 DEF HeadersInv
<1> QED BY <1>1, <1>2, <1>4, <1>5 DEF HeapInv, BlocksInv

LEMMA FallbackFreeInv ==
    ASSUME NEW h, HeapInv(h), NEW ptr \in Ptrs, Live(h, ptr), ~IsWindow(h, ptr[1]),
           NEW g, g = fallbackFree(h, ptr)
    PROVE  /\ HeapInv(g)
           /\ g.kind = [h.kind EXCEPT ![ptr[1]] = "unused"]
           /\ g.UsedUnits = [h.UsedUnits EXCEPT ![ptr] = 0]
<1> DEFINE c == ptr[1]
<1>1. /\ HeadersInv(h) /\ h.kind \in [Chunks -> {"unused", "window", "fallback"}]
      /\ h.UsedUnits \in [Ptrs -> Nat] /\ c \in Chunks
  BY DEF HeapInv, BlocksInv, Heaps, Ptrs
<1>2. /\ g \in Heaps /\ SpansInv(g) /\ CountInv(g) /\ ListsInv(g)
      /\ g.kind = [h.kind EXCEPT ![c] = "unused"]
      /\ g.UsedUnits = [h.UsedUnits EXCEPT ![ptr] = 0]
  <2>1. HeaderChange(h, g, ptr, "unused", 0)
    BY <1>1 DEF fallbackFree, HeapInv, Heaps, HeaderChange
  <2>2. SpansInv(g) /\ CountInv(g) /\ ListsInv(g)
    BY <1>1, <2>1, NonWindowChange
  <2> QED BY <2>1, <2>2 DEF HeaderChange
<1>3. h.kind[c] = "fallback"
  BY <1>1 DEF IsWindow, HeadersInv
<1>4. ASSUME NEW p \in Ptrs, p[1] = c, p # ptr
      PROVE  ~Live(h, p)
  <2>1. ptr[2] = 0 /\ (Live(h, p) => p[2] = 0)
    BY <1>1, <1>3, <1>4 DEF HeadersInv
  <2>2. p = <<p[1], p[2]>> /\ ptr = <<ptr[1], ptr[2]>>
    BY DEF Ptrs
  <2> QED BY <1>4, <2>1, <2>2
<1>5. HeadersInv(g)
  <2>1. ASSUME NEW p \in Ptrs, Live(g, p)
        PROVE  g.kind[p[1]] # "unused" /\ (g.kind[p[1]] = "fallback" => p[2] = 0)
    <3>1. p # ptr /\ Live(h, p)
      BY <1>1, <1>2, <2>1 DEF Live
    <3>2. p[1] # c /\ p[1] \in Chunks
      BY <1>4, <3>1 DEF Ptrs
    <3> QED BY <1>1, <1>2, <3>1, <3>2 DEF HeadersInv
  <2>2. ASSUME NEW d \in Chunks, g.kind[d] = "fallback"
        PROVE  Live(g, <<d, 0>>)
    <3>1. d # c
      BY <1>1, <1>2, <2>2
    <3>2. Live(h, <<d, 0>>) /\ <<d, 0>> \in Ptrs /\ <<d, 0>> # ptr
      BY <1>1, <1>2, <2>2, <3>1, Constants DEF HeadersInv, Ptrs, Units
    <3> QED BY <1>1, <1>2, <3>2 DEF Live
  <2> QED BY <2>1, <2>2 DEF HeadersInv
<1> QED BY <1>2, <1>5 DEF HeapInv, BlocksInv

-----------------------------------------------------------------------------
(* The API *)

WindowsKept(h, g) == \A c \in Chunks : IsWindow(h, c) => IsWindow(g, c)

\* The live blocks of g are those of h and p, which is new.
Gains(h, g, p) ==
    /\ p \in Ptrs /\ ~Live(h, p)
    /\ \A q \in Ptrs : Live(g, q) <=> (Live(h, q) \/ q = p)

SameLive(h, g) == \A q \in Ptrs : Live(g, q) <=> Live(h, q)

\* The live blocks of g are those of h but for p.
Loses(h, g, p) == \A q \in Ptrs : Live(g, q) <=> (Live(h, q) /\ q # p)

LEMMA LiveAfterExcept ==
    ASSUME NEW h, NEW g, h.UsedUnits \in [Ptrs -> Nat], NEW p \in Ptrs, NEW n \in Nat,
           g.UsedUnits = [h.UsedUnits EXCEPT ![p] = n]
    PROVE  /\ n > 0 => \A q \in Ptrs : Live(g, q) <=> (Live(h, q) \/ q = p)
           /\ n = 0 => Loses(h, g, p)
BY DEF Live, Loses

\* The scans of a window and of the preferred list end at an element.
LEMMA LeastElement ==
    ASSUME NEW S \in SUBSET Nat, S # {}
    PROVE  \E x \in S : \A y \in S : x =< y
<1> DEFINE R == {ss \in Nat \X Nat : ss[1] < ss[2]}
<1>1. OpToRel(<, Nat) = R
  BY DEF OpToRel
<1>2. PICK x \in S : \A y \in S : ~(<<y, x>> \in R)
  BY <1>1, NatLessThanWellFounded, WFMin, ZenonT(60)
<1>3. ASSUME NEW y \in S
      PROVE  x =< y
  <2>1. x \in Nat /\ y \in Nat /\ <<y, x>> \notin R
    BY <1>2
  <2>2. <<y, x>> \in Nat \X Nat
    BY <2>1
  <2>3. ~(y < x)
    BY <2>1, <2>2
  <2> QED BY <2>1, <2>3
<1> QED BY <1>3

LEMMA MinIsElement ==
    ASSUME NEW S \in SUBSET Nat, S # {}
    PROVE  Min(S) \in S
BY LeastElement DEF Min

LEMMA MaxIsElement ==
    ASSUME NEW n \in Nat, NEW S, S \subseteq 1..n, S # {}
    PROVE  Max(S) \in S
<1> DEFINE T == {n - x : x \in S}
<1>1. \A x \in S : x \in 1..n /\ n - x \in Nat
  OBVIOUS
<1>2. T \in SUBSET Nat /\ T # {}
  BY <1>1
<1>3. PICK t \in T : \A y \in T : t =< y
  <2> HIDE DEF T
  <2> QED BY <1>2, LeastElement
<1>4. PICK x \in S : t = n - x
  BY <1>3
<1>5. ASSUME NEW y \in S
      PROVE  x >= y
  <2>1. n - x =< n - y
    BY <1>3, <1>4
  <2> QED BY <1>1, <2>1
<1> QED BY <1>5 DEF Max

\* The outcomes of Allocate that return a block, one lemma for each way.
LEMMA FallbackOutcome ==
    ASSUME NEW h, HeapInv(h), NEW units \in Nat, units >= 1,
           NEW c \in UnusedChunks(h), NEW g, g = FallbackBlock(h, c, units)
    PROVE  HeapInv(g) /\ WindowsKept(h, g) /\ Gains(h, g, <<c, 0>>)
<1>1. /\ h \in Heaps /\ c \in Chunks /\ h.kind[c] = "unused" /\ <<c, 0>>[1] = c
      /\ <<c, 0>> \in Ptrs
      /\ h.UsedUnits \in [Ptrs -> Nat]
      /\ h.kind \in [Chunks -> {"unused", "window", "fallback"}]
  BY Constants, SMTT(30) DEF HeapInv, UnusedChunks, Ptrs, Units, Heaps
<1>2. /\ g.kind = [h.kind EXCEPT ![c] = "fallback"]
      /\ g.UsedUnits = [h.UsedUnits EXCEPT ![<<c, 0>>] = units]
      /\ g.Used = h.Used /\ g.FreeUnitCount = h.FreeUnitCount
      /\ g.ResumeScanOffset = h.ResumeScanOffset
      /\ g.FullListIndex = h.FullListIndex
      /\ g.PreferredWindows = h.PreferredWindows
      /\ g.FullWindows = h.FullWindows
      /\ g = [kind |-> g.kind, Used |-> g.Used, FreeUnitCount |-> g.FreeUnitCount,
              ResumeScanOffset |-> g.ResumeScanOffset,
              FullListIndex |-> g.FullListIndex, UsedUnits |-> g.UsedUnits,
              PreferredWindows |-> g.PreferredWindows, FullWindows |-> g.FullWindows]
  BY <1>1 DEF FallbackBlock, Heaps
<1>3. /\ g.kind \in [Chunks -> {"unused", "window", "fallback"}]
      /\ g.UsedUnits \in [Ptrs -> Nat]
  BY <1>1, <1>2
<1>4. g \in Heaps
  BY <1>1, <1>2, <1>3 DEF Heaps
<1>5. HeaderChange(h, g, <<c, 0>>, "fallback", units)
  BY <1>1, <1>2, <1>4 DEF HeaderChange
<1>6. HeapInv(g) /\ ~Live(h, <<c, 0>>)
  BY <1>5, FallbackAllocateInv
<1>7. WindowsKept(h, g)
  BY <1>1, <1>2 DEF WindowsKept, IsWindow
<1>8. \A q \in Ptrs : Live(g, q) <=> (Live(h, q) \/ q = <<c, 0>>)
  BY <1>1, <1>2 DEF Live
<1> QED BY <1>1, <1>6, <1>7, <1>8 DEF Gains

\* Carving a block out of a window in order: the block is the one new live block.
LEMMA CarveOutcome ==
    ASSUME NEW h, HeapInv(h), NEW c \in Chunks, IsWindow(h, c),
           NEW start \in Units, NEW units \in Nat, units >= 1,
           start + units <= kWindowMaxUnits,
           start..(start + units - 1) \cap h.Used[c] = {},
           NEW g, g = CarveRegion(h, c, start, units)
    PROVE  HeapInv(g) /\ SameLists(h, g) /\ Gains(h, g, <<c, start>>)
<1>1. h \in Heaps /\ BlocksInv(h) /\ ListsInv(h)
  BY DEF HeapInv
<1>2. g \in Heaps /\ BlocksInv(g) /\ ~Live(h, <<c, start>>)
  BY <1>1, CarveRegionInv
<1>3. /\ SameLists(h, g)
      /\ g.UsedUnits = [h.UsedUnits EXCEPT ![<<c, start>>] = units]
  BY <1>1 DEF CarveRegion, Heaps, SameLists
<1>4. ListsInv(g)
  BY <1>1, <1>3, ListsInvOfSameLists
<1>5. h.UsedUnits \in [Ptrs -> Nat] /\ <<c, start>> \in Ptrs
  BY <1>1 DEF Heaps, Ptrs
<1>6. \A q \in Ptrs : Live(g, q) <=> (Live(h, q) \/ q = <<c, start>>)
  BY <1>3, <1>5 DEF Live
<1> QED BY <1>2, <1>3, <1>4, <1>5, <1>6 DEF HeapInv, Gains

LEMMA MoveLastFewOutcome ==
    ASSUME NEW h, HeapInv(h), NEW count \in 0..Len(h.PreferredWindows),
           NEW g, g = moveLastFewWindowsToFull(h, count)
    PROVE  HeapInv(g) /\ SameUnits(h, g)
<1>1. h \in Heaps /\ BlocksInv(h) /\ ListsInv(h)
  BY DEF HeapInv
<1>2. g \in Heaps /\ ListsInv(g) /\ SameUnits(h, g)
  BY <1>1, MoveLastFewInv
<1>3. BlocksInv(g)
  BY <1>1, <1>2, BlocksInvOfSameUnits
<1> QED BY <1>2, <1>3 DEF HeapInv

LEMMA PreferredOutcome ==
    ASSUME NEW h, HeapInv(h), NEW units \in Nat, units >= 1,
           NEW i \in DOMAIN h.PreferredWindows,
           CanServe(h, h.PreferredWindows[i], units),
           NEW o \in AllocateFromPreferred(h, i, units)
    PROVE  HeapInv(o.heap) /\ WindowsKept(h, o.heap) /\ Gains(h, o.heap, o.ptr)
<1> DEFINE P == h.PreferredWindows
           c == P[i]
           fits == Fits(h, c, units)
           start == Min(fits)
           later == Len(P) - i
           full == IF start + 2 * units > kWindowMaxUnits THEN later + 1 ELSE later
           g == CarveRegion(h, c, start, units)
<1>1. /\ h \in Heaps /\ ListsInv(h) /\ P \in Seq(Chunks)
      /\ Len(P) \in Nat /\ DOMAIN P = 1..Len(P)
  BY LenProperties DEF HeapInv, Heaps
<1>2. c \in Chunks /\ IsWindow(h, c) /\ i \in 1..Len(P)
  BY <1>1, ElementOfSeq DEF ListsInv
<1>3. h.ResumeScanOffset[c] \in 0..kWindowMaxUnits
  BY <1>1, <1>2 DEF Heaps
<1>4. /\ start \in Units /\ start + units <= kWindowMaxUnits
      /\ start..(start + units - 1) \cap h.Used[c] = {}
  <2>1. fits # {} /\ fits \in SUBSET Nat
    BY <1>3, Constants DEF CanServe, Fits
  <2>2. start \in fits
    <3> HIDE DEF fits
    <3> QED BY <2>1, MinIsElement
  <2> HIDE DEF start
  <2> QED BY <2>2, <1>3, Constants DEF Fits, Units
<1>5. full \in 0..Len(P)
  <2> HIDE DEF start
  <2> QED BY <1>1, <1>2
<1>6. o.heap = moveLastFewWindowsToFull(g, full) /\ o.ptr = <<c, start>>
  BY DEF AllocateFromPreferred
<1> HIDE DEF start, full
<1>7. HeapInv(g) /\ SameLists(h, g) /\ Gains(h, g, <<c, start>>)
  <2> HIDE DEF c
  <2> QED BY <1>2, <1>4, CarveOutcome
<1>8. g.PreferredWindows = P /\ g.kind = h.kind
  BY <1>7 DEF SameLists
<1> HIDE DEF g, c, P
<1>9. HeapInv(o.heap) /\ SameUnits(g, o.heap)
  BY <1>5, <1>6, <1>7, <1>8, MoveLastFewOutcome
<1>10. WindowsKept(h, o.heap)
  BY <1>8, <1>9 DEF SameUnits, WindowsKept, IsWindow
<1>11. Gains(h, o.heap, o.ptr)
  BY <1>6, <1>7, <1>9 DEF SameUnits, Gains, Live
<1> QED BY <1>9, <1>10, <1>11

LEMMA NewWindowOutcome ==
    ASSUME NEW h, HeapInv(h), NEW units \in Nat, units >= 1, units <= kWindowMaxUnits,
           NEW c \in UnusedChunks(h),
           NEW g, g = CarveRegion(NewWindow(h, c), c, 0, units)
    PROVE  HeapInv(g) /\ WindowsKept(h, g) /\ Gains(h, g, <<c, 0>>)
<1> DEFINE w == NewWindow(h, c)
<1>1. /\ HeapInv(w) /\ c \in Chunks /\ w.Used[c] = {}
      /\ w.kind = [h.kind EXCEPT ![c] = "window"]
      /\ w.UsedUnits = h.UsedUnits
  BY NewWindowInv
<1>2. h.kind \in [Chunks -> {"unused", "window", "fallback"}]
  BY DEF HeapInv, Heaps
<1>3. IsWindow(w, c) /\ WindowsKept(h, w)
  BY <1>1, <1>2 DEF IsWindow, WindowsKept
<1>4. 0 \in Units
  BY Constants DEF Units
<1>5. g = CarveRegion(w, c, 0, units)
  OBVIOUS
<1> HIDE DEF w
<1>6. HeapInv(g) /\ SameLists(w, g) /\ Gains(w, g, <<c, 0>>)
  <2>1. 0..(0 + units - 1) \cap w.Used[c] = {} /\ 0 + units <= kWindowMaxUnits
    BY <1>1
  <2> QED BY <1>1, <1>3, <1>4, <1>5, <2>1, CarveOutcome
<1>7. WindowsKept(h, g)
  BY <1>3, <1>6 DEF SameLists, WindowsKept, IsWindow
<1>8. Gains(h, g, <<c, 0>>)
  BY <1>1, <1>6 DEF Gains, Live
<1> QED BY <1>6, <1>7, <1>8

\* Whatever Allocate returns, the heap is in order; a block it returns is new.
Served(h, o) == IF o.ptr = NULL THEN SameLive(h, o.heap) ELSE Gains(h, o.heap, o.ptr)

LEMMA FailedOutcome ==
    ASSUME NEW h, NEW g, HeapInv(g), WindowsKept(h, g), SameLive(h, g),
           NEW o \in Failed(g)
    PROVE  HeapInv(o.heap) /\ WindowsKept(h, o.heap) /\ Served(h, o)
BY DEF Failed, Served

LEMMA GainsServes ==
    ASSUME NEW h, NEW o, Gains(h, o.heap, o.ptr)
    PROVE  o.ptr # NULL /\ Served(h, o)
BY NullAssumption DEF Gains, Served, Ptrs, Units

LEMMA AllocateInv ==
    ASSUME NEW h, HeapInv(h), NEW bytes \in Nat, NEW o \in Allocate(h, bytes)
    PROVE  HeapInv(o.heap) /\ WindowsKept(h, o.heap) /\ Served(h, o)
<1> DEFINE units == UnitsFor(bytes)
           P == h.PreferredWindows
           able == {i \in DOMAIN P : CanServe(h, P[i], units)}
           moved == moveLastFewWindowsToFull(h, Len(P))
<1>1. units \in Nat /\ units >= 1
  BY UnitsForType
<1>2. P \in Seq(Chunks) /\ Len(P) \in Nat /\ DOMAIN P = 1..Len(P)
  BY LenProperties DEF HeapInv, Heaps
<1>3. WindowsKept(h, h) /\ SameLive(h, h)
  BY DEF WindowsKept, SameLive
<1>4. \/ o \in Failed(h)
      \/ o \in fallbackAllocate(h, units)
      \/ able # {} /\ o \in AllocateFromPreferred(h, Max(able), units)
      \/ units <= kFallbackThresholdUnits /\ o \in allocateFromNewWindow(moved, units)
  <2> DEFINE choice == Max(able)
  <2>1. \/ o \in Failed(h)
        \/ units > kFallbackThresholdUnits /\ o \in fallbackAllocate(h, units)
        \/ ~(units > kFallbackThresholdUnits) /\ able # {}
              /\ o \in AllocateFromPreferred(h, choice, units)
        \/ ~(units > kFallbackThresholdUnits) /\ o \in allocateFromNewWindow(moved, units)
    BY DEF Allocate
  <2> HIDE DEF units, able, choice, moved
  <2>2. ~(units > kFallbackThresholdUnits) => units <= kFallbackThresholdUnits
    BY <1>1, Constants
  <2> QED BY <2>1, <2>2 DEF choice
<1> HIDE DEF units
<1>5. CASE o \in Failed(h)
  BY <1>3, <1>5, FailedOutcome
<1>6. CASE o \in fallbackAllocate(h, units)
  <2>1. ASSUME NEW c \in UnusedChunks(h),
               o = [heap |-> FallbackBlock(h, c, units), ptr |-> <<c, 0>>]
        PROVE  HeapInv(o.heap) /\ WindowsKept(h, o.heap) /\ Served(h, o)
    <3>1. o.heap = FallbackBlock(h, c, units) /\ o.ptr = <<c, 0>>
      BY <2>1
    <3>2. HeapInv(o.heap) /\ WindowsKept(h, o.heap) /\ Gains(h, o.heap, <<c, 0>>)
      BY <1>1, <3>1, FallbackOutcome
    <3> QED BY <3>1, <3>2, GainsServes
  <2> QED BY <1>5, <1>6, <2>1 DEF fallbackAllocate
<1>7. CASE able # {} /\ o \in AllocateFromPreferred(h, Max(able), units)
  <2> DEFINE i == Max(able)
  <2>1. i \in able
    <3>1. able \subseteq 1..Len(P)
      BY <1>2
    <3> HIDE DEF able
    <3> QED BY <1>2, <1>7, <3>1, MaxIsElement
  <2>2. i \in DOMAIN P /\ CanServe(h, P[i], units)
    <3> HIDE DEF i
    <3> QED BY <2>1
  <2> HIDE DEF i
  <2>3. o \in AllocateFromPreferred(h, i, units)
    BY <1>7 DEF i
  <2>4. HeapInv(o.heap) /\ WindowsKept(h, o.heap) /\ Gains(h, o.heap, o.ptr)
    BY <1>1, <2>2, <2>3, PreferredOutcome
  <2> QED BY <2>4, GainsServes
<1>8. CASE units <= kFallbackThresholdUnits /\ o \in allocateFromNewWindow(moved, units)
  <2>1. HeapInv(moved) /\ SameUnits(h, moved)
    <3>1. Len(P) \in 0..Len(P)
      BY <1>2
    <3> QED BY <3>1, MoveLastFewOutcome
  <2>2. WindowsKept(h, moved) /\ SameLive(h, moved)
    <3> HIDE DEF moved
    <3> QED BY <2>1 DEF SameUnits, WindowsKept, SameLive, IsWindow, Live
  <2> HIDE DEF moved
  <2>3. CASE o \in Failed(moved)
    BY <2>1, <2>2, <2>3, FailedOutcome
  <2>4. ASSUME NEW c \in UnusedChunks(moved),
               o = [heap |-> CarveRegion(NewWindow(moved, c), c, 0, units), ptr |-> <<c, 0>>]
        PROVE  HeapInv(o.heap) /\ WindowsKept(h, o.heap) /\ Served(h, o)
    <3>1. o.heap = CarveRegion(NewWindow(moved, c), c, 0, units) /\ o.ptr = <<c, 0>>
      BY <2>4
    <3>2. units <= kWindowMaxUnits
      BY <1>1, <1>8, Constants
    <3>3. /\ HeapInv(o.heap) /\ WindowsKept(moved, o.heap)
          /\ Gains(moved, o.heap, <<c, 0>>)
      BY <1>1, <2>1, <3>1, <3>2, NewWindowOutcome
    <3>4. WindowsKept(h, o.heap) /\ Gains(h, o.heap, o.ptr)
      BY <2>2, <3>1, <3>3 DEF WindowsKept, Gains, SameLive
    <3> QED BY <3>3, <3>4, GainsServes
  <2> QED BY <1>8, <2>3, <2>4 DEF allocateFromNewWindow
<1> QED BY <1>4, <1>5, <1>6, <1>7, <1>8

LEMMA PromoteInv ==
    ASSUME NEW h, HeapInv(h), NEW c \in Chunks, IsWindow(h, c)
    PROVE  HeapInv(PromoteIfRoomy(h, c)) /\ SameUnits(h, PromoteIfRoomy(h, c))
<1> DEFINE g == MoveFullWindowToPreferred(h, c)
<1>1. h \in Heaps /\ BlocksInv(h) /\ ListsInv(h)
  BY DEF HeapInv
<1>2. CASE h.FullListIndex[c] # kNotInFullList
  <2>1. g \in Heaps /\ ListsInv(g) /\ SameUnits(h, g)
    BY <1>1, <1>2, MoveFullWindowInv
  <2> HIDE DEF g
  <2>2. HeapInv(g)
    BY <1>1, <2>1, BlocksInvOfSameUnits DEF HeapInv
  <2>3. PromoteIfRoomy(h, c) \in {g, h}
    BY DEF PromoteIfRoomy, g
  <2>4. SameUnits(h, h)
    BY DEF SameUnits
  <2> QED BY <2>1, <2>2, <2>3, <2>4
<1>3. CASE h.FullListIndex[c] = kNotInFullList
  BY <1>3 DEF PromoteIfRoomy, SameUnits
<1> QED BY <1>2, <1>3

\* Giving back the tail of a block of a window, from unit `kept` of the block on.
ReleaseTail(h, c, start, kept) ==
    ReleaseUnits([h EXCEPT !.UsedUnits[<<c, start>>] = kept],
                 c, start + kept, start + h.UsedUnits[<<c, start>>])

LEMMA ReleaseOutcome ==
    ASSUME NEW h, HeapInv(h), NEW c \in Chunks, IsWindow(h, c),
           NEW start \in Units, Live(h, <<c, start>>),
           NEW kept \in Nat, kept <= h.UsedUnits[<<c, start>>],
           NEW g, g = ReleaseTail(h, c, start, kept)
    PROVE  /\ HeapInv(g) /\ SameLists(h, g)
           /\ g.UsedUnits = [h.UsedUnits EXCEPT ![<<c, start>>] = kept]
<1>1. h \in Heaps /\ BlocksInv(h) /\ ListsInv(h)
  BY DEF HeapInv
<1>2. /\ g \in Heaps /\ BlocksInv(g) /\ SameLists(h, g)
      /\ g.UsedUnits = [h.UsedUnits EXCEPT ![<<c, start>>] = kept]
  BY <1>1, ReleaseUnitsInv DEF ReleaseTail
<1>3. ListsInv(g)
  BY <1>1, <1>2, ListsInvOfSameLists
<1> QED BY <1>2, <1>3 DEF HeapInv

LEMMA FreeInv ==
    ASSUME NEW h, HeapInv(h), NEW ptr \in Ptrs, Live(h, ptr),
           NEW g, g = Free(h, ptr)
    PROVE  HeapInv(g) /\ WindowsKept(h, g) /\ Loses(h, g, ptr)
<1> DEFINE c == ptr[1]
           start == ptr[2]
           units == h.UsedUnits[ptr]
           released == ReleaseUnits([h EXCEPT !.UsedUnits[ptr] = 0],
                                    c, start, start + units)
<1>1. /\ c \in Chunks /\ start \in Units /\ start \in Nat /\ ptr = <<c, start>>
      /\ h.UsedUnits \in [Ptrs -> Nat] /\ units \in Nat /\ units > 0
      /\ h.kind \in [Chunks -> {"unused", "window", "fallback"}]
  BY Constants DEF HeapInv, Heaps, Ptrs, Units, Live
<1>2. g = IF ~IsWindow(h, c) THEN fallbackFree(h, ptr) ELSE PromoteIfRoomy(released, c)
  <2>1. ~IsFreed(h, ptr)
    BY <1>1 DEF IsFreed
  <2> QED BY <2>1 DEF Free
<1>3. CASE ~IsWindow(h, c)
  <2>1. g = fallbackFree(h, ptr)
    BY <1>2, <1>3
  <2>2. /\ HeapInv(g)
        /\ g.kind = [h.kind EXCEPT ![c] = "unused"]
        /\ g.UsedUnits = [h.UsedUnits EXCEPT ![ptr] = 0]
    BY <1>3, <2>1, FallbackFreeInv
  <2>3. WindowsKept(h, g)
    BY <1>1, <1>3, <2>2 DEF WindowsKept, IsWindow
  <2>4. Loses(h, g, ptr)
    BY <1>1, <2>2 DEF Loses, Live
  <2> QED BY <2>2, <2>3, <2>4
<1>4. CASE IsWindow(h, c)
  <2>1. g = PromoteIfRoomy(released, c)
    BY <1>2, <1>4
  <2>2. released = ReleaseTail(h, c, start, 0)
    <3> DEFINE W(p) == ReleaseUnits([h EXCEPT !.UsedUnits[p] = 0],
                                    c, start, start + h.UsedUnits[p])
    <3>1. released = W(ptr)
      OBVIOUS
    <3>2. W(ptr) = W(<<c, start>>)
      BY <1>1, Zenon
    <3>3. start + 0 = start
      BY <1>1
    <3> QED BY <3>1, <3>2, <3>3, Zenon DEF ReleaseTail
  <2> HIDE DEF released
  <2>3. /\ HeapInv(released) /\ SameLists(h, released)
        /\ released.UsedUnits = [h.UsedUnits EXCEPT ![<<c, start>>] = 0]
    <3>1. Live(h, <<c, start>>) /\ 0 <= h.UsedUnits[<<c, start>>] /\ 0 \in Nat
      BY <1>1 DEF Live
    <3> HIDE DEF c, start
    <3> QED BY <1>1, <1>4, <2>2, <3>1, ReleaseOutcome
  <2>4. IsWindow(released, c) /\ WindowsKept(h, released) /\ Loses(h, released, ptr)
    BY <1>1, <1>4, <2>3 DEF SameLists, IsWindow, WindowsKept, Loses, Live
  <2>5. HeapInv(g) /\ SameUnits(released, g)
    BY <1>1, <2>1, <2>3, <2>4, PromoteInv
  <2> QED BY <2>4, <2>5 DEF SameUnits, IsWindow, WindowsKept, Loses, Live
<1> QED BY <1>3, <1>4

LEMMA ShrinkInv ==
    ASSUME NEW h, HeapInv(h), NEW ptr \in Ptrs, Live(h, ptr), NEW bytes \in Nat,
           NEW g, g = Shrink(h, ptr, bytes)
    PROVE  HeapInv(g) /\ WindowsKept(h, g) /\ SameLive(h, g)
<1> DEFINE c == ptr[1]
           start == ptr[2]
           current == h.UsedUnits[ptr]
           needed == UnitsFor(bytes)
           released == ReleaseUnits([h EXCEPT !.UsedUnits[ptr] = needed],
                                    c, start + needed, start + current)
<1>1. /\ c \in Chunks /\ start \in Units /\ start \in Nat /\ ptr = <<c, start>>
      /\ h.UsedUnits \in [Ptrs -> Nat] /\ current \in Nat
      /\ needed \in Nat /\ needed >= 1
  <2>1. needed \in Nat /\ needed >= 1
    BY UnitsForType
  <2> HIDE DEF needed
  <2> QED BY <2>1, Constants DEF HeapInv, Heaps, Ptrs, Units
<1>2. g = IF needed < current /\ IsWindow(h, c) THEN released ELSE h
  BY DEF Shrink
<1> HIDE DEF needed
<1>3. CASE needed < current /\ IsWindow(h, c)
  <2>1. g = ReleaseTail(h, c, start, needed)
    <3> DEFINE W(p) == ReleaseUnits([h EXCEPT !.UsedUnits[p] = needed],
                                    c, start + needed, start + h.UsedUnits[p])
    <3>1. g = W(ptr)
      BY <1>2, <1>3
    <3>2. W(ptr) = W(<<c, start>>)
      BY <1>1, Zenon
    <3> QED BY <3>1, <3>2, Zenon DEF ReleaseTail
  <2>2. /\ HeapInv(g) /\ SameLists(h, g)
        /\ g.UsedUnits = [h.UsedUnits EXCEPT ![<<c, start>>] = needed]
    <3>1. Live(h, <<c, start>>) /\ needed <= h.UsedUnits[<<c, start>>]
      BY <1>1, <1>3
    <3> HIDE DEF c, start
    <3> QED BY <1>1, <1>3, <2>1, <3>1, ReleaseOutcome
  <2>3. WindowsKept(h, g)
    BY <2>2 DEF SameLists, WindowsKept, IsWindow
  <2>4. SameLive(h, g)
    BY <1>1, <2>2 DEF SameLive, Live
  <2> QED BY <2>2, <2>3, <2>4
<1>4. CASE ~(needed < current /\ IsWindow(h, c))
  BY <1>2, <1>4 DEF WindowsKept, SameLive
<1> QED BY <1>3, <1>4

\* The live blocks after Allocate (ptr = NULL) or Reallocate returned o: the
\* block returned, and the others but ptr if it moved or was freed.
Reassigned(h, ptr, bytes, o) ==
    /\ o.ptr \in Ptrs \cup {NULL}
    /\ \A q \in Ptrs : Live(o.heap, q) <=>
        \/ q = o.ptr
        \/ Live(h, q) /\ ~(q = ptr /\ (o.ptr # NULL \/ bytes = 0))

LEMMA AllocateReassigns ==
    ASSUME NEW h, HeapInv(h), NEW bytes \in Nat, NEW o \in Allocate(h, bytes)
    PROVE  /\ HeapInv(o.heap) /\ WindowsKept(h, o.heap)
           /\ Reassigned(h, NULL, bytes, o)
<1>1. HeapInv(o.heap) /\ WindowsKept(h, o.heap) /\ Served(h, o)
  BY AllocateInv
<1>2. NULL \notin Ptrs
  BY NullAssumption DEF Ptrs, Units
<1>3. CASE o.ptr = NULL
  BY <1>1, <1>2, <1>3 DEF Served, SameLive, Reassigned
<1>4. CASE o.ptr # NULL
  BY <1>1, <1>2, <1>4 DEF Served, Gains, Reassigned
<1> QED BY <1>1, <1>3, <1>4

LEMMA ReallocateReassigns ==
    ASSUME NEW h, HeapInv(h), NEW ptr \in Ptrs \cup {NULL}, ptr # NULL => Live(h, ptr),
           NEW bytes \in Nat, NEW o \in Reallocate(h, ptr, bytes)
    PROVE  /\ HeapInv(o.heap) /\ WindowsKept(h, o.heap)
           /\ Reassigned(h, ptr, bytes, o)
<1>1. NULL \notin Ptrs
  BY NullAssumption DEF Ptrs, Units
<1>2. CASE ptr = NULL
  BY <1>2, AllocateReassigns DEF Reallocate
<1>3. CASE ptr # NULL /\ bytes = 0
  <2>1. o.heap = Free(h, ptr) /\ o.ptr = NULL
    BY <1>3 DEF Reallocate
  <2>2. HeapInv(o.heap) /\ WindowsKept(h, o.heap) /\ Loses(h, o.heap, ptr)
    BY <1>3, <2>1, FreeInv
  <2> QED BY <1>1, <1>3, <2>1, <2>2 DEF Loses, Reassigned
<1>4. CASE ptr # NULL /\ bytes # 0 /\ UnitsFor(bytes) <= h.UsedUnits[ptr]
  <2>1. o.heap = h /\ o.ptr = ptr
    BY <1>4 DEF Reallocate
  <2> QED BY <1>1, <1>4, <2>1 DEF WindowsKept, Reassigned
<1>5. CASE ptr # NULL /\ bytes # 0 /\ ~(UnitsFor(bytes) <= h.UsedUnits[ptr])
  <2>1. PICK a \in Allocate(h, bytes) : o = FreeOld(a, ptr)
    BY <1>5 DEF Reallocate
  <2>2. HeapInv(a.heap) /\ WindowsKept(h, a.heap) /\ Served(h, a)
    BY AllocateInv
  <2>3. CASE a.ptr = NULL
    <3>1. o = a
      BY <2>1, <2>3 DEF FreeOld
    <3> QED BY <1>1, <1>5, <2>2, <2>3, <3>1 DEF Served, SameLive, Reassigned
  <2>4. CASE a.ptr # NULL
    <3>1. o.heap = Free(a.heap, ptr) /\ o.ptr = a.ptr
      BY <2>1, <2>4 DEF FreeOld
    <3>2. Gains(h, a.heap, a.ptr) /\ Live(a.heap, ptr) /\ a.ptr # ptr
      BY <1>5, <2>2, <2>4 DEF Served, Gains
    <3>3. HeapInv(o.heap) /\ WindowsKept(a.heap, o.heap) /\ Loses(a.heap, o.heap, ptr)
      BY <1>5, <2>2, <3>1, <3>2, FreeInv
    <3>4. WindowsKept(h, o.heap)
      BY <2>2, <3>3 DEF WindowsKept
    <3>5. Reassigned(h, ptr, bytes, o)
      BY <2>4, <3>1, <3>2, <3>3 DEF Gains, Loses, Reassigned
    <3> QED BY <3>3, <3>4, <3>5
  <2> QED BY <2>3, <2>4
<1> QED BY <1>2, <1>3, <1>4, <1>5

LEMMA DestroyHeapInv ==
    ASSUME NEW h, HeapInv(h), NEW g, g = DestroyHeap(h)
    PROVE  HeapInv(g) /\ \A c \in Chunks : ~IsWindow(g, c)
<1> DEFINE listed == Range(h.PreferredWindows) \cup Range(h.FullWindows)
           Kept(c) == c \notin listed \cup Range(HugeChunk)
<1>1. /\ h.kind \in [Chunks -> {"unused", "window", "fallback"}]
      /\ h.Used \in [Chunks -> SUBSET Units]
      /\ h.FreeUnitCount \in [Chunks -> 0..kWindowMaxUnits]
      /\ h.ResumeScanOffset \in [Chunks -> 0..kWindowMaxUnits]
      /\ h.UsedUnits \in [Ptrs -> Nat]
      /\ HeadersInv(h) /\ ListsInv(h)
  BY DEF HeapInv, BlocksInv, Heaps
<1>2. /\ g.kind = [c \in Chunks |-> IF Kept(c) THEN h.kind[c] ELSE "unused"]
      /\ g.Used = [c \in Chunks |-> IF Kept(c) THEN h.Used[c] ELSE {}]
      /\ g.FreeUnitCount = [c \in Chunks |->
            IF Kept(c) THEN h.FreeUnitCount[c] ELSE kWindowMaxUnits]
      /\ g.ResumeScanOffset = [c \in Chunks |->
            IF Kept(c) THEN h.ResumeScanOffset[c] ELSE 0]
      /\ g.FullListIndex = [c \in Chunks |-> kNotInFullList]
      /\ g.UsedUnits = [p \in Ptrs |-> IF Kept(p[1]) THEN h.UsedUnits[p] ELSE 0]
      /\ g.PreferredWindows = <<>> /\ g.FullWindows = <<>>
      /\ g = [kind |-> g.kind, Used |-> g.Used, FreeUnitCount |-> g.FreeUnitCount,
              ResumeScanOffset |-> g.ResumeScanOffset,
              FullListIndex |-> g.FullListIndex, UsedUnits |-> g.UsedUnits,
              PreferredWindows |-> g.PreferredWindows, FullWindows |-> g.FullWindows]
  BY DEF DestroyHeap
<1>3. \A c \in Chunks : IsWindow(h, c) => ~Kept(c)
  BY <1>1 DEF ListsInv, Range
<1> HIDE DEF Kept
<1>4. \A c \in Chunks : ~IsWindow(g, c)
  BY <1>2, <1>3 DEF IsWindow
<1>5. g \in Heaps
  <2>1. /\ g.kind \in [Chunks -> {"unused", "window", "fallback"}]
        /\ g.Used \in [Chunks -> SUBSET Units]
        /\ g.FreeUnitCount \in [Chunks -> 0..kWindowMaxUnits]
        /\ g.ResumeScanOffset \in [Chunks -> 0..kWindowMaxUnits]
        /\ g.UsedUnits \in [Ptrs -> Nat]
    BY <1>1, <1>2, Constants
  <2>2. g.FullListIndex \in [Chunks -> Int]
    BY <1>2 DEF kNotInFullList
  <2>3. g.PreferredWindows \in Seq(Chunks) /\ g.FullWindows \in Seq(Chunks)
    BY <1>2
  <2> QED BY <1>2, <2>1, <2>2, <2>3 DEF Heaps
<1>6. HeadersInv(g)
  <2>1. ASSUME NEW p \in Ptrs, Live(g, p)
        PROVE  g.kind[p[1]] # "unused" /\ (g.kind[p[1]] = "fallback" => p[2] = 0)
    <3>1. Kept(p[1]) /\ Live(h, p) /\ p[1] \in Chunks
      BY <1>2, <2>1 DEF Live, Ptrs
    <3> QED BY <1>1, <1>2, <2>1, <3>1 DEF HeadersInv
  <2>2. ASSUME NEW c \in Chunks, g.kind[c] = "fallback"
        PROVE  Live(g, <<c, 0>>)
    <3>1. Kept(c) /\ h.kind[c] = "fallback"
      BY <1>2, <2>2
    <3>2. <<c, 0>> \in Ptrs /\ <<c, 0>>[1] = c
      BY Constants DEF Ptrs, Units
    <3>3. Live(h, <<c, 0>>)
      BY <1>1, <3>1 DEF HeadersInv
    <3> QED BY <1>2, <3>1, <3>2, <3>3 DEF Live
  <2> QED BY <2>1, <2>2 DEF HeadersInv
<1>7. SpansInv(g) /\ CountInv(g)
  BY <1>4 DEF SpansInv, CountInv
<1>8. ListsInv(g)
  BY <1>2, <1>4 DEF ListsInv
<1> QED BY <1>4, <1>5, <1>6, <1>7, <1>8 DEF HeapInv, BlocksInv

-----------------------------------------------------------------------------
(* The specification keeps the invariant *)

LEMMA InitInv == Init => IInv
<1> SUFFICES ASSUME Init PROVE IInv
  OBVIOUS
<1>1. /\ heap.kind = [c \in Chunks |-> IF Preallocated(c) THEN "window" ELSE "unused"]
      /\ heap.Used = [c \in Chunks |-> {}]
      /\ heap.FreeUnitCount = [c \in Chunks |-> kWindowMaxUnits]
      /\ heap.ResumeScanOffset = [c \in Chunks |-> 0]
      /\ heap.FullListIndex = [c \in Chunks |-> kNotInFullList]
      /\ heap.UsedUnits = [p \in Ptrs |-> 0]
      /\ heap.PreferredWindows = HugeChunk /\ heap.FullWindows = <<>>
      /\ heap = [kind |-> heap.kind, Used |-> heap.Used,
                 FreeUnitCount |-> heap.FreeUnitCount,
                 ResumeScanOffset |-> heap.ResumeScanOffset,
                 FullListIndex |-> heap.FullListIndex, UsedUnits |-> heap.UsedUnits,
                 PreferredWindows |-> heap.PreferredWindows,
                 FullWindows |-> heap.FullWindows]
      /\ asked = [p \in Ptrs |-> NotHeld]
      /\ destroyed = FALSE
  BY DEF Init
<1>2. /\ HugeChunk \in Seq(Chunks) /\ \A i \in DOMAIN HugeChunk : HugeChunk[i] \in Chunks
      /\ \A i, j \in DOMAIN HugeChunk : HugeChunk[i] = HugeChunk[j] => i = j
      /\ \A c : Preallocated(c) <=> \E i \in DOMAIN HugeChunk : HugeChunk[i] = c
  <2>1. \A i \in DOMAIN HugeChunk : HugeChunk[i] \in Chunks
    BY HugeChunkAssumption, ElementOfSeq, LenProperties
  <2> QED BY <2>1, HugeChunkAssumption DEF Preallocated, Range
<1>3. \A p \in Ptrs : ~Live(heap, p)
  BY <1>1 DEF Live
<1>4. heap \in Heaps
  <2>1. /\ heap.kind \in [Chunks -> {"unused", "window", "fallback"}]
        /\ heap.Used \in [Chunks -> SUBSET Units]
        /\ heap.FreeUnitCount \in [Chunks -> 0..kWindowMaxUnits]
        /\ heap.ResumeScanOffset \in [Chunks -> 0..kWindowMaxUnits]
        /\ heap.UsedUnits \in [Ptrs -> Nat]
    BY <1>1, Constants
  <2>2. heap.FullListIndex \in [Chunks -> Int]
    BY <1>1 DEF kNotInFullList
  <2>3. heap.PreferredWindows \in Seq(Chunks) /\ heap.FullWindows \in Seq(Chunks)
    BY <1>1, <1>2
  <2> QED BY <1>1, <2>1, <2>2, <2>3 DEF Heaps
<1>5. HeadersInv(heap)
  BY <1>1, <1>3 DEF HeadersInv
<1>6. SpansInv(heap)
  <2> SUFFICES ASSUME NEW c \in Chunks PROVE SpansAt(heap, c)
    BY DEF SpansInv
  <2>1. \A u \in Units : <<c, u>> \in Ptrs
    BY DEF Ptrs
  <2>2. \A u \in Units : ~Live(heap, <<c, u>>) /\ End(heap, <<c, u>>) = u
    <3>1. \A u \in Units : heap.UsedUnits[<<c, u>>] = 0 /\ u \in Nat
      BY <1>1, <2>1, Constants DEF Units
    <3> QED BY <3>1 DEF Live, End
  <2>3. heap.Used[c] = {}
    BY <1>1
  <2>4. \A u, x \in Units : ~(u <= x /\ x < End(heap, <<c, u>>))
    BY <2>2, Constants DEF Units
  <2> QED BY <2>2, <2>3, <2>4 DEF SpansAt
<1>7. CountInv(heap)
  <2>1. ASSUME NEW c \in Chunks
        PROVE  heap.FreeUnitCount[c] = kWindowMaxUnits - Cardinality(heap.Used[c])
    <3>1. heap.FreeUnitCount[c] = kWindowMaxUnits /\ Cardinality(heap.Used[c]) = 0
      BY <1>1, FS_EmptySet
    <3> QED BY <3>1, Constants
  <2> QED BY <2>1 DEF CountInv
<1>8. ListsInv(heap)
  BY <1>1, <1>2 DEF ListsInv, IsWindow
<1>9. TypeOK
  BY <1>1, <1>4 DEF TypeOK
<1>10. ClientInv
  <2>1. \A p \in Ptrs : asked[p] = NotHeld
    BY <1>1
  <2>2. \A i \in DOMAIN HugeChunk : IsWindow(heap, HugeChunk[i])
    BY <1>1, <1>2 DEF IsWindow
  <2> QED BY <1>3, <2>1, <2>2 DEF ClientInv
<1>11. GoneInv
  BY <1>1 DEF GoneInv
<1> QED BY <1>4, <1>5, <1>6, <1>7, <1>8, <1>9, <1>10, <1>11
        DEF IInv, HeapInv, BlocksInv

\* Allocate and Reallocate keep the client's view and the headers together.
LEMMA ClientStep ==
    ASSUME IInv, ~destroyed, NEW ptr, NEW bytes \in Nat, NEW o,
           HeapInv(o.heap), WindowsKept(heap, o.heap), Reassigned(heap, ptr, bytes, o),
           heap' = o.heap, asked' = AskedAfter(ptr, bytes, o), destroyed' = destroyed
    PROVE  IInv'
<1>1. /\ asked \in [Ptrs -> Nat \cup {NotHeld}] /\ destroyed = FALSE
      /\ \A p \in Ptrs : asked[p] # NotHeld <=> Live(heap, p)
      /\ \A i \in DOMAIN HugeChunk : IsWindow(heap, HugeChunk[i])
  BY DEF IInv, TypeOK, ClientInv
<1>2. HeapInv(heap')
  BY Zenon
<1>3. asked' \in [Ptrs -> Nat \cup {NotHeld}] /\ destroyed' = FALSE
  BY <1>1 DEF AskedAfter
<1>4. \A p \in Ptrs : asked'[p] # NotHeld <=> Live(heap', p)
  <2> SUFFICES ASSUME NEW p \in Ptrs
               PROVE  asked'[p] # NotHeld <=> Live(heap', p)
    OBVIOUS
  <2>1. Live(heap', p) <=>
          \/ p = o.ptr
          \/ Live(heap, p) /\ ~(p = ptr /\ (o.ptr # NULL \/ bytes = 0))
    BY DEF Reassigned
  <2>2. asked'[p] = IF p = o.ptr THEN bytes
                    ELSE IF p = ptr /\ (o.ptr # NULL \/ bytes = 0) THEN NotHeld
                    ELSE asked[p]
    BY DEF AskedAfter
  <2>3. bytes # NotHeld
    BY DEF NotHeld
  <2> QED BY <1>1, <2>1, <2>2, <2>3
<1>5. \A i \in DOMAIN HugeChunk : IsWindow(heap', HugeChunk[i])
  <2>1. \A i \in DOMAIN HugeChunk : HugeChunk[i] \in Chunks
    BY HugeChunkAssumption, ElementOfSeq, LenProperties
  <2> QED BY <1>1, <2>1 DEF WindowsKept
<1>6. TypeOK'
  BY <1>2, <1>3 DEF TypeOK, HeapInv
<1> QED BY <1>2, <1>3, <1>4, <1>5, <1>6 DEF IInv, ClientInv, GoneInv

LEMMA StepInv == IInv /\ [Next]_vars => IInv'
<1> SUFFICES ASSUME IInv, [Next]_vars PROVE IInv'
  OBVIOUS
<1>1. HeapInv(heap) /\ asked \in [Ptrs -> Nat \cup {NotHeld}] /\ destroyed \in BOOLEAN
  BY DEF IInv, TypeOK
<1>2. ~destroyed =>
        /\ \A p \in Ptrs : asked[p] # NotHeld <=> Live(heap, p)
        /\ \A i \in DOMAIN HugeChunk : IsWindow(heap, HugeChunk[i])
  BY DEF IInv, ClientInv
<1>3. \A i \in DOMAIN HugeChunk : HugeChunk[i] \in Chunks
  BY HugeChunkAssumption, ElementOfSeq, LenProperties
<1>4. ASSUME NEW bytes \in ByteSizes, CallAllocate(bytes)
      PROVE  IInv'
  <2>1. PICK o \in Allocate(heap, bytes) :
          heap' = o.heap /\ asked' = AskedAfter(NULL, bytes, o)
    BY <1>4 DEF CallAllocate
  <2>2. bytes \in Nat /\ ~destroyed /\ destroyed' = destroyed
    BY <1>4, SizesAssumption DEF CallAllocate
  <2>3. /\ HeapInv(o.heap) /\ WindowsKept(heap, o.heap)
        /\ Reassigned(heap, NULL, bytes, o)
    BY <1>1, <2>2, AllocateReassigns
  <2> QED BY <2>1, <2>2, <2>3, ClientStep
<1>5. ASSUME NEW bytes \in ByteSizes, NEW ptr \in Ptrs \cup {NULL},
             CallReallocate(ptr, bytes)
      PROVE  IInv'
  <2>1. PICK o \in Reallocate(heap, ptr, bytes) :
          heap' = o.heap /\ asked' = AskedAfter(ptr, bytes, o)
    BY <1>5 DEF CallReallocate
  <2>2. bytes \in Nat /\ ~destroyed /\ destroyed' = destroyed
    BY <1>5, SizesAssumption DEF CallReallocate
  <2>3. ptr # NULL => Live(heap, ptr)
    BY <1>2, <1>5, <2>2 DEF CallReallocate, Held
  <2>4. /\ HeapInv(o.heap) /\ WindowsKept(heap, o.heap)
        /\ Reassigned(heap, ptr, bytes, o)
    BY <1>1, <2>2, <2>3, ReallocateReassigns
  <2> QED BY <2>1, <2>2, <2>4, ClientStep
<1>6. ASSUME NEW ptr \in Ptrs, NEW bytes \in ShrinkSizes, CallShrink(ptr, bytes)
      PROVE  IInv'
  <2>1. /\ bytes \in Nat /\ ~destroyed /\ destroyed' = destroyed /\ ptr \in Held
        /\ heap' = Shrink(heap, ptr, bytes)
        /\ asked' = [asked EXCEPT ![ptr] = LessOf(asked[ptr], bytes)]
    BY <1>6, SizesAssumption DEF CallShrink
  <2>2. Live(heap, ptr) /\ asked[ptr] \in Nat
    BY <1>1, <1>2, <2>1 DEF Held
  <2>3. HeapInv(heap') /\ WindowsKept(heap, heap') /\ SameLive(heap, heap')
    BY <1>1, <2>1, <2>2, ShrinkInv
  <2>4. LessOf(asked[ptr], bytes) \in Nat
    BY <2>1, <2>2 DEF LessOf
  <2>5. /\ asked' \in [Ptrs -> Nat \cup {NotHeld}]
        /\ \A p \in Ptrs : asked'[p] # NotHeld <=> asked[p] # NotHeld
    BY <1>1, <2>1, <2>2, <2>4 DEF NotHeld
  <2>6. ClientInv'
    BY <1>2, <1>3, <2>1, <2>3, <2>5 DEF ClientInv, WindowsKept, SameLive
  <2> QED BY <1>1, <2>1, <2>3, <2>5, <2>6 DEF IInv, TypeOK, HeapInv, GoneInv
<1>7. ASSUME NEW ptr \in Ptrs, CallFree(ptr)
      PROVE  IInv'
  <2>1. /\ ~destroyed /\ destroyed' = destroyed /\ ptr \in Held
        /\ heap' = Free(heap, ptr)
        /\ asked' = [asked EXCEPT ![ptr] = NotHeld]
    BY <1>7 DEF CallFree
  <2>2. Live(heap, ptr)
    BY <1>2, <2>1 DEF Held
  <2>3. HeapInv(heap') /\ WindowsKept(heap, heap') /\ Loses(heap, heap', ptr)
    BY <1>1, <2>1, <2>2, FreeInv
  <2>4. asked' \in [Ptrs -> Nat \cup {NotHeld}]
    BY <1>1, <2>1
  <2>5. ClientInv'
    BY <1>1, <1>2, <1>3, <2>1, <2>3 DEF ClientInv, WindowsKept, Loses
  <2> QED BY <1>1, <2>1, <2>3, <2>4, <2>5 DEF IInv, TypeOK, HeapInv, GoneInv
<1>8. CASE Destroy
  <2>1. /\ heap' = DestroyHeap(heap) /\ asked' = [p \in Ptrs |-> NotHeld]
        /\ destroyed' = TRUE
    BY <1>8 DEF Destroy
  <2>2. HeapInv(heap') /\ \A c \in Chunks : ~IsWindow(heap', c)
    BY <1>1, <2>1, DestroyHeapInv
  <2> QED BY <2>1, <2>2 DEF IInv, TypeOK, HeapInv, ClientInv, GoneInv
<1>9. CASE UNCHANGED vars
  BY <1>9 DEF vars, IInv, TypeOK, ClientInv, GoneInv
<1> QED BY <1>4, <1>5, <1>6, <1>7, <1>8, <1>9 DEF Next

\* Whatever the chunks, the window size and the sizes a client asks for, and
\* however calloc() fails, the heap stays in order (IInv) for ever.
THEOREM Invariance == Spec => []IInv
BY InitInv, StepInv, PTL DEF Spec

-----------------------------------------------------------------------------
(* What the invariant means for a client *)

\* No counter of a window leaves its range: FreeUnitCount and ResumeScanOffset
\* stay between 0 and the units of a window through every carve and release.
THEOREM TypeCorrect == Spec => []TypeOK
<1>1. IInv => TypeOK
  BY DEF IInv
<1> QED BY <1>1, Invariance, PTL

\* The blocks in the client's hands are live blocks of the heap.
LEMMA HeldIsLive ==
    ASSUME IInv, NEW p \in Held
    PROVE  /\ Live(heap, p) /\ p \in Ptrs /\ p = <<p[1], p[2]>> /\ ~destroyed
           /\ p[1] \in Chunks /\ p[2] \in Units /\ heap.UsedUnits[p] \in Nat
BY DEF IInv, ClientInv, GoneInv, TypeOK, Heaps, Held, Ptrs

LEMMA NoOverlapHolds == IInv => NoOverlap
<1> SUFFICES ASSUME IInv, NEW p \in Held
             PROVE  /\ IsWindow(heap, p[1]) => p[2] + heap.UsedUnits[p] <= kWindowMaxUnits
                    /\ \A q \in Held \ {p} : p[1] = q[1] =>
                            Span(heap, p) \cap Span(heap, q) = {}
  BY DEF NoOverlap
<1>1. HeadersInv(heap) /\ SpansInv(heap)
      /\ heap.kind \in [Chunks -> {"unused", "window", "fallback"}]
  BY DEF IInv, HeapInv, BlocksInv, Heaps
<1> DEFINE c == p[1]
           u == p[2]
<1>2. /\ Live(heap, p) /\ p \in Ptrs /\ p = <<c, u>>
      /\ c \in Chunks /\ u \in Units /\ heap.UsedUnits[p] \in Nat
  BY HeldIsLive
<1>3. ASSUME IsWindow(heap, c)
      PROVE  u + heap.UsedUnits[p] <= kWindowMaxUnits
  <2>1. SpansAt(heap, c)
    BY <1>1, <1>2, <1>3 DEF SpansInv
  <2>2. Live(heap, <<c, u>>) => End(heap, <<c, u>>) <= kWindowMaxUnits
    BY <1>2, <2>1 DEF SpansAt
  <2>3. End(heap, <<c, u>>) = u + heap.UsedUnits[<<c, u>>]
    BY DEF End
  <2> HIDE DEF c, u
  <2> QED BY <1>2, <2>2, <2>3
<1>4. ASSUME NEW q \in Held \ {p}, c = q[1]
      PROVE  Span(heap, p) \cap Span(heap, q) = {}
  <2> DEFINE v == q[2]
  <2>1. /\ Live(heap, q) /\ q \in Ptrs /\ q = <<c, v>> /\ v \in Units
        /\ heap.UsedUnits[q] \in Nat /\ q # p
    BY <1>4, HeldIsLive
  <2>2. u # v /\ u \in Nat /\ v \in Nat
    BY <1>2, <2>1, Constants DEF Units
  <2>3. IsWindow(heap, c)
    <3>1. heap.kind[c] # "unused" /\ (heap.kind[c] = "fallback" => u = 0 /\ v = 0)
      BY <1>1, <1>2, <1>4, <2>1 DEF HeadersInv
    <3> QED BY <1>1, <1>2, <2>2, <3>1 DEF IsWindow
  <2>4. SpansAt(heap, c)
    BY <1>1, <1>2, <2>3 DEF SpansInv
  <2>5. /\ Span(heap, p) = u .. (u + heap.UsedUnits[p] - 1)
        /\ Span(heap, q) = v .. (v + heap.UsedUnits[q] - 1)
    BY DEF Span
  <2>6. /\ u < v => u + heap.UsedUnits[p] <= v
        /\ v < u => v + heap.UsedUnits[q] <= u
    <3>1. /\ (u < v /\ Live(heap, <<c, u>>) /\ Live(heap, <<c, v>>))
               => End(heap, <<c, u>>) <= v
          /\ (v < u /\ Live(heap, <<c, v>>) /\ Live(heap, <<c, u>>))
               => End(heap, <<c, v>>) <= u
      BY <1>2, <2>1, <2>4 DEF SpansAt
    <3>2. /\ End(heap, <<c, u>>) = u + heap.UsedUnits[<<c, u>>]
          /\ End(heap, <<c, v>>) = v + heap.UsedUnits[<<c, v>>]
      BY DEF End
    <3> HIDE DEF c, u, v
    <3> QED BY <1>2, <2>1, <3>1, <3>2
  <2> HIDE DEF c, u, v
  <2> QED BY <1>2, <2>1, <2>2, <2>5, <2>6, SMTT(30)
<1> QED BY <1>3, <1>4

\* Two blocks in the client's hands never share a unit and never leave their
\* window, for every window size and every sequence of calls.
THEOREM BlocksNeverOverlap == Spec => []NoOverlap
BY Invariance, NoOverlapHolds, PTL

LEMMA AccountingHolds == IInv => Accounting
<1> SUFFICES ASSUME IInv, NEW c \in Chunks, IsWindow(heap, c)
             PROVE  /\ heap.Used[c] =
                          UNION {Span(heap, p) : p \in {q \in Held : q[1] = c}}
                    /\ heap.FreeUnitCount[c] =
                          kWindowMaxUnits - Cardinality(heap.Used[c])
  BY DEF Accounting
<1> DEFINE mine == {q \in Held : q[1] = c}
<1>1. /\ SpansAt(heap, c) /\ heap.Used[c] \subseteq Units
      /\ heap.UsedUnits \in [Ptrs -> Nat] /\ Units \subseteq Nat
  BY Constants DEF IInv, HeapInv, BlocksInv, SpansInv, Heaps, Units
<1>2. heap.FreeUnitCount[c] = kWindowMaxUnits - Cardinality(heap.Used[c])
  BY DEF IInv, HeapInv, BlocksInv, CountInv
<1>3. ASSUME NEW x \in heap.Used[c]
      PROVE  \E p \in mine : x \in Span(heap, p)
  <2>1. PICK u \in Units : u <= x /\ x < End(heap, <<c, u>>)
    BY <1>1 DEF SpansAt
  <2>2. <<c, u>> \in Ptrs /\ <<c, u>>[1] = c /\ <<c, u>>[2] = u /\ x \in Nat /\ u \in Nat
    BY <1>1 DEF Ptrs
  <2>3. heap.UsedUnits[<<c, u>>] \in Nat /\ x < u + heap.UsedUnits[<<c, u>>]
    BY <1>1, <2>1, <2>2 DEF End
  <2>4. x \in Span(heap, <<c, u>>) /\ Live(heap, <<c, u>>)
    BY <2>1, <2>2, <2>3 DEF Span, Live
  <2>5. ~destroyed
    BY DEF IInv, GoneInv, TypeOK
  <2>6. <<c, u>> \in Held
    BY <2>2, <2>4, <2>5 DEF IInv, ClientInv, Held
  <2> QED BY <2>2, <2>4, <2>6
<1>4. ASSUME NEW p \in mine, NEW x \in Span(heap, p)
      PROVE  x \in heap.Used[c]
  <2> DEFINE u == p[2]
  <2>1. /\ Live(heap, p) /\ p = <<c, u>> /\ u \in Units
        /\ heap.UsedUnits[p] \in Nat /\ u \in Nat
    BY <1>1, HeldIsLive
  <2>2. End(heap, <<c, u>>) <= kWindowMaxUnits
    BY <1>1, <2>1, Zenon DEF SpansAt
  <2>3. x \in u .. (u + heap.UsedUnits[p] - 1)
    BY DEF Span
  <2>4. End(heap, <<c, u>>) = u + heap.UsedUnits[<<c, u>>]
    BY DEF End
  <2> HIDE DEF u
  <2>5. u <= x /\ x < End(heap, <<c, u>>) /\ x \in Units
    BY <2>1, <2>2, <2>3, <2>4, Constants DEF Units
  <2> QED BY <1>1, <2>1, <2>5 DEF SpansAt
<1> HIDE DEF mine
<1>5. heap.Used[c] = UNION {Span(heap, p) : p \in mine}
  BY <1>3, <1>4
<1> QED BY <1>2, <1>5 DEF mine

\* The bitmask of a window is exactly the units the client holds there, and
\* FreeUnitCount the number of the others: no unit is lost or free twice.
THEOREM UnitsAccounted == Spec => []Accounting
BY Invariance, AccountingHolds, PTL

\* A header is in use exactly while the client holds its block: no call loses
\* the old block of a Reallocate, or frees another's.
THEOREM BlocksOwned == Spec => []EveryBlockHasAnOwner
<1>1. IInv => EveryBlockHasAnOwner
  <2> SUFFICES ASSUME IInv, ~destroyed
               PROVE  /\ \A p \in Ptrs : IsFreed(heap, p) <=> p \notin Held
                      /\ \A c \in Chunks : heap.kind[c] = "fallback" => <<c, 0>> \in Held
    BY DEF EveryBlockHasAnOwner
  <2>1. /\ \A p \in Ptrs : asked[p] # NotHeld <=> Live(heap, p)
        /\ heap.UsedUnits \in [Ptrs -> Nat] /\ HeadersInv(heap)
    BY DEF IInv, ClientInv, HeapInv, BlocksInv, Heaps
  <2>2. \A p \in Ptrs : p \in Held <=> Live(heap, p)
    BY <2>1 DEF Held
  <2>3. \A p \in Ptrs : IsFreed(heap, p) <=> p \notin Held
    BY <2>1, <2>2 DEF IsFreed, Live
  <2>4. \A c \in Chunks : heap.kind[c] = "fallback" => <<c, 0>> \in Held
    BY <2>1, <2>2, Constants DEF HeadersInv, Ptrs, Units
  <2> QED BY <2>3, <2>4
<1> QED BY <1>1, Invariance, PTL

\* Every window is on exactly one of the two lists, once, and FullListIndex is
\* its place there, whatever the order of moves between the lists.
THEOREM WindowsListed == Spec => []ListsConsistent
<1>1. IInv => ListsConsistent
  <2> SUFFICES ASSUME IInv PROVE ListsConsistent
    OBVIOUS
  <2>1. ListsInv(heap) /\ ClientInv
    BY DEF IInv, HeapInv
  <2>2. heap.PreferredWindows \in Seq(Chunks) /\ heap.FullWindows \in Seq(Chunks)
    BY DEF IInv, HeapInv, Heaps
  <2>3. /\ \A i \in DOMAIN heap.PreferredWindows : heap.PreferredWindows[i] \in Chunks
        /\ \A i \in DOMAIN heap.FullWindows : heap.FullWindows[i] \in Chunks
    BY <2>2, ElementOfSeq, LenProperties
  <2>4. Range(heap.PreferredWindows) \cup Range(heap.FullWindows) =
          {c \in Chunks : IsWindow(heap, c)}
    BY <2>1, <2>3 DEF ListsInv, Range
  <2> QED BY <2>1, <2>4 DEF ListsConsistent, ListsInv, ClientInv
<1> QED BY <1>1, Invariance, PTL

\* No window survives the destructor.
THEOREM WindowsFreed == Spec => []DestructorFreesWindows
<1>1. IInv => DestructorFreesWindows
  BY DEF IInv, GoneInv, DestructorFreesWindows
<1> QED BY <1>1, Invariance, PTL

-----------------------------------------------------------------------------
(* Sizes of blocks: what a call does to the headers of all blocks *)

\* A request whose size does not wrap `unsigned`, in bytes or in units.
SizeFits(bytes) == bytes + 2 * kUnitSize <= UintModulus

\* Behind the header there is room for a request that does not wrap.
LEMMA UnitsForRoom ==
    ASSUME NEW bytes \in Nat, SizeFits(bytes)
    PROVE  /\ bytes <= (UnitsFor(bytes) - 1) * kUnitSize
           /\ UnitsFor(bytes) * kUnitSize < UintModulus
<1> DEFINE sum == bytes + kUnitSize - 1
           q == sum \div kUnitSize
<1>1. sum \in Nat /\ sum < UintModulus /\ kUnitSize \in Nat /\ kUnitSize > 0
      /\ UintModulus \in Nat
  BY UnitAssumption, ModulusAssumption DEF SizeFits
<1>2. sum % UintModulus = sum
  <2> HIDE DEF sum
  <2> QED BY <1>1
<1>3. UnitsFor(bytes) = q + 1
  BY <1>2 DEF UnitsFor
<1>4. q \in Nat /\ sum = q * kUnitSize + (sum % kUnitSize) /\ sum % kUnitSize \in 0..(kUnitSize - 1)
  <2> HIDE DEF sum
  <2> QED BY <1>1, SMTT(30)
<1> DEFINE prod == q * kUnitSize
<1>5. prod \in Nat /\ bytes <= prod /\ prod <= sum
  <2>1. prod \in Nat
    BY <1>1, <1>4
  <2> HIDE DEF prod, q
  <2> QED BY <1>1, <1>4, <2>1 DEF prod
<1>6. (q + 1) * kUnitSize = prod + kUnitSize /\ (q + 1) - 1 = q
  <2> HIDE DEF q
  <2> QED BY <1>1, <1>4
<1> HIDE DEF prod, q
<1> QED BY <1>1, <1>3, <1>5, <1>6 DEF SizeFits, prod

\* Allocate writes the header of the block it returns and no other.
Placing(h, g, ptr, units) == g.UsedUnits = [h.UsedUnits EXCEPT ![ptr] = units]

LEMMA CarvePlaces ==
    ASSUME NEW h \in Heaps, NEW c, NEW start, NEW units, NEW g,
           g = CarveRegion(h, c, start, units)
    PROVE  /\ Placing(h, g, <<c, start>>, units)
           /\ \A n : moveLastFewWindowsToFull(g, n).UsedUnits = g.UsedUnits
<1>1. Placing(h, g, <<c, start>>, units) /\ "UsedUnits" \in DOMAIN g
  BY DEF CarveRegion, Heaps, Placing
<1>2. \A n : moveLastFewWindowsToFull(g, n).UsedUnits = g.UsedUnits
  BY <1>1 DEF moveLastFewWindowsToFull
<1> QED BY <1>1, <1>2

LEMMA NewWindowPlaces ==
    ASSUME NEW h, HeapInv(h), NEW c \in UnusedChunks(h), NEW units,
           NEW g, g = CarveRegion(NewWindow(h, c), c, 0, units)
    PROVE  Placing(h, g, <<c, 0>>, units)
<1> DEFINE w == NewWindow(h, c)
<1>1. HeapInv(w) /\ w.UsedUnits = h.UsedUnits /\ g = CarveRegion(w, c, 0, units)
  BY NewWindowInv
<1> HIDE DEF w
<1>2. Placing(w, g, <<c, 0>>, units)
  BY <1>1, CarvePlaces DEF HeapInv
<1> QED BY <1>1, <1>2 DEF Placing

LEMMA AllocateSizes ==
    ASSUME NEW h, HeapInv(h), NEW bytes \in Nat, NEW o \in Allocate(h, bytes)
    PROVE  IF o.ptr = NULL THEN o.heap.UsedUnits = h.UsedUnits
                           ELSE Placing(h, o.heap, o.ptr, UnitsFor(bytes))
<1> DEFINE units == UnitsFor(bytes)
           P == h.PreferredWindows
           able == {i \in DOMAIN P : CanServe(h, P[i], units)}
           choice == Max(able)
           moved == moveLastFewWindowsToFull(h, Len(P))
<1>1. h \in Heaps /\ h.UsedUnits \in [Ptrs -> Nat] /\ NULL \notin Ptrs
      /\ Len(P) \in 0..Len(P)
  BY NullAssumption, LenProperties DEF HeapInv, Heaps, Ptrs, Units
<1>2. \/ o \in Failed(h)
      \/ o \in fallbackAllocate(h, units)
      \/ o \in AllocateFromPreferred(h, choice, units)
      \/ o \in allocateFromNewWindow(moved, units)
  BY DEF Allocate
<1> HIDE DEF units, choice
<1>3. moved.UsedUnits = h.UsedUnits /\ HeapInv(moved)
  BY <1>1, MoveLastFewOutcome DEF SameUnits
<1> HIDE DEF moved
<1>4. \/ o.ptr = NULL /\ o.heap.UsedUnits = h.UsedUnits
      \/ Placing(h, o.heap, o.ptr, units)
  <2>1. CASE o \in Failed(h)
    BY <2>1 DEF Failed
  <2>2. CASE o \in fallbackAllocate(h, units)
    <3>1. ASSUME NEW c, o = [heap |-> FallbackBlock(h, c, units), ptr |-> <<c, 0>>]
          PROVE  Placing(h, o.heap, o.ptr, units)
      BY <1>1, <3>1 DEF FallbackBlock, Heaps, Placing
    <3> QED BY <2>1, <2>2, <3>1 DEF fallbackAllocate
  <2>3. CASE o \in AllocateFromPreferred(h, choice, units)
    <3>1. PICK c, start, n :
            /\ o.heap = moveLastFewWindowsToFull(CarveRegion(h, c, start, units), n)
            /\ o.ptr = <<c, start>>
      BY <2>3 DEF AllocateFromPreferred
    <3> QED BY <1>1, <3>1, CarvePlaces DEF Placing
  <2>4. CASE o \in allocateFromNewWindow(moved, units)
    <3>1. CASE o \in Failed(moved)
      BY <1>3, <3>1 DEF Failed
    <3>2. ASSUME NEW c \in UnusedChunks(moved),
                 o = [heap |-> CarveRegion(NewWindow(moved, c), c, 0, units), ptr |-> <<c, 0>>]
          PROVE  Placing(h, o.heap, o.ptr, units)
      <4>1. o.heap = CarveRegion(NewWindow(moved, c), c, 0, units) /\ o.ptr = <<c, 0>>
        BY <3>2
      <4>2. Placing(moved, o.heap, <<c, 0>>, units)
        BY <1>3, <4>1, NewWindowPlaces
      <4> QED BY <1>3, <4>1, <4>2 DEF Placing
    <3> QED BY <2>4, <3>1, <3>2 DEF allocateFromNewWindow
  <2> QED BY <1>2, <2>1, <2>2, <2>3, <2>4
<1>5. ASSUME o.ptr = NULL, Placing(h, o.heap, o.ptr, units)
      PROVE  o.heap.UsedUnits = h.UsedUnits
  BY <1>1, <1>5 DEF Placing
<1> QED BY <1>4, <1>5 DEF units

\* Free clears one header, and Shrink lowers one.
LEMMA FreeSizes ==
    ASSUME NEW h, HeapInv(h), NEW ptr \in Ptrs, Live(h, ptr), NEW g, g = Free(h, ptr)
    PROVE  Placing(h, g, ptr, 0)
<1> DEFINE released == ReleaseUnits([h EXCEPT !.UsedUnits[ptr] = 0], ptr[1], ptr[2],
                                    ptr[2] + h.UsedUnits[ptr])
<1>1. h \in Heaps /\ h.UsedUnits \in [Ptrs -> Nat]
  BY DEF HeapInv, Heaps
<1>2. ~IsFreed(h, ptr)
  BY <1>1 DEF IsFreed, Live
<1>3. g = fallbackFree(h, ptr) \/ g = PromoteIfRoomy(released, ptr[1])
  BY <1>2 DEF Free
<1>4. Placing(h, released, ptr, 0) /\ "UsedUnits" \in DOMAIN released
  BY <1>1 DEF ReleaseUnits, Placing, Heaps
<1> HIDE DEF released
<1>5. PromoteIfRoomy(released, ptr[1]).UsedUnits = released.UsedUnits
  BY <1>4 DEF PromoteIfRoomy, MoveFullWindowToPreferred
<1>6. Placing(h, fallbackFree(h, ptr), ptr, 0)
  BY <1>1 DEF fallbackFree, Placing, Heaps
<1> QED BY <1>3, <1>4, <1>5, <1>6 DEF Placing

LEMMA ShrinkLowers ==
    ASSUME NEW h, HeapInv(h), NEW ptr \in Ptrs, NEW bytes \in Nat,
           NEW g, g = Shrink(h, ptr, bytes)
    PROVE  \/ g.UsedUnits = h.UsedUnits
           \/ /\ UnitsFor(bytes) < h.UsedUnits[ptr]
              /\ Placing(h, g, ptr, UnitsFor(bytes))
<1> DEFINE needed == UnitsFor(bytes)
           released == ReleaseUnits([h EXCEPT !.UsedUnits[ptr] = needed], ptr[1],
                                    ptr[2] + needed, ptr[2] + h.UsedUnits[ptr])
<1>1. h \in Heaps
  BY DEF HeapInv
<1>2. g = h \/ (needed < h.UsedUnits[ptr] /\ g = released)
  BY DEF Shrink
<1> HIDE DEF needed
<1>3. Placing(h, released, ptr, needed)
  BY <1>1 DEF ReleaseUnits, Placing, Heaps
<1> QED BY <1>2, <1>3 DEF needed

-----------------------------------------------------------------------------
(* Blocks do not meet, as a fact of a heap *)

Cells(h, p) == {<<p[1], u>> : u \in Span(h, p)}

LEMMA LiveSpansApart ==
    ASSUME NEW h, HeapInv(h), NEW p \in Ptrs, NEW q \in Ptrs, Live(h, p), Live(h, q),
           p # q, p[1] = q[1]
    PROVE  Span(h, p) \cap Span(h, q) = {}
<1>1. HeadersInv(h) /\ SpansInv(h)
      /\ h.kind \in [Chunks -> {"unused", "window", "fallback"}]
      /\ h.UsedUnits \in [Ptrs -> Nat]
  BY DEF HeapInv, BlocksInv, Heaps
<1> DEFINE c == p[1]
           u == p[2]
           v == q[2]
<1>2. /\ p = <<c, u>> /\ c \in Chunks /\ u \in Units /\ h.UsedUnits[p] \in Nat
      /\ q = <<c, v>> /\ v \in Units /\ h.UsedUnits[q] \in Nat
  BY <1>1 DEF Ptrs
<1>3. u # v /\ u \in Nat /\ v \in Nat
  BY <1>2, Constants DEF Units
<1>4. IsWindow(h, c)
  <2>1. h.kind[c] # "unused" /\ (h.kind[c] = "fallback" => u = 0 /\ v = 0)
    BY <1>1 DEF HeadersInv
  <2> QED BY <1>1, <1>2, <1>3, <2>1 DEF IsWindow
<1>5. SpansAt(h, c)
  BY <1>1, <1>2, <1>4 DEF SpansInv
<1>6. /\ Span(h, p) = u .. (u + h.UsedUnits[p] - 1)
      /\ Span(h, q) = v .. (v + h.UsedUnits[q] - 1)
  BY DEF Span
<1>7. /\ u < v => u + h.UsedUnits[p] <= v
      /\ v < u => v + h.UsedUnits[q] <= u
  <2>1. /\ (u < v /\ Live(h, <<c, u>>) /\ Live(h, <<c, v>>)) => End(h, <<c, u>>) <= v
        /\ (v < u /\ Live(h, <<c, v>>) /\ Live(h, <<c, u>>)) => End(h, <<c, v>>) <= u
    BY <1>2, <1>5 DEF SpansAt
  <2>2. /\ End(h, <<c, u>>) = u + h.UsedUnits[<<c, u>>]
        /\ End(h, <<c, v>>) = v + h.UsedUnits[<<c, v>>]
    BY DEF End
  <2> HIDE DEF c, u, v
  <2> QED BY <1>2, <2>1, <2>2
<1> HIDE DEF c, u, v
<1> QED BY <1>2, <1>3, <1>6, <1>7, SMTT(30)

LEMMA LiveCellsApart ==
    ASSUME NEW h, HeapInv(h), NEW p \in Ptrs, NEW q \in Ptrs, Live(h, p), Live(h, q), p # q
    PROVE  Cells(h, p) \cap Cells(h, q) = {}
<1>1. CASE p[1] # q[1]
  BY <1>1 DEF Cells
<1>2. CASE p[1] = q[1]
  <2>1. Span(h, p) \cap Span(h, q) = {}
    BY <1>2, LiveSpansApart
  <2> QED BY <2>1 DEF Cells
<1> QED BY <1>1, <1>2

LEMMA CellsOfSameUnits ==
    ASSUME NEW h, NEW g, NEW p, g.UsedUnits[p] = h.UsedUnits[p]
    PROVE  Cells(g, p) = Cells(h, p) /\ (Live(g, p) <=> Live(h, p))
BY DEF Cells, Span, Live

LEMMA CellsCard ==
    ASSUME NEW h, h.UsedUnits \in [Ptrs -> Nat], NEW p \in Ptrs
    PROVE  Cardinality(Cells(h, p)) = h.UsedUnits[p]
<1> DEFINE S == Span(h, p)
           f == [u \in S |-> <<p[1], u>>]
<1>1. IsFiniteSet(S) /\ Cardinality(S) = h.UsedUnits[p]
  <2>1. p[2] \in Nat /\ h.UsedUnits[p] \in Nat
    BY Constants DEF Ptrs, Units
  <2> QED BY <2>1, RegionCard DEF Span
<1> HIDE DEF S
<1>2. f \in Bijection(S, Cells(h, p))
  <2>1. f \in [S -> Cells(h, p)]
    BY DEF Cells, S
  <2>2. \A t \in Cells(h, p) : \E u \in S : f[u] = t
    BY DEF Cells, S
  <2>3. \A u, v \in S : f[u] = f[v] => u = v
    OBVIOUS
  <2> QED BY <2>1, <2>2, <2>3 DEF Bijection, Injection, Surjection, IsInjective
<1>3. Cardinality(S) = Cardinality(Cells(h, p))
  BY <1>1, <1>2, FS_Bijection DEF ExistsBijection
<1> QED BY <1>1, <1>3

-----------------------------------------------------------------------------
(* What a Free does to the window of the block *)

\* The units of the block are free, the scan starts no later than at the first
\* of them, and a window with 3/4 of its units free is preferred.
LEMMA FreeLeavesHole ==
    ASSUME NEW h, HeapInv(h), NEW ptr \in Ptrs, Live(h, ptr), IsWindow(h, ptr[1]),
           NEW g, g = Free(h, ptr)
    PROVE  /\ CanServe(g, ptr[1], h.UsedUnits[ptr])
           /\ g.FreeUnitCount[ptr[1]] >= kPreferredThresholdUnits =>
                g.FullListIndex[ptr[1]] = kNotInFullList
<1> DEFINE c == ptr[1]
           start == ptr[2]
           units == h.UsedUnits[ptr]
           w == ReleaseUnits([h EXCEPT !.UsedUnits[ptr] = 0], c, start, start + units)
           scan == h.ResumeScanOffset[c]
<1>1. /\ c \in Chunks /\ start \in Nat /\ ptr = <<c, start>> /\ start \in Units
      /\ h \in Heaps /\ units \in Nat /\ units > 0
      /\ scan \in 0..kWindowMaxUnits
      /\ h.FreeUnitCount[c] \in 0..kWindowMaxUnits
      /\ h.Used[c] \subseteq Units
  BY Constants DEF HeapInv, Heaps, Ptrs, Units, Live
<1>2. start + units <= kWindowMaxUnits
  <2>1. SpansAt(h, c)
    BY <1>1 DEF HeapInv, BlocksInv, SpansInv
  <2>2. End(h, <<c, start>>) <= kWindowMaxUnits
    BY <1>1, <2>1, Zenon DEF SpansAt
  <2>3. End(h, <<c, start>>) = start + units
    BY <1>1, Zenon DEF End
  <2> QED BY <2>2, <2>3
<1>3. g = PromoteIfRoomy(w, c)
  <2>1. ~IsFreed(h, ptr)
    BY <1>1 DEF IsFreed
  <2> QED BY <2>1 DEF Free
<1>4. /\ w.FreeUnitCount[c] = h.FreeUnitCount[c] + units
      /\ w.Used[c] = h.Used[c] \ start..(start + units - 1)
      /\ w.ResumeScanOffset[c] = IF scan > start THEN start ELSE scan
  <2>1. (start + units) - start = units
    BY <1>1
  <2> QED BY <1>1, <2>1 DEF ReleaseUnits, Heaps
<1>5. HeapInv(w) /\ w.kind = h.kind
  <2>1. w = ReleaseTail(h, c, start, 0)
    <3> DEFINE W(p) == ReleaseUnits([h EXCEPT !.UsedUnits[p] = 0],
                                    c, start, start + h.UsedUnits[p])
    <3>1. w = W(ptr)
      OBVIOUS
    <3>2. W(ptr) = W(<<c, start>>)
      BY <1>1, Zenon
    <3>3. start + 0 = start
      BY <1>1
    <3> QED BY <3>1, <3>2, <3>3, Zenon DEF ReleaseTail
  <2>2. /\ Live(h, <<c, start>>) /\ 0 <= h.UsedUnits[<<c, start>>] /\ 0 \in Nat
        /\ IsWindow(h, c)
    BY <1>1 DEF Live
  <2> HIDE DEF w, c, start
  <2>3. HeapInv(w) /\ SameLists(h, w)
    BY <1>1, <2>1, <2>2, ReleaseOutcome
  <2> QED BY <2>3 DEF SameLists
<1> HIDE DEF w
<1>6. /\ HeapInv(g) /\ SameUnits(w, g)
      /\ g.FreeUnitCount[c] >= kPreferredThresholdUnits => g.FullListIndex[c] = kNotInFullList
      /\ g.ResumeScanOffset[c] \in {0, w.ResumeScanOffset[c]}
  <2> DEFINE m == MoveFullWindowToPreferred(w, c)
  <2>1. IsWindow(w, c) /\ w \in Heaps /\ ListsInv(w)
    BY <1>5 DEF IsWindow, HeapInv
  <2>2. HeapInv(g) /\ SameUnits(w, g)
    BY <1>1, <1>3, <1>5, <2>1, PromoteInv
  <2>3. CASE w.FreeUnitCount[c] >= kPreferredThresholdUnits /\ w.FullListIndex[c] # kNotInFullList
    <3>1. g = m
      BY <1>3, <2>3 DEF PromoteIfRoomy
    <3>2. m.FullListIndex[c] = kNotInFullList
      BY <1>1, <2>1, <2>3, MoveFullWindowInv
    <3>3. m.ResumeScanOffset[c] = 0
      BY <1>1, <2>1 DEF MoveFullWindowToPreferred, Heaps
    <3> QED BY <2>2, <3>1, <3>2, <3>3
  <2>4. CASE ~(w.FreeUnitCount[c] >= kPreferredThresholdUnits /\ w.FullListIndex[c] # kNotInFullList)
    <3>1. g = w
      BY <1>3, <2>4 DEF PromoteIfRoomy
    <3> QED BY <2>2, <2>4, <3>1
  <2> QED BY <2>3, <2>4
<1>7. start \in Fits(g, c, units)
  <2>1. g.Used[c] = h.Used[c] \ start..(start + units - 1) /\ g.ResumeScanOffset[c] <= start
        /\ g.ResumeScanOffset[c] \in Int
    BY <1>1, <1>4, <1>6 DEF SameUnits
  <2> HIDE DEF start, units
  <2>2. start \in g.ResumeScanOffset[c] .. (kWindowMaxUnits - units)
    BY <1>1, <1>2, <2>1, Constants
  <2> QED BY <2>1, <2>2 DEF Fits
<1>8. g.FreeUnitCount[c] >= units
  BY <1>1, <1>4, <1>6 DEF SameUnits
<1> QED BY <1>6, <1>7, <1>8 DEF CanServe

\* A block that the client loses, unless the allocator is destroyed, was freed
\* by Free, of a heap that had it as it was: the one before the call, or the one
\* in which Reallocate has already found the new block.
LEMMA LostBlockWasFreed ==
    ASSUME IInv, [Next]_vars, NEW p \in Ptrs, WasFreed(p)
    PROVE  \E h : /\ HeapInv(h) /\ Live(h, p) /\ WindowsKept(heap, h)
                  /\ h.UsedUnits[p] = heap.UsedUnits[p]
                  /\ heap' = Free(h, p)
<1>1. /\ HeapInv(heap) /\ asked \in [Ptrs -> Nat \cup {NotHeld}]
      /\ WindowsKept(heap, heap) /\ NULL \notin Ptrs
      /\ heap.UsedUnits \in [Ptrs -> Nat]
  BY NullAssumption DEF IInv, TypeOK, WindowsKept, Ptrs, Units, HeapInv, Heaps
<1>2. asked[p] # NotHeld /\ asked'[p] = NotHeld /\ ~destroyed'
  BY DEF WasFreed
<1>3. ASSUME ~destroyed
      PROVE  Live(heap, p)
  BY <1>2, <1>3 DEF IInv, ClientInv
<1>4. ASSUME NEW bytes \in ByteSizes, CallAllocate(bytes)
      PROVE  FALSE
  <2>1. PICK o \in Allocate(heap, bytes) : asked' = AskedAfter(NULL, bytes, o)
    BY <1>4 DEF CallAllocate
  <2>2. asked'[p] = IF p = o.ptr THEN bytes ELSE asked[p]
    BY <1>1, <2>1 DEF AskedAfter
  <2> QED BY <1>2, <2>2, SizesAssumption DEF NotHeld
<1>5. ASSUME NEW bytes \in ByteSizes, NEW ptr \in Ptrs \cup {NULL},
             CallReallocate(ptr, bytes)
      PROVE  \E h : /\ HeapInv(h) /\ Live(h, p) /\ WindowsKept(heap, h)
                    /\ h.UsedUnits[p] = heap.UsedUnits[p]
                    /\ heap' = Free(h, p)
  <2>1. PICK o \in Reallocate(heap, ptr, bytes) :
          heap' = o.heap /\ asked' = AskedAfter(ptr, bytes, o)
    BY <1>5 DEF CallReallocate
  <2>2. asked'[p] = IF p = o.ptr THEN bytes
                    ELSE IF p = ptr /\ (o.ptr # NULL \/ bytes = 0) THEN NotHeld
                    ELSE asked[p]
    BY <2>1 DEF AskedAfter
  <2>3. /\ p = ptr /\ p # o.ptr /\ (o.ptr # NULL \/ bytes = 0)
        /\ ~destroyed /\ bytes \in Nat
    BY <1>2, <1>5, <2>2, SizesAssumption DEF NotHeld, CallReallocate
  <2>4. CASE bytes = 0
    <3>1. heap' = Free(heap, p)
      BY <1>1, <2>1, <2>3, <2>4 DEF Reallocate
    <3> QED BY <1>1, <1>3, <2>3, <3>1
  <2>5. CASE bytes # 0
    <3>1. PICK a \in Allocate(heap, bytes) : o = FreeOld(a, ptr)
      BY <1>1, <2>1, <2>3, <2>5 DEF Reallocate
    <3>2. a.ptr # NULL /\ o = [heap |-> Free(a.heap, p), ptr |-> a.ptr]
      BY <2>3, <2>5, <3>1 DEF FreeOld
    <3>3. HeapInv(a.heap) /\ WindowsKept(heap, a.heap) /\ Gains(heap, a.heap, a.ptr)
      BY <1>1, <2>3, <3>2, AllocateInv DEF Served
    <3>4. Live(a.heap, p)
      BY <1>3, <2>3, <3>3 DEF Gains
    <3>5. a.heap.UsedUnits = [heap.UsedUnits EXCEPT ![a.ptr] = UnitsFor(bytes)]
      BY <1>1, <2>3, <3>2, AllocateSizes DEF Placing
    <3>6. a.heap.UsedUnits[p] = heap.UsedUnits[p]
      BY <1>1, <2>3, <3>2, <3>5
    <3>7. heap' = Free(a.heap, p)
      BY <2>1, <3>2
    <3> QED BY <3>3, <3>4, <3>6, <3>7
  <2> QED BY <2>4, <2>5
<1>6. ASSUME NEW ptr \in Ptrs, NEW bytes \in ShrinkSizes, CallShrink(ptr, bytes)
      PROVE  FALSE
  <2>1. /\ bytes \in Nat /\ ptr \in Held
        /\ asked' = [asked EXCEPT ![ptr] = LessOf(asked[ptr], bytes)]
    BY <1>6, SizesAssumption DEF CallShrink
  <2>2. LessOf(asked[ptr], bytes) # NotHeld
    BY <1>1, <2>1 DEF LessOf, NotHeld, Held
  <2> QED BY <1>1, <1>2, <2>1, <2>2
<1>7. ASSUME NEW ptr \in Ptrs, CallFree(ptr)
      PROVE  ptr = p /\ ~destroyed /\ heap' = Free(heap, p)
  BY <1>1, <1>2, <1>7 DEF CallFree
<1>8. ~Destroy /\ ~UNCHANGED vars
  BY <1>2 DEF Destroy, vars
<1>9. \/ \E bytes \in ByteSizes : CallAllocate(bytes)
      \/ \E bytes \in ByteSizes, ptr \in Ptrs \cup {NULL} : CallReallocate(ptr, bytes)
      \/ \E ptr \in Ptrs, bytes \in ShrinkSizes : CallShrink(ptr, bytes)
      \/ \E ptr \in Ptrs : CallFree(ptr)
  BY <1>8 DEF Next
<1> QED BY <1>1, <1>3, <1>4, <1>5, <1>6, <1>7, <1>9

\* The space of a freed block is found again by the scan of its window, wherever
\* the scan had got to and whichever list the window is on.
THEOREM HolesAreFound == Spec => FreedSpaceIsFound
<1> DEFINE Step == \A p \in Ptrs :
        (WasFreed(p) /\ IsWindow(heap, p[1])
            /\ heap'.FullListIndex[p[1]] = kNotInFullList)
        => CanServe(heap', p[1], heap.UsedUnits[p])
<1>1. IInv /\ [Next]_vars => [Step]_vars
  <2> SUFFICES ASSUME IInv, [Next]_vars, NEW p \in Ptrs, WasFreed(p), IsWindow(heap, p[1])
               PROVE  CanServe(heap', p[1], heap.UsedUnits[p])
    OBVIOUS
  <2>1. PICK h : /\ HeapInv(h) /\ Live(h, p) /\ WindowsKept(heap, h)
                 /\ h.UsedUnits[p] = heap.UsedUnits[p]
                 /\ heap' = Free(h, p)
    BY LostBlockWasFreed
  <2>2. IsWindow(h, p[1])
    BY <2>1 DEF WindowsKept, Ptrs
  <2> QED BY <2>1, <2>2, FreeLeavesHole
<1> QED BY <1>1, Invariance, PTL DEF Spec, FreedSpaceIsFound

\* No Free leaves its window on the full list with 3/4 of its units free.
THEOREM FreeingPromotes == Spec => FreePromotes
<1> DEFINE Step == \A p \in Ptrs :
        (WasFreed(p) /\ IsWindow(heap, p[1])
            /\ heap'.FreeUnitCount[p[1]] >= kPreferredThresholdUnits)
        => heap'.FullListIndex[p[1]] = kNotInFullList
<1>1. IInv /\ [Next]_vars => [Step]_vars
  <2> SUFFICES ASSUME IInv, [Next]_vars, NEW p \in Ptrs, WasFreed(p), IsWindow(heap, p[1]),
                      heap'.FreeUnitCount[p[1]] >= kPreferredThresholdUnits
               PROVE  heap'.FullListIndex[p[1]] = kNotInFullList
    OBVIOUS
  <2>1. PICK h : /\ HeapInv(h) /\ Live(h, p) /\ WindowsKept(heap, h)
                 /\ h.UsedUnits[p] = heap.UsedUnits[p]
                 /\ heap' = Free(h, p)
    BY LostBlockWasFreed
  <2>2. IsWindow(h, p[1])
    BY <2>1 DEF WindowsKept, Ptrs
  <2> QED BY <2>1, <2>2, FreeLeavesHole
<1> QED BY <1>1, Invariance, PTL DEF Spec, FreePromotes

-----------------------------------------------------------------------------
(* What a call changes, as the client sees it: one block, or two *)

\* No live block has a cell that p would have with `units` units.
ApartFrom(p, units) ==
    \A q \in Ptrs : Live(heap, q) =>
        {<<p[1], u>> : u \in p[2] .. (p[2] + units - 1)} \cap Cells(heap, q) = {}

Nothing == asked' = asked /\ heap'.UsedUnits = heap.UsedUnits

Gets(p, bytes) ==
    /\ asked[p] = NotHeld /\ ApartFrom(p, UnitsFor(bytes))
    /\ asked' = [asked EXCEPT ![p] = bytes]
    /\ heap'.UsedUnits = [heap.UsedUnits EXCEPT ![p] = UnitsFor(bytes)]

GivesBack(p) ==
    /\ asked[p] # NotHeld
    /\ asked' = [asked EXCEPT ![p] = NotHeld]
    /\ heap'.UsedUnits = [heap.UsedUnits EXCEPT ![p] = 0]

\* There is room for what the client may use now: `units` serve a request for at
\* least as much, or it may use no more than before of the same units.
Enough(p, bytes, units) ==
    \/ \E n \in ByteSizes \cup ShrinkSizes : bytes <= n /\ UnitsFor(n) <= units
    \/ bytes <= asked[p] /\ units = heap.UsedUnits[p]

Resizes(p, bytes, units) ==
    /\ asked[p] # NotHeld /\ units <= heap.UsedUnits[p] /\ units > 0
    /\ Enough(p, bytes, units)
    /\ asked' = [asked EXCEPT ![p] = bytes]
    /\ heap'.UsedUnits = [heap.UsedUnits EXCEPT ![p] = units]

Moves(p, to, bytes) ==
    /\ asked[p] # NotHeld /\ asked[to] = NotHeld /\ ApartFrom(to, UnitsFor(bytes))
    /\ asked' = [asked EXCEPT ![to] = bytes, ![p] = NotHeld]
    /\ heap'.UsedUnits = [heap.UsedUnits EXCEPT ![to] = UnitsFor(bytes), ![p] = 0]

Effect ==
    \/ Nothing
    \/ \E p \in Ptrs, bytes \in ByteSizes : Gets(p, bytes)
    \/ \E p \in Ptrs : GivesBack(p)
    \/ \E p \in Ptrs, bytes \in Nat, units \in Nat : Resizes(p, bytes, units)
    \/ \E p, to \in Ptrs, bytes \in ByteSizes : Moves(p, to, bytes)

\* The block Allocate returned is apart from all that were there.
LEMMA PlacedApart ==
    ASSUME IInv, NEW bytes \in Nat, NEW a \in Allocate(heap, bytes), a.ptr # NULL
    PROVE  /\ a.ptr \in Ptrs /\ ~Live(heap, a.ptr)
           /\ ApartFrom(a.ptr, UnitsFor(bytes))
           /\ HeapInv(a.heap)
           /\ a.heap.UsedUnits = [heap.UsedUnits EXCEPT ![a.ptr] = UnitsFor(bytes)]
<1>1. HeapInv(heap) /\ heap.UsedUnits \in [Ptrs -> Nat]
  BY DEF IInv, HeapInv, Heaps
<1>2. HeapInv(a.heap) /\ Gains(heap, a.heap, a.ptr)
  BY <1>1, AllocateInv DEF Served
<1>3. a.heap.UsedUnits = [heap.UsedUnits EXCEPT ![a.ptr] = UnitsFor(bytes)]
  BY <1>1, AllocateSizes DEF Placing
<1> DEFINE p == a.ptr
<1>4. p \in Ptrs /\ ~Live(heap, p) /\ Live(a.heap, p)
  BY <1>2 DEF Gains
<1>5. ASSUME NEW q \in Ptrs, Live(heap, q)
      PROVE  {<<p[1], u>> : u \in p[2] .. (p[2] + UnitsFor(bytes) - 1)} \cap Cells(heap, q) = {}
  <2>1. q # p /\ Live(a.heap, q)
    BY <1>2, <1>5 DEF Gains
  <2>2. Cells(a.heap, q) = Cells(heap, q)
    BY <1>1, <1>3, <2>1, CellsOfSameUnits
  <2>3. Cells(a.heap, p) \cap Cells(a.heap, q) = {}
    <3> HIDE DEF p
    <3> QED BY <1>2, <1>4, <2>1, LiveCellsApart
  <2>4. Cells(a.heap, p) = {<<p[1], u>> : u \in p[2] .. (p[2] + UnitsFor(bytes) - 1)}
    BY <1>1, <1>3, <1>4 DEF Cells, Span
  <2> QED BY <2>2, <2>3, <2>4
<1> QED BY <1>2, <1>3, <1>4, <1>5 DEF ApartFrom

LEMMA EffectOfStep == (IInv /\ [Next]_vars) => (Effect \/ Destroy)
<1> SUFFICES ASSUME IInv, [Next]_vars, ~Destroy PROVE Effect
  OBVIOUS
<1>1. /\ HeapInv(heap) /\ asked \in [Ptrs -> Nat \cup {NotHeld}] /\ NULL \notin Ptrs
      /\ heap.UsedUnits \in [Ptrs -> Nat] /\ Ptrs \subseteq Ptrs \cup {NULL}
  BY NullAssumption DEF IInv, TypeOK, Ptrs, Units, HeapInv, Heaps
<1>2. ~destroyed =>
        /\ \A p \in Ptrs : p \in Held <=> Live(heap, p)
        /\ \A p \in Ptrs : asked[p] # NotHeld <=> Live(heap, p)
  BY DEF IInv, ClientInv, Held
<1>3. ASSUME NEW bytes \in ByteSizes, NEW o \in Allocate(heap, bytes), ~destroyed,
             NEW ptr \in Ptrs \cup {NULL},
             ptr # NULL => (o.ptr = NULL /\ bytes # 0),
             heap' = o.heap, asked' = AskedAfter(ptr, bytes, o)
      PROVE  Effect
  <2>1. bytes \in Nat
    BY SizesAssumption
  <2>2. CASE o.ptr = NULL
    <3>1. heap'.UsedUnits = heap.UsedUnits
      BY <1>1, <1>3, <2>1, <2>2, AllocateSizes
    <3>2. asked' = asked
      BY <1>1, <1>3, <2>2 DEF AskedAfter
    <3> QED BY <3>1, <3>2 DEF Effect, Nothing
  <2>3. CASE o.ptr # NULL
    <3>1. asked' = [asked EXCEPT ![o.ptr] = bytes]
      BY <1>1, <1>3, <2>3 DEF AskedAfter
    <3>2. o.ptr \in Ptrs /\ Gets(o.ptr, bytes)
      BY <1>2, <1>3, <2>1, <2>3, <3>1, PlacedApart DEF Gets
    <3> QED BY <3>2 DEF Effect
  <2> QED BY <2>2, <2>3
<1>4. ASSUME NEW ptr \in Ptrs, Live(heap, ptr), ~destroyed, heap' = Free(heap, ptr),
             asked' = [asked EXCEPT ![ptr] = NotHeld]
      PROVE  Effect
  <2>1. heap'.UsedUnits = [heap.UsedUnits EXCEPT ![ptr] = 0]
    BY <1>1, <1>4, FreeSizes DEF Placing
  <2> QED BY <1>2, <1>4, <2>1 DEF Effect, GivesBack
<1>5. ASSUME NEW bytes \in ByteSizes, CallAllocate(bytes)
      PROVE  Effect
  <2>1. PICK o \in Allocate(heap, bytes) :
          heap' = o.heap /\ asked' = AskedAfter(NULL, bytes, o)
    BY <1>5 DEF CallAllocate
  <2>2. ~destroyed
    BY <1>5 DEF CallAllocate
  <2> QED BY <1>3, <2>1, <2>2
<1>6. ASSUME NEW bytes \in ByteSizes, NEW ptr \in Ptrs \cup {NULL},
             CallReallocate(ptr, bytes)
      PROVE  Effect
  <2>1. PICK o \in Reallocate(heap, ptr, bytes) :
          heap' = o.heap /\ asked' = AskedAfter(ptr, bytes, o)
    BY <1>6 DEF CallReallocate
  <2>2. ~destroyed /\ bytes \in Nat /\ (ptr # NULL => ptr \in Ptrs /\ Live(heap, ptr))
    BY <1>2, <1>6, SizesAssumption DEF CallReallocate, Held
  <2>3. CASE ptr = NULL
    <3>1. o \in Allocate(heap, bytes)
      BY <2>1, <2>3 DEF Reallocate
    <3> QED BY <1>3, <2>1, <2>2, <2>3, <3>1
  <2>4. CASE ptr # NULL /\ bytes = 0
    <3>1. o = [heap |-> Free(heap, ptr), ptr |-> NULL]
      BY <2>1, <2>4 DEF Reallocate
    <3>2. heap' = Free(heap, ptr) /\ asked' = [asked EXCEPT ![ptr] = NotHeld]
      BY <1>1, <2>1, <2>2, <2>4, <3>1 DEF AskedAfter
    <3> QED BY <1>4, <2>2, <2>4, <3>2
  <2>5. CASE ptr # NULL /\ bytes # 0 /\ UnitsFor(bytes) <= heap.UsedUnits[ptr]
    <3> DEFINE units == heap.UsedUnits[ptr]
    <3>1. o = [heap |-> heap, ptr |-> ptr]
      BY <2>1, <2>5 DEF Reallocate
    <3>2. heap' = heap /\ asked' = [asked EXCEPT ![ptr] = bytes]
      BY <1>1, <2>1, <2>2, <2>5, <3>1 DEF AskedAfter
    <3>3. heap'.UsedUnits = [heap.UsedUnits EXCEPT ![ptr] = units] /\ units \in Nat
      BY <1>1, <2>2, <2>5, <3>2
    <3>4. Enough(ptr, bytes, units)
      BY <2>2, <2>5 DEF Enough
    <3>5. Resizes(ptr, bytes, units)
      BY <1>1, <1>2, <2>2, <2>5, <3>2, <3>3, <3>4 DEF Resizes, Live
    <3> QED BY <2>2, <2>5, <3>3, <3>5 DEF Effect
  <2>6. CASE ptr # NULL /\ bytes # 0 /\ ~(UnitsFor(bytes) <= heap.UsedUnits[ptr])
    <3>1. PICK a \in Allocate(heap, bytes) : o = FreeOld(a, ptr)
      BY <2>1, <2>6 DEF Reallocate
    <3>2. CASE a.ptr = NULL
      <4>1. o = a
        BY <3>1, <3>2 DEF FreeOld
      <4> QED BY <1>3, <2>1, <2>2, <2>6, <3>2, <4>1
    <3>3. CASE a.ptr # NULL
      <4> DEFINE to == a.ptr
      <4>1. o = [heap |-> Free(a.heap, ptr), ptr |-> to]
        BY <3>1, <3>3 DEF FreeOld
      <4>2. /\ to \in Ptrs /\ ~Live(heap, to) /\ ApartFrom(to, UnitsFor(bytes))
            /\ HeapInv(a.heap)
            /\ a.heap.UsedUnits = [heap.UsedUnits EXCEPT ![to] = UnitsFor(bytes)]
        BY <2>2, <3>3, PlacedApart
      <4>3. Live(a.heap, ptr) /\ to # ptr
        BY <1>1, <2>2, <2>6, <4>2 DEF Live
      <4>4. heap'.UsedUnits = [heap.UsedUnits EXCEPT ![to] = UnitsFor(bytes), ![ptr] = 0]
        BY <2>1, <2>2, <2>6, <4>1, <4>2, <4>3, FreeSizes DEF Placing
      <4>5. asked' = [asked EXCEPT ![to] = bytes, ![ptr] = NotHeld]
        BY <1>1, <2>1, <3>3, <4>1, <4>2, <4>3 DEF AskedAfter
      <4>6. Moves(ptr, to, bytes)
        BY <1>2, <2>2, <2>6, <4>2, <4>4, <4>5 DEF Moves
      <4> QED BY <2>2, <2>6, <4>2, <4>6 DEF Effect
    <3> QED BY <3>2, <3>3
  <2> QED BY <2>3, <2>4, <2>5, <2>6
<1>7. ASSUME NEW ptr \in Ptrs, NEW bytes \in ShrinkSizes, CallShrink(ptr, bytes)
      PROVE  Effect
  <2> DEFINE n == LessOf(asked[ptr], bytes)
             units == heap'.UsedUnits[ptr]
  <2>1. /\ bytes \in Nat /\ ~destroyed /\ ptr \in Held /\ Live(heap, ptr)
        /\ heap' = Shrink(heap, ptr, bytes)
        /\ asked' = [asked EXCEPT ![ptr] = n]
    BY <1>2, <1>7, SizesAssumption DEF CallShrink
  <2>2. asked[ptr] \in Nat /\ n \in Nat /\ n <= bytes /\ n <= asked[ptr]
    BY <1>1, <2>1 DEF LessOf, Held
  <2>3. UnitsFor(bytes) \in Nat /\ UnitsFor(bytes) >= 1
    BY <2>1, UnitsForType
  <2>4. \/ heap'.UsedUnits = heap.UsedUnits
        \/ /\ UnitsFor(bytes) < heap.UsedUnits[ptr]
           /\ heap'.UsedUnits = [heap.UsedUnits EXCEPT ![ptr] = UnitsFor(bytes)]
    BY <1>1, <2>1, ShrinkLowers DEF Placing
  <2>5. /\ heap'.UsedUnits = [heap.UsedUnits EXCEPT ![ptr] = units]
        /\ units \in Nat /\ units <= heap.UsedUnits[ptr] /\ units > 0
        /\ units = heap.UsedUnits[ptr] \/ units = UnitsFor(bytes)
    BY <1>1, <2>1, <2>3, <2>4 DEF Live
  <2> HIDE DEF n, units
  <2>6. Enough(ptr, n, units)
    BY <2>2, <2>3, <2>5 DEF Enough
  <2>7. Resizes(ptr, n, units)
    BY <1>2, <2>1, <2>5, <2>6 DEF Resizes
  <2> QED BY <2>2, <2>5, <2>7 DEF Effect
<1>8. ASSUME NEW ptr \in Ptrs, CallFree(ptr)
      PROVE  Effect
  BY <1>2, <1>4, <1>8 DEF CallFree
<1>9. CASE UNCHANGED vars
  BY <1>9 DEF vars, Effect, Nothing
<1> QED BY <1>5, <1>6, <1>7, <1>8, <1>9 DEF Next

-----------------------------------------------------------------------------
(* Room: nothing holds of a size whose sum with the units wraps `unsigned`,  *)
(* so the client is assumed to ask for none of those                         *)

SizesFit == \A bytes \in ByteSizes \cup ShrinkSizes : SizeFits(bytes)

\* Behind its header a block in the client's hands has the bytes it may use,
\* and the size of the block is an `unsigned`.
RoomInv ==
    \A p \in Ptrs : asked[p] # NotHeld =>
        /\ asked[p] <= (heap.UsedUnits[p] - 1) * kUnitSize
        /\ heap.UsedUnits[p] * kUnitSize < UintModulus

\* Units served for a request leave room for it behind the header, and more
\* units leave more.
LEMMA MoreUnits ==
    ASSUME NEW n \in Nat, SizeFits(n), NEW bytes \in Nat, bytes <= n,
           NEW units \in Nat, UnitsFor(n) <= units
    PROVE  bytes <= (units - 1) * kUnitSize
<1>1. /\ kUnitSize \in Nat /\ kUnitSize > 0 /\ UnitsFor(n) \in Nat
      /\ n <= (UnitsFor(n) - 1) * kUnitSize
  BY UnitAssumption, UnitsForRoom, UnitsForType
<1> DEFINE a == UnitsFor(n)
<1> HIDE DEF a
<1>2. a \in Nat /\ a <= units /\ kUnitSize \in Nat
  BY <1>1 DEF a
<1>3. (a - 1) * kUnitSize <= (units - 1) * kUnitSize
  <2>1. (units - 1) * kUnitSize = (a - 1) * kUnitSize + (units - a) * kUnitSize
    BY <1>2
  <2>2. (units - a) * kUnitSize >= 0
    BY <1>2
  <2>3. (a - 1) * kUnitSize \in Int /\ (units - a) * kUnitSize \in Int
    BY <1>2
  <2> QED BY <2>1, <2>2, <2>3
<1>4. (a - 1) * kUnitSize \in Int /\ (units - 1) * kUnitSize \in Int
  BY <1>2
<1> QED BY <1>1, <1>3, <1>4 DEF a

LEMMA FewerUnits ==
    ASSUME NEW units \in Nat, NEW more \in Nat, units <= more,
           more * kUnitSize < UintModulus
    PROVE  units * kUnitSize < UintModulus
<1>1. kUnitSize \in Nat /\ UintModulus \in Nat
  BY UnitAssumption, ModulusAssumption
<1>2. more * kUnitSize = units * kUnitSize + (more - units) * kUnitSize
  BY <1>1
<1>3. (more - units) * kUnitSize >= 0 /\ (more - units) * kUnitSize \in Int
      /\ units * kUnitSize \in Int
  BY <1>1
<1> QED BY <1>1, <1>2, <1>3

LEMMA RoomStep ==
    ASSUME SizesFit, IInv, RoomInv, [Next]_vars PROVE RoomInv'
<1>1. /\ asked \in [Ptrs -> Nat \cup {NotHeld}] /\ heap.UsedUnits \in [Ptrs -> Nat]
      /\ ByteSizes \subseteq Nat /\ ShrinkSizes \subseteq Nat /\ NotHeld \notin Nat
  BY SizesAssumption DEF IInv, TypeOK, HeapInv, Heaps, NotHeld
<1> SUFFICES ASSUME NEW q \in Ptrs, asked'[q] # NotHeld
             PROVE  /\ asked'[q] <= (heap'.UsedUnits[q] - 1) * kUnitSize
                    /\ heap'.UsedUnits[q] * kUnitSize < UintModulus
  BY DEF RoomInv
<1>2. asked[q] # NotHeld =>
        /\ asked[q] <= (heap.UsedUnits[q] - 1) * kUnitSize
        /\ heap.UsedUnits[q] * kUnitSize < UintModulus
  BY DEF RoomInv
<1>3. ASSUME asked'[q] = asked[q], heap'.UsedUnits[q] = heap.UsedUnits[q]
      PROVE  /\ asked'[q] <= (heap'.UsedUnits[q] - 1) * kUnitSize
             /\ heap'.UsedUnits[q] * kUnitSize < UintModulus
  BY <1>2, <1>3, Zenon
<1>4. ASSUME NEW bytes \in ByteSizes, asked'[q] = bytes,
             heap'.UsedUnits[q] = UnitsFor(bytes)
      PROVE  /\ asked'[q] <= (heap'.UsedUnits[q] - 1) * kUnitSize
             /\ heap'.UsedUnits[q] * kUnitSize < UintModulus
  <2>1. bytes \in Nat /\ SizeFits(bytes)
    BY <1>1 DEF SizesFit
  <2>2. /\ bytes <= (UnitsFor(bytes) - 1) * kUnitSize
        /\ UnitsFor(bytes) * kUnitSize < UintModulus
    BY <2>1, UnitsForRoom
  <2> QED BY <1>4, <2>2, Zenon
<1>5. CASE Nothing
  BY <1>3, <1>5 DEF Nothing
<1>6. ASSUME NEW p \in Ptrs, NEW bytes \in ByteSizes, Gets(p, bytes)
      PROVE  /\ asked'[q] <= (heap'.UsedUnits[q] - 1) * kUnitSize
             /\ heap'.UsedUnits[q] * kUnitSize < UintModulus
  <2>1. \/ asked'[q] = asked[q] /\ heap'.UsedUnits[q] = heap.UsedUnits[q]
        \/ asked'[q] = bytes /\ heap'.UsedUnits[q] = UnitsFor(bytes)
    BY <1>1, <1>6 DEF Gets
  <2> QED BY <1>3, <1>4, <2>1
<1>7. ASSUME NEW p \in Ptrs, GivesBack(p)
      PROVE  asked'[q] = asked[q] /\ heap'.UsedUnits[q] = heap.UsedUnits[q]
  BY <1>1, <1>7 DEF GivesBack
<1>8. ASSUME NEW p \in Ptrs, NEW bytes \in Nat, NEW units \in Nat, Resizes(p, bytes, units)
      PROVE  /\ asked'[q] <= (heap'.UsedUnits[q] - 1) * kUnitSize
             /\ heap'.UsedUnits[q] * kUnitSize < UintModulus
  <2>1. CASE q # p
    <3>1. asked'[q] = asked[q] /\ heap'.UsedUnits[q] = heap.UsedUnits[q]
      BY <1>1, <1>8, <2>1 DEF Resizes
    <3> QED BY <1>3, <3>1
  <2>2. CASE q = p
    <3>1. /\ asked'[q] = bytes /\ heap'.UsedUnits[q] = units
          /\ units <= heap.UsedUnits[q] /\ asked[q] # NotHeld /\ Enough(q, bytes, units)
      BY <1>1, <1>8, <2>2 DEF Resizes
    <3>2. asked[q] # NotHeld /\ asked[q] \in Nat /\ heap.UsedUnits[q] \in Nat
      BY <1>1, <3>1
    <3>3. units * kUnitSize < UintModulus
      BY <1>2, <3>1, <3>2, FewerUnits
    <3>4. bytes <= (units - 1) * kUnitSize
      <4>1. ASSUME NEW n \in ByteSizes \cup ShrinkSizes, bytes <= n, UnitsFor(n) <= units
            PROVE  bytes <= (units - 1) * kUnitSize
        BY <1>1, <4>1, MoreUnits DEF SizesFit
      <4>2. CASE bytes <= asked[q] /\ units = heap.UsedUnits[q]
        <5> DEFINE room == (units - 1) * kUnitSize
        <5>1. asked[q] <= room /\ room \in Int
          BY <1>2, <3>2, <4>2, UnitAssumption
        <5> HIDE DEF room
        <5>2. bytes <= room
          BY <3>2, <4>2, <5>1
        <5> QED BY <5>2 DEF room
      <4> QED BY <3>1, <4>1, <4>2 DEF Enough
    <3> QED BY <3>1, <3>3, <3>4
  <2> QED BY <2>1, <2>2
<1>9. ASSUME NEW p \in Ptrs, NEW to \in Ptrs, NEW bytes \in ByteSizes, Moves(p, to, bytes)
      PROVE  /\ asked'[q] <= (heap'.UsedUnits[q] - 1) * kUnitSize
             /\ heap'.UsedUnits[q] * kUnitSize < UintModulus
  <2>1. \/ asked'[q] = asked[q] /\ heap'.UsedUnits[q] = heap.UsedUnits[q]
        \/ asked'[q] = bytes /\ heap'.UsedUnits[q] = UnitsFor(bytes)
    BY <1>1, <1>9 DEF Moves
  <2> QED BY <1>3, <1>4, <2>1
<1>10. CASE Destroy
  BY <1>10 DEF Destroy
<1>11. Effect \/ Destroy
  BY EffectOfStep
<1> QED BY <1>3, <1>5, <1>6, <1>7, <1>8, <1>9, <1>10, <1>11 DEF Effect

\* While sizes do not wrap, what the client may use stays behind the header of
\* the block, through growing in place, moving and shrinking.
THEOREM RoomEnough == ASSUME SizesFit PROVE Spec => [](IInv /\ RoomInv)
<1>1. Init => IInv /\ RoomInv
  BY InitInv DEF Init, RoomInv
<1>2. (IInv /\ RoomInv) /\ [Next]_vars => (IInv /\ RoomInv)'
  BY StepInv, RoomStep
<1> QED BY <1>1, <1>2, PTL DEF Spec

\* A block has room for what the client asked, whichever call asked last: for
\* every window size and unit, and sizes that do not wrap `unsigned`.
THEOREM BlocksLargeEnough == ASSUME SizesFit PROVE Spec => []LargeEnough
<1>1. IInv /\ RoomInv => LargeEnough
  <2> SUFFICES ASSUME IInv, RoomInv, NEW p \in Held
               PROVE  asked[p] <= CapacityBytes(p)
    BY DEF LargeEnough
  <2> DEFINE n == heap.UsedUnits[p]
             size == n * kUnitSize
  <2>1. /\ asked[p] <= (n - 1) * kUnitSize /\ size < UintModulus /\ n \in Nat
        /\ asked[p] \in Nat
    BY DEF RoomInv, Held, IInv, TypeOK, HeapInv, Heaps
  <2>2. kUnitSize \in Nat /\ UintModulus \in Nat
    BY UnitAssumption, ModulusAssumption
  <2>3. size \in Nat /\ (n - 1) * kUnitSize = size - kUnitSize
    <3> HIDE DEF n
    <3> QED BY <2>1, <2>2
  <2>4. CapacityBytes(p) = (n - 1) * kUnitSize \/ CapacityBytes(p) = (size % UintModulus) - kUnitSize
    BY DEF CapacityBytes
  <2>5. size % UintModulus = size
    <3>1. size \in Nat /\ size < UintModulus
      BY <2>1, <2>3
    <3> HIDE DEF size
    <3> QED BY <2>2, <3>1
  <2> HIDE DEF size
  <2> QED BY <2>1, <2>3, <2>4, <2>5
<1> QED BY <1>1, RoomEnough, PTL

-----------------------------------------------------------------------------
(* The abstract heap *)

\* The cells of a block, as the refinement mapping has them.
CellsOf(p) == IF p \in Held THEN {<<p[1], u>> : u \in Span(heap, p)} ELSE {}

LEMMA CellsOfIs ==
    \A p \in Ptrs : CellsOf(p) = IF asked[p] # NotHeld THEN Cells(heap, p) ELSE {}
BY DEF CellsOf, Held, Cells

LEMMA CellsOfWillBe ==
    \A p \in Ptrs : CellsOf(p)' = IF asked'[p] # NotHeld THEN Cells(heap', p) ELSE {}
BY DEF CellsOf, Held, Cells, Span

\* Every call is an abstract step: a block the client gets is apart from all it
\* holds, the old block of a moving Reallocate included, and is large enough; a
\* call changes no other block, and one that fails changes nothing.
LEMMA SameCardinality == \A S : Client!Cardinality(S) = Cardinality(S)
BY DEF Client!Cardinality, Cardinality

THEOREM ImplementsHeap == ASSUME SizesFit PROVE Spec => ImplementsAbstractHeap
<1> DEFINE cells == [p \in Ptrs |-> CellsOf(p)]
<1>0. [p \in Ptrs |-> IF p \in Held THEN {<<p[1], u>> : u \in Span(heap, p)} ELSE {}] = cells
  BY DEF CellsOf
<1>1. Init => Client!Init
  <2> SUFFICES ASSUME Init PROVE Client!Init
    OBVIOUS
  <2>1. asked = [p \in Ptrs |-> NotHeld]
    BY DEF Init
  <2> QED BY <2>1 DEF Client!Init, Client!NotHeld, NotHeld, Held
<1>2. ASSUME IInv, RoomInv, RoomInv', IInv', [Next]_vars
      PROVE  [Client!Next]_(Client!absVars)
  <2>1. /\ asked \in [Ptrs -> Nat \cup {NotHeld}] /\ heap.UsedUnits \in [Ptrs -> Nat]
        /\ heap'.UsedUnits \in [Ptrs -> Nat]
        /\ ByteSizes \subseteq Nat /\ NotHeld \notin Nat /\ NotHeld = Client!NotHeld
        /\ \A p \in Ptrs : asked[p] # NotHeld => Live(heap, p)
    BY <1>2, SizesAssumption
       DEF IInv, TypeOK, HeapInv, Heaps, NotHeld, Client!NotHeld, ClientInv, GoneInv
  <2>2. /\ \A p \in Ptrs : cells[p] = IF asked[p] # NotHeld THEN Cells(heap, p) ELSE {}
        /\ \A p \in Ptrs : cells'[p] = IF asked'[p] # NotHeld THEN Cells(heap', p) ELSE {}
    BY CellsOfIs, CellsOfWillBe
  <2>3. ASSUME NEW p \in Ptrs, asked'[p] = asked[p],
               heap'.UsedUnits[p] = heap.UsedUnits[p]
        PROVE  cells'[p] = cells[p]
    <3>1. Cells(heap', p) = Cells(heap, p)
      BY <2>3, CellsOfSameUnits
    <3> QED BY <2>2, <2>3, <3>1
  <2>4. ASSUME NEW p \in Ptrs, asked'[p] # NotHeld
        PROVE  asked'[p] <= (Cardinality(cells'[p]) - 1) * kUnitSize
    <3>1. Cardinality(Cells(heap', p)) = heap'.UsedUnits[p]
      BY <2>1, CellsCard
    <3>2. asked'[p] <= (heap'.UsedUnits[p] - 1) * kUnitSize
      BY <1>2, <2>4 DEF RoomInv
    <3> QED BY <2>2, <2>4, <3>1, <3>2, Zenon
  <2>5. ASSUME NEW p \in Ptrs, NEW bytes \in ByteSizes, ApartFrom(p, UnitsFor(bytes)),
               asked'[p] = bytes, heap'.UsedUnits[p] = UnitsFor(bytes)
        PROVE  \A q \in Ptrs : cells'[p] \cap cells[q] = {}
    <3>1. cells'[p] = {<<p[1], u>> : u \in p[2] .. (p[2] + UnitsFor(bytes) - 1)}
      BY <2>1, <2>2, <2>5 DEF Cells, Span
    <3> HIDE DEF cells
    <3> QED BY <2>1, <2>2, <2>5, <3>1 DEF ApartFrom
  <2>6. \/ Nothing
        \/ \E p \in Ptrs, bytes \in ByteSizes : Gets(p, bytes)
        \/ \E p \in Ptrs : GivesBack(p)
        \/ \E p \in Ptrs, bytes \in Nat, units \in Nat : Resizes(p, bytes, units)
        \/ \E p, to \in Ptrs, bytes \in ByteSizes : Moves(p, to, bytes)
        \/ Destroy
    BY <1>2, EffectOfStep DEF Effect
  <2>7. CASE Nothing
    <3>1. asked' = asked /\ \A p \in Ptrs : cells'[p] = cells[p]
      BY <2>3, <2>7 DEF Nothing
    <3>2. asked' = asked /\ cells' = cells
      BY <3>1
    <3> QED BY <3>2 DEF Client!absVars, CellsOf
  <2>8. ASSUME NEW p \in Ptrs, NEW bytes \in ByteSizes, Gets(p, bytes)
        PROVE  Client!Next
    <3>1. asked[p] = NotHeld /\ asked'[p] = bytes /\ bytes # NotHeld
      BY <2>1, <2>8 DEF Gets
    <3>2. \A b \in Ptrs \ {p} : asked'[b] = asked[b] /\ cells'[b] = cells[b]
      BY <2>1, <2>3, <2>8 DEF Gets
    <3>3. \A q \in Ptrs : cells'[p] \cap cells[q] = {}
      BY <2>1, <2>5, <2>8, <3>1 DEF Gets
    <3>4. asked'[p] <= (Cardinality(cells'[p]) - 1) * kUnitSize
      BY <2>4, <3>1
    <3>5. Client!OnlyChanges({p})
      BY <3>2 DEF Client!OnlyChanges, CellsOf
    <3>6. Client!Placed(p, asked'[p])
      BY <3>3, <3>4, SameCardinality, Zenon DEF Client!Placed, Client!Room, CellsOf
    <3>7. Client!Acquire(p, asked'[p])
      BY <2>1, <3>1, <3>5, <3>6 DEF Client!Acquire
    <3>8. p \in Ptrs \ Client!Taken /\ asked'[p] # Client!NotHeld
      BY <2>1, <3>1 DEF Client!Taken
    <3> QED BY <3>7, <3>8, Zenon DEF Client!Next, Client!Acquire, Client!Placed, Client!Room
  <2>9. ASSUME NEW p \in Ptrs, GivesBack(p)
        PROVE  Client!Next
    <3>1. asked[p] # NotHeld /\ asked'[p] = NotHeld
      BY <2>1, <2>9 DEF GivesBack
    <3>2. \A b \in Ptrs \ {p} : asked'[b] = asked[b] /\ cells'[b] = cells[b]
      BY <2>1, <2>3, <2>9 DEF GivesBack
    <3>3. cells'[p] = {}
      BY <2>2, <3>1
    <3>4. Client!Release(p)
      BY <2>1, <3>1, <3>2, <3>3 DEF Client!Release, Client!OnlyChanges, CellsOf
    <3> QED BY <2>1, <3>1, <3>4 DEF Client!Next, Client!Taken
  <2>10. ASSUME NEW p \in Ptrs, NEW bytes \in Nat, NEW units \in Nat,
                Resizes(p, bytes, units)
         PROVE  Client!Next
    <3>1. /\ asked[p] # NotHeld /\ asked'[p] = bytes /\ bytes # NotHeld
          /\ heap'.UsedUnits[p] = units /\ units <= heap.UsedUnits[p]
      BY <2>1, <2>10 DEF Resizes
    <3>2. \A b \in Ptrs \ {p} : asked'[b] = asked[b] /\ cells'[b] = cells[b]
      BY <2>1, <2>3, <2>10 DEF Resizes
    <3>3. cells'[p] \subseteq cells[p]
      <4>1. Cells(heap', p) \subseteq Cells(heap, p)
        BY <2>1, <3>1 DEF Cells, Span, Ptrs, Units
      <4> QED BY <2>2, <3>1, <4>1
    <3>4. asked'[p] <= (Cardinality(cells'[p]) - 1) * kUnitSize
      BY <2>4, <3>1
    <3>5. Client!OnlyChanges({p})
      BY <3>2 DEF Client!OnlyChanges, CellsOf
    <3>6. asked'[p] <= Client!Room(p)'
      BY <3>4, SameCardinality, Zenon DEF Client!Room, CellsOf
    <3>7. Client!Keep(p, asked'[p])
      BY <2>1, <3>1, <3>3, <3>5, <3>6 DEF Client!Keep, CellsOf
    <3>8. p \in Client!Taken /\ asked'[p] # Client!NotHeld
      BY <2>1, <3>1 DEF Client!Taken
    <3> QED BY <3>7, <3>8, Zenon DEF Client!Next, Client!Keep
  <2>11. ASSUME NEW p \in Ptrs, NEW to \in Ptrs, NEW bytes \in ByteSizes,
                Moves(p, to, bytes)
         PROVE  Client!Next
    <3>1. /\ asked[p] # NotHeld /\ asked'[p] = NotHeld /\ p # to
          /\ asked[to] = NotHeld /\ asked'[to] = bytes /\ bytes # NotHeld
      BY <2>1, <2>11 DEF Moves
    <3>2. \A b \in Ptrs \ {p, to} : asked'[b] = asked[b] /\ cells'[b] = cells[b]
      BY <2>1, <2>3, <2>11 DEF Moves
    <3>3. \A q \in Ptrs : cells'[to] \cap cells[q] = {}
      BY <2>1, <2>5, <2>11, <3>1 DEF Moves
    <3>4. asked'[to] <= (Cardinality(cells'[to]) - 1) * kUnitSize
      BY <2>4, <3>1
    <3>5. cells'[p] = {}
      BY <2>2, <3>1
    <3>6. Client!OnlyChanges({p, to})
      BY <3>2 DEF Client!OnlyChanges, CellsOf
    <3>7. Client!Placed(to, asked'[to])
      BY <3>3, <3>4, SameCardinality, Zenon DEF Client!Placed, Client!Room, CellsOf
    <3>8. Client!Move(p, to, asked'[to])
      BY <2>1, <3>1, <3>5, <3>6, <3>7 DEF Client!Move, CellsOf
    <3> QED BY <2>1, <3>1, <3>8, Zenon DEF Client!Next, Client!Taken
  <2>12. CASE Destroy
    <3>1. \A b \in Ptrs : asked'[b] = NotHeld /\ cells'[b] = {}
      BY <2>2, <2>12 DEF Destroy
    <3>2. Client!End
      BY <2>1, <3>1 DEF Client!End, CellsOf
    <3> QED BY <3>2 DEF Client!Next
  <2> QED BY <2>6, <2>7, <2>8, <2>9, <2>10, <2>11, <2>12
<1> QED BY <1>1, <1>2, RoomEnough, PTL DEF Spec, ImplementsAbstractHeap, Client!Spec

-----------------------------------------------------------------------------
(* Sums over a set *)

\* The set that the parts of s make up.
Together(Part, s) == UNION {Part[x] : x \in s}

LEMMA PartAndRest ==
    ASSUME NEW S, IsFiniteSet(S), NEW Part, \A x \in S : IsFiniteSet(Part[x]),
           \A x, y \in S : x # y => Part[x] \cap Part[y] = {},
           NEW s \in SUBSET S
    PROVE  /\ IsFiniteSet(Together(Part, s))
           /\ \A x \in s : Cardinality(Together(Part, s)) =
                  Cardinality(Part[x]) + Cardinality(Together(Part, s \ {x}))
<1>1. \A t \in SUBSET S : IsFiniteSet(Together(Part, t))
  <2> SUFFICES ASSUME NEW t \in SUBSET S PROVE IsFiniteSet(Together(Part, t))
    OBVIOUS
  <2>1. IsFiniteSet(t)
    BY FS_Subset
  <2>2. IsFiniteSet({Part[x] : x \in t})
    <3> DEFINE f == [x \in t |-> Part[x]]
               R == {Part[x] : x \in t}
    <3>1. f \in Surjection(t, R)
      BY DEF Surjection
    <3> QED BY <2>1, <3>1, FS_Surjection
  <2>3. \A P \in {Part[x] : x \in t} : IsFiniteSet(P)
    OBVIOUS
  <2> QED BY <2>2, <2>3, FS_UNION DEF Together
<1>2. ASSUME NEW x \in s
      PROVE  Cardinality(Together(Part, s)) =
                  Cardinality(Part[x]) + Cardinality(Together(Part, s \ {x}))
  <2> DEFINE P == Part[x]
             R == Together(Part, s \ {x})
  <2>1. Together(Part, s) = P \cup R /\ P \cap R = {}
    BY DEF Together
  <2>2. IsFiniteSet(P) /\ IsFiniteSet(R)
    BY <1>1
  <2>3. Cardinality(P \cup R) = Cardinality(P) + Cardinality(R) - Cardinality(P \cap R)
    BY <2>2, FS_Union
  <2>4. Cardinality(P \cap R) = 0
    BY <2>1, FS_EmptySet
  <2>5. Cardinality(P) \in Nat /\ Cardinality(R) \in Nat
    BY <2>2, FS_CardinalityType
  <2> HIDE DEF P, R
  <2>6. Cardinality(P \cup R) = Cardinality(P) + Cardinality(R)
    BY <2>3, <2>4, <2>5
  <2> QED BY <2>1, <2>6 DEF P, R
<1> QED BY <1>1, <1>2

\* sum is computed by taking the elements out one by one, as FoldSet does.
AddsUp(sum, weight, S) ==
    /\ sum[{}] = 0
    /\ \A s \in SUBSET S :
        (s # {} /\ sum[s \ {CHOOSE x \in s : TRUE}] \in Nat) =>
            sum[s] = weight[CHOOSE x \in s : TRUE] + sum[s \ {CHOOSE x \in s : TRUE}]

\* What the sum is when each element weighs as much as its part.
LEMMA SumOfParts ==
    ASSUME NEW S, IsFiniteSet(S), NEW Part, \A x \in S : IsFiniteSet(Part[x]),
           \A x, y \in S : x # y => Part[x] \cap Part[y] = {},
           NEW weight, \A x \in S : weight[x] = Cardinality(Part[x]),
           NEW sum, AddsUp(sum, weight, S)
    PROVE  sum[S] = Cardinality(Together(Part, S))
<1> DEFINE Wrong == {s \in SUBSET S : sum[s] # Cardinality(Together(Part, s))}
           Sizes == {Cardinality(s) : s \in Wrong}
<1>1. SUFFICES ASSUME S \in Wrong PROVE FALSE
  OBVIOUS
<1>2. \A s \in SUBSET S : IsFiniteSet(s) /\ Cardinality(s) \in Nat
  BY FS_Subset, FS_CardinalityType
<1>3. Sizes \in SUBSET Nat /\ Sizes # {}
  BY <1>1, <1>2
<1>4. PICK n \in Sizes : \A k \in Sizes : n <= k
  <2> HIDE DEF Sizes
  <2> QED BY <1>3, LeastElement
<1>5. PICK s \in Wrong : n = Cardinality(s)
  OBVIOUS
<1>6. s # {}
  <2>1. Together(Part, {}) = {}
    BY DEF Together
  <2>2. Cardinality(Together(Part, {})) = 0
    BY <2>1, FS_EmptySet
  <2> QED BY <2>2, <1>5 DEF AddsUp
<1> DEFINE x == CHOOSE x \in s : TRUE
           rest == s \ {x}
<1>7. x \in s /\ rest \in SUBSET S
  BY <1>6
<1>9. Cardinality(rest) < n
  <2>1. Cardinality(rest) = Cardinality(s) - 1 /\ Cardinality(s) \in Nat
    BY <1>2, <1>5, <1>7, FS_RemoveElement
  <2> QED BY <2>1, <1>5
<1>10. rest \notin Wrong
  <2>1. Cardinality(rest) \in Nat /\ n \in Nat
    BY <1>2, <1>3, <1>7
  <2>2. rest \in Wrong => Cardinality(rest) \in Sizes
    OBVIOUS
  <2> HIDE DEF Sizes, rest, Wrong
  <2> QED BY <1>4, <1>9, <2>1, <2>2
<1>11. sum[rest] = Cardinality(Together(Part, rest))
  BY <1>7, <1>10
<1>8. sum[s] = weight[x] + sum[rest]
  <2>1. sum[rest] \in Nat
    <3>1. IsFiniteSet(Together(Part, rest))
      <4> HIDE DEF x
      <4> QED BY <1>7, PartAndRest
    <3> QED BY <1>11, <3>1, FS_CardinalityType
  <2> QED BY <1>6, <2>1 DEF AddsUp
<1>12. Cardinality(Together(Part, s)) = Cardinality(Part[x]) + Cardinality(Together(Part, rest))
  <2> HIDE DEF x
  <2> QED BY <1>7, PartAndRest
<1>13. weight[x] = Cardinality(Part[x])
  BY <1>7
<1> HIDE DEF x, rest
<1> QED BY <1>5, <1>8, <1>11, <1>12, <1>13

\* There is such a sum: the sizes of the parts are one.
LEMMA SumOfPartsAddsUp ==
    ASSUME NEW S, IsFiniteSet(S), NEW Part, \A x \in S : IsFiniteSet(Part[x]),
           \A x, y \in S : x # y => Part[x] \cap Part[y] = {},
           NEW weight, \A x \in S : weight[x] = Cardinality(Part[x])
    PROVE  AddsUp([s \in SUBSET S |-> Cardinality(Together(Part, s))], weight, S)
<1>1. Cardinality(Together(Part, {})) = 0
  <2>1. Together(Part, {}) = {}
    BY DEF Together
  <2> QED BY <2>1, FS_EmptySet
<1>2. ASSUME NEW s \in SUBSET S, s # {}, NEW x \in s
      PROVE  Cardinality(Together(Part, s)) =
                  weight[x] + Cardinality(Together(Part, s \ {x}))
  <2>1. Cardinality(Together(Part, s)) =
            Cardinality(Part[x]) + Cardinality(Together(Part, s \ {x}))
    BY PartAndRest
  <2> QED BY <2>1
<1> DEFINE sizes == [s \in SUBSET S |-> Cardinality(Together(Part, s))]
<1>3. ASSUME NEW s \in SUBSET S, s # {}, NEW x, x = CHOOSE y \in s : TRUE
      PROVE  sizes[s] = weight[x] + sizes[s \ {x}]
  <2>1. x \in s
    BY <1>3
  <2> QED BY <1>2, <1>3, <2>1
<1>4. sizes[{}] = 0
  BY <1>1
<1> HIDE DEF sizes
<1>5. AddsUp(sizes, weight, S)
  BY <1>3, <1>4 DEF AddsUp
<1> QED BY <1>5 DEF sizes

-----------------------------------------------------------------------------
(* The statistics *)

\* The blocks of windows in the client's hands, and the windows on the lists.
WindowBlocks == {p \in Held : IsWindow(heap, p[1])}
Listed == Range(heap.PreferredWindows) \cup Range(heap.FullWindows)

LEMMA ListedAreWindows == IInv => Listed = {c \in Chunks : IsWindow(heap, c)}
<1> SUFFICES ASSUME IInv PROVE Listed = {c \in Chunks : IsWindow(heap, c)}
  OBVIOUS
<1>1. heap.PreferredWindows \in Seq(Chunks) /\ heap.FullWindows \in Seq(Chunks)
  BY DEF IInv, HeapInv, Heaps
<1>2. /\ \A i \in DOMAIN heap.PreferredWindows :
            heap.PreferredWindows[i] \in Chunks /\ IsWindow(heap, heap.PreferredWindows[i])
      /\ \A i \in DOMAIN heap.FullWindows :
            heap.FullWindows[i] \in Chunks /\ IsWindow(heap, heap.FullWindows[i])
  BY <1>1 DEF IInv, HeapInv, ListsInv
<1>3. \A c \in Chunks : IsWindow(heap, c) => c \in Listed
  BY DEF IInv, HeapInv, ListsInv, Listed, Range
<1> QED BY <1>2, <1>3 DEF Listed, Range

\* The sum over the windows of the units they do not have free.
LEMMA UsedUnitsCount ==
    ASSUME IInv
    PROVE  /\ IsFiniteSet(Listed)
           /\ UsedUnitsOf(heap, Listed) =
                Cardinality(Together([c \in Chunks |-> {c} \X heap.Used[c]], Listed))
<1> DEFINE Part == [c \in Chunks |-> {c} \X heap.Used[c]]
           weight == [c \in Chunks |-> kWindowMaxUnits - heap.FreeUnitCount[c]]
<1>1. IsFiniteSet(Listed) /\ Listed \subseteq Chunks /\ \A c \in Listed : IsWindow(heap, c)
  BY ListedAreWindows, ChunkAssumption, FS_Subset
<1>2. ASSUME NEW c \in Listed
      PROVE  IsFiniteSet(Part[c]) /\ weight[c] = Cardinality(Part[c]) /\ weight[c] \in Nat
  <2>1. heap.Used[c] \in SUBSET Units /\ c \in Chunks
    BY <1>1 DEF IInv, HeapInv, Heaps
  <2>2. IsFiniteSet(heap.Used[c]) /\ Cardinality(heap.Used[c]) \in 0..kWindowMaxUnits
    BY <2>1, UsedFinite
  <2>3. heap.FreeUnitCount[c] = kWindowMaxUnits - Cardinality(heap.Used[c])
    BY <1>1, <2>1 DEF IInv, HeapInv, BlocksInv, CountInv
  <2>4. weight[c] = Cardinality(heap.Used[c])
    BY <2>1, <2>2, <2>3, Constants
  <2>5. IsFiniteSet({c}) /\ Cardinality({c}) = 1
    BY FS_Singleton
  <2>6. /\ IsFiniteSet({c} \X heap.Used[c])
        /\ Cardinality({c} \X heap.Used[c]) = Cardinality({c}) * Cardinality(heap.Used[c])
    BY <2>2, <2>5, FS_Product
  <2>7. Cardinality({c}) * Cardinality(heap.Used[c]) = Cardinality(heap.Used[c])
    BY <2>2, <2>5
  <2> QED BY <2>1, <2>2, <2>4, <2>6, <2>7
<1>3. \A c, d \in Listed : c # d => Part[c] \cap Part[d] = {}
  BY <1>1
<1> DEFINE Computes(sum) ==
             sum = [s \in SUBSET Listed |->
                        IF s = {} THEN 0
                        ELSE LET c == CHOOSE c \in s : TRUE
                             IN  sum[s \ {c}] + kWindowMaxUnits - heap.FreeUnitCount[c]]
           sizes == [s \in SUBSET Listed |-> Cardinality(Together(Part, s))]
           sum == CHOOSE sum : Computes(sum)
<1>4. UsedUnitsOf(heap, Listed) = sum[Listed]
  BY Zenon DEF UsedUnitsOf, FoldSet, MapThenFoldSet
<1>5. AddsUp(sizes, weight, Listed)
  <2> HIDE DEF Part, weight
  <2> QED BY <1>1, <1>2, <1>3, SumOfPartsAddsUp
<1>6. \A s \in SUBSET Listed : sizes[s] \in Nat
  <2> SUFFICES ASSUME NEW s \in SUBSET Listed PROVE sizes[s] \in Nat
    OBVIOUS
  <2> HIDE DEF Part
  <2>1. IsFiniteSet(Together(Part, s))
    BY <1>1, <1>2, <1>3, PartAndRest
  <2> QED BY <2>1, FS_CardinalityType
<1>7. Computes(sizes)
  <2>1. ASSUME NEW s \in SUBSET Listed, s # {}, NEW c, c = CHOOSE x \in s : TRUE
        PROVE  sizes[s] = sizes[s \ {c}] + kWindowMaxUnits - heap.FreeUnitCount[c]
    <3>1. c \in s /\ s \ {c} \in SUBSET Listed
      BY <2>1
    <3>2. sizes[s \ {c}] \in Nat
      BY <1>6, <3>1
    <3>3. sizes[s] = weight[c] + sizes[s \ {c}]
      <4> HIDE DEF weight, sizes
      <4> QED BY <1>5, <2>1, <3>2 DEF AddsUp
    <3>4. weight[c] = kWindowMaxUnits - heap.FreeUnitCount[c] /\ heap.FreeUnitCount[c] \in Int
      BY <1>1, <3>1 DEF IInv, HeapInv, Heaps
    <3> HIDE DEF sizes, weight
    <3> QED BY <3>2, <3>3, <3>4, Constants
  <2>2. sizes[{}] = 0
    BY <1>5 DEF AddsUp
  <2>3. ASSUME NEW s \in SUBSET Listed
        PROVE  sizes[s] = IF s = {} THEN 0
                          ELSE LET c == CHOOSE c \in s : TRUE
                               IN  sizes[s \ {c}] + kWindowMaxUnits - heap.FreeUnitCount[c]
    <3> HIDE DEF sizes
    <3> QED BY <2>1, <2>2
  <2> QED BY <2>3
<1>8. Computes(sum)
  BY <1>7
<1>9. AddsUp(sum, weight, Listed)
  <2> HIDE DEF sum
  <2>1. sum[{}] = 0
    BY <1>8
  <2>2. ASSUME NEW s \in SUBSET Listed, s # {}, NEW c, c = CHOOSE x \in s : TRUE,
               sum[s \ {c}] \in Nat
        PROVE  sum[s] = weight[c] + sum[s \ {c}]
    <3>1. sum[s] = sum[s \ {c}] + kWindowMaxUnits - heap.FreeUnitCount[c]
      BY <1>8, <2>2
    <3>2. weight[c] = kWindowMaxUnits - heap.FreeUnitCount[c] /\ heap.FreeUnitCount[c] \in Int
      BY <1>1, <2>2 DEF IInv, HeapInv, Heaps
    <3> HIDE DEF weight
    <3> QED BY <2>2, <3>1, <3>2, Constants
  <2> HIDE DEF weight
  <2> QED BY <2>1, <2>2 DEF AddsUp
<1> QED BY <1>1, <1>2, <1>3, <1>4, <1>9, SumOfParts

LEMMA CellsFinite ==
    ASSUME NEW h, h.UsedUnits \in [Ptrs -> Nat], NEW p \in Ptrs
    PROVE  IsFiniteSet(Cells(h, p))
<1> DEFINE S == Span(h, p)
           f == [u \in S |-> <<p[1], u>>]
<1>1. IsFiniteSet(S)
  <2>1. p[2] \in Nat /\ h.UsedUnits[p] \in Nat
    BY Constants DEF Ptrs, Units
  <2> QED BY <2>1, RegionCard DEF Span
<1>2. f \in Surjection(S, Cells(h, p))
  <2> HIDE DEF S
  <2> QED BY DEF Surjection, Cells, S
<1> QED BY <1>1, <1>2, FS_Surjection

\* The sum over the blocks of windows of their units.
LEMMA HeldUnitsCount ==
    ASSUME IInv
    PROVE  FoldSet(LAMBDA p, sum : sum + heap.UsedUnits[p], 0, WindowBlocks) =
                Cardinality(Together([p \in Ptrs |-> Cells(heap, p)], WindowBlocks))
<1> DEFINE Part == [p \in Ptrs |-> Cells(heap, p)]
           weight == heap.UsedUnits
<1>1. IsFiniteSet(WindowBlocks) /\ WindowBlocks \subseteq Ptrs
  <2>1. IsFiniteSet(Ptrs)
    BY ChunkAssumption, UsedFinite, FS_Product DEF Ptrs
  <2>2. WindowBlocks \subseteq Ptrs
    BY DEF WindowBlocks, Held
  <2> QED BY <2>1, <2>2, FS_Subset
<1>2. /\ heap.UsedUnits \in [Ptrs -> Nat] /\ HeapInv(heap)
      /\ \A p \in WindowBlocks : Live(heap, p) /\ p \in Ptrs
  BY HeldIsLive DEF IInv, HeapInv, Heaps, WindowBlocks
<1>3. ASSUME NEW p \in WindowBlocks
      PROVE  IsFiniteSet(Part[p]) /\ weight[p] = Cardinality(Part[p])
  BY <1>2, CellsCard, CellsFinite
<1>4. \A p, q \in WindowBlocks : p # q => Part[p] \cap Part[q] = {}
  BY <1>2, LiveCellsApart
<1> DEFINE Computes(sum) ==
             sum = [s \in SUBSET WindowBlocks |->
                        IF s = {} THEN 0
                        ELSE LET p == CHOOSE p \in s : TRUE
                             IN  sum[s \ {p}] + heap.UsedUnits[p]]
           sizes == [s \in SUBSET WindowBlocks |-> Cardinality(Together(Part, s))]
           sum == CHOOSE sum : Computes(sum)
<1>5. FoldSet(LAMBDA p, total : total + heap.UsedUnits[p], 0, WindowBlocks) = sum[WindowBlocks]
  BY Zenon DEF FoldSet, MapThenFoldSet
<1>6. AddsUp(sizes, weight, WindowBlocks)
  <2> HIDE DEF Part, weight
  <2> QED BY <1>1, <1>3, <1>4, SumOfPartsAddsUp
<1>7. \A s \in SUBSET WindowBlocks : sizes[s] \in Nat
  <2> SUFFICES ASSUME NEW s \in SUBSET WindowBlocks PROVE sizes[s] \in Nat
    OBVIOUS
  <2> HIDE DEF Part
  <2>1. IsFiniteSet(Together(Part, s))
    BY <1>1, <1>3, <1>4, PartAndRest
  <2> QED BY <2>1, FS_CardinalityType
<1>8. Computes(sizes)
  <2>1. ASSUME NEW s \in SUBSET WindowBlocks, s # {}, NEW p, p = CHOOSE x \in s : TRUE
        PROVE  sizes[s] = sizes[s \ {p}] + heap.UsedUnits[p]
    <3>1. p \in s /\ s \ {p} \in SUBSET WindowBlocks
      BY <2>1
    <3>2. sizes[s \ {p}] \in Nat /\ heap.UsedUnits[p] \in Nat
      BY <1>2, <1>7, <3>1
    <3>3. sizes[s] = weight[p] + sizes[s \ {p}]
      <4> HIDE DEF weight, sizes
      <4> QED BY <1>6, <2>1, <3>2 DEF AddsUp
    <3> HIDE DEF sizes
    <3> QED BY <3>2, <3>3
  <2>2. sizes[{}] = 0
    BY <1>6 DEF AddsUp
  <2>3. ASSUME NEW s \in SUBSET WindowBlocks
        PROVE  sizes[s] = IF s = {} THEN 0
                          ELSE LET p == CHOOSE p \in s : TRUE
                               IN  sizes[s \ {p}] + heap.UsedUnits[p]
    <3> HIDE DEF sizes
    <3> QED BY <2>1, <2>2
  <2> QED BY <2>3
<1>9. Computes(sum)
  BY <1>8
<1>10. AddsUp(sum, weight, WindowBlocks)
  <2> HIDE DEF sum
  <2>1. sum[{}] = 0
    BY <1>9
  <2>2. ASSUME NEW s \in SUBSET WindowBlocks, s # {}, NEW p, p = CHOOSE x \in s : TRUE,
               sum[s \ {p}] \in Nat
        PROVE  sum[s] = weight[p] + sum[s \ {p}]
    <3>1. sum[s] = sum[s \ {p}] + heap.UsedUnits[p]
      BY <1>9, <2>2
    <3>2. heap.UsedUnits[p] \in Nat
      BY <1>2, <2>2
    <3> QED BY <2>2, <3>1, <3>2
  <2> HIDE DEF weight
  <2> QED BY <2>1, <2>2 DEF AddsUp
<1>11. sum[WindowBlocks] = Cardinality(Together(Part, WindowBlocks))
  <2> HIDE DEF sum, Part, weight
  <2> QED BY <1>1, <1>3, <1>4, <1>10, SumOfParts
<1> QED BY <1>5, <1>11

\* The units used in the windows are the units of their blocks.
LEMMA SameUnitsTogether ==
    ASSUME IInv
    PROVE  Together([c \in Chunks |-> {c} \X heap.Used[c]], Listed) =
           Together([p \in Ptrs |-> Cells(heap, p)], WindowBlocks)
<1> DEFINE InWindows == Together([c \in Chunks |-> {c} \X heap.Used[c]], Listed)
           InBlocks == Together([p \in Ptrs |-> Cells(heap, p)], WindowBlocks)
<1>1. Listed = {c \in Chunks : IsWindow(heap, c)}
  BY ListedAreWindows
<1>2. \A c \in Chunks : IsWindow(heap, c) =>
          heap.Used[c] = UNION {Span(heap, p) : p \in {q \in Held : q[1] = c}}
  BY AccountingHolds DEF Accounting
<1>3. \A c, u : <<c, u>> \in InWindows <=> (c \in Listed /\ u \in heap.Used[c])
  BY <1>1 DEF Together
<1>4. \A c, u : <<c, u>> \in InBlocks <=>
                    \E p \in WindowBlocks : c = p[1] /\ u \in Span(heap, p)
  BY DEF Together, Cells, WindowBlocks, Held
<1>5. \A p \in WindowBlocks : p[1] \in Chunks /\ p \in Held /\ IsWindow(heap, p[1])
  BY DEF WindowBlocks, Held, Ptrs
<1>6. \A c, u : <<c, u>> \in InWindows <=> <<c, u>> \in InBlocks
  <2> HIDE DEF InWindows, InBlocks
  <2>1. ASSUME NEW c, NEW u, <<c, u>> \in InWindows
        PROVE  <<c, u>> \in InBlocks
    <3>1. c \in Chunks /\ IsWindow(heap, c) /\ u \in heap.Used[c]
      BY <1>1, <1>3, <2>1
    <3>2. u \in UNION {Span(heap, p) : p \in {q \in Held : q[1] = c}}
      BY <1>2, <3>1, Zenon
    <3>3. PICK p \in Held : p[1] = c /\ u \in Span(heap, p)
      BY <3>2
    <3> QED BY <1>4, <3>1, <3>3 DEF WindowBlocks
  <2>2. ASSUME NEW c, NEW u, <<c, u>> \in InBlocks
        PROVE  <<c, u>> \in InWindows
    <3>1. PICK p \in WindowBlocks : c = p[1] /\ u \in Span(heap, p)
      BY <1>4, <2>2
    <3>2. c \in Chunks /\ p \in Held /\ IsWindow(heap, c)
      BY <1>5, <3>1
    <3>3. u \in UNION {Span(heap, q) : q \in {r \in Held : r[1] = c}}
      BY <3>1, <3>2
    <3>4. u \in heap.Used[c]
      BY <1>2, <3>2, <3>3, Zenon
    <3> QED BY <1>1, <1>3, <3>2, <3>4
  <2> QED BY <2>1, <2>2, Zenon
<1>7. /\ \A x \in InWindows : \E c, u : x = <<c, u>>
      /\ \A x \in InBlocks : \E c, u : x = <<c, u>>
  BY <1>1 DEF Together, Cells, WindowBlocks, Held
<1> HIDE DEF InWindows, InBlocks
<1>8. InWindows = InBlocks
  BY <1>6, <1>7
<1> QED BY <1>8 DEF InWindows, InBlocks

\* GetMemoryUsedBytes() tells exactly what the client holds in windows: both
\* sides count the same units, once by windows and once by blocks.
THEOREM StatisticsAreExact == Spec => []UsedBytesExact
<1>1. IInv => UsedBytesExact
  <2> SUFFICES ASSUME IInv PROVE UsedBytesExact
    OBVIOUS
  <2>1. UsedUnitsOf(heap, Listed) =
            FoldSet(LAMBDA p, sum : sum + heap.UsedUnits[p], 0, WindowBlocks)
    BY UsedUnitsCount, HeldUnitsCount, SameUnitsTogether
  <2> QED BY <2>1, Zenon DEF UsedBytesExact, GetMemoryUsedBytes, Listed, WindowBlocks
<1> QED BY <1>1, Invariance, PTL
=============================================================================
