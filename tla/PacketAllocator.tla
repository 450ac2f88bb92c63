---------------------------- MODULE PacketAllocator ----------------------------
(***************************************************************************)
(* The packet allocator of PacketAllocator.h / PacketAllocator.cpp in its  *)
(* default build (PKTALLOC_SHRINK and PKTALLOC_DISABLE undefined).         *)
(*                                                                         *)
(* A chunk is one address range that calloc() can hand out.  The allocator *)
(* uses a chunk either as a window of kWindowMaxUnits units, which it      *)
(* carves into blocks, or as one fallback block for a request too large    *)
(* for a window.  A block is named by <<chunk, unit>>: the place of the    *)
(* AllocationHeader that precedes the memory handed to the client.         *)
(*                                                                         *)
(* The C++ object and the memory it owns are one record, heap, so that the *)
(* functions of the class are operators from heaps to heaps and Reallocate *)
(* can be, as in the code, an Allocate followed by a Free.                 *)
(***************************************************************************)
EXTENDS Integers, Sequences, FiniteSets, FiniteSetsExt, SequencesExt

CONSTANTS
    kWindowMaxUnits,    \* units in a window (2048 in the code)
    kUnitSize,          \* bytes in a unit (16 or 32)
    UintModulus,        \* 2^32: arithmetic on `unsigned` wraps here
    Chunks,             \* what calloc() can return
    HugeChunk,          \* sequence: the windows allocated by the constructor
    ByteSizes,          \* sizes the client passes to Allocate and Reallocate
    ShrinkSizes,        \* sizes the client passes to Shrink
    MaxLive,            \* bound on the blocks a client holds at a time
    NULL

ASSUME WindowAssumption == kWindowMaxUnits \in Nat /\ kWindowMaxUnits >= 8
ASSUME UnitAssumption == kUnitSize \in Nat \ {0}
ASSUME ModulusAssumption == UintModulus \in Nat \ {0}
ASSUME ChunkAssumption == IsFiniteSet(Chunks)
ASSUME HugeChunkAssumption ==
    /\ HugeChunk \in Seq(Chunks)
    /\ \A i, j \in DOMAIN HugeChunk : HugeChunk[i] = HugeChunk[j] => i = j
ASSUME SizesAssumption == ByteSizes \subseteq Nat /\ ShrinkSizes \subseteq Nat
ASSUME NullAssumption == NULL \notin Chunks \X (0..(kWindowMaxUnits - 1))

kFallbackThresholdUnits == kWindowMaxUnits \div 4
kPreferredThresholdUnits == (3 * kWindowMaxUnits) \div 4
kNotInFullList == -1

Units == 0..(kWindowMaxUnits - 1)
Ptrs == Chunks \X Units
NotHeld == -1

VARIABLES
    heap,       \* the allocator and the chunks it got from calloc()
    asked,      \* client: bytes it may use behind each pointer, or NotHeld
    destroyed   \* the destructor has run

vars == <<heap, asked, destroyed>>

-----------------------------------------------------------------------------
(* Reading a heap *)

Preallocated(c) == c \in Range(HugeChunk)
Span(h, ptr) == ptr[2] .. (ptr[2] + h.UsedUnits[ptr] - 1)
IsWindow(h, c) == h.kind[c] = "window"
IsFreed(h, ptr) == h.UsedUnits[ptr] = 0

\* Mutant of UnitsFor: rounds the size down.
UnitsForRoundedDown(bytes) == (bytes \div kUnitSize) + 1

\* Units for a request, with the header unit; the sum is an `unsigned`.
UnitsFor(bytes) == (((bytes + kUnitSize - 1) % UintModulus) \div kUnitSize) + 1

\* Mutant of Fits: the last unit of the region is not looked at.
FitsButForLastUnit(h, c, units) ==
    {r \in h.ResumeScanOffset[c] .. (kWindowMaxUnits - units) :
        r..(r + units - 2) \cap h.Used[c] = {}}

\* Where the scan of a window, from ResumeScanOffset on, can place the units.
Fits(h, c, units) ==
    {r \in h.ResumeScanOffset[c] .. (kWindowMaxUnits - units) :
        r..(r + units - 1) \cap h.Used[c] = {}}

CanServe(h, c, units) == h.FreeUnitCount[c] >= units /\ Fits(h, c, units) # {}

UnusedChunks(h) == {c \in Chunks : h.kind[c] = "unused"}

UsedUnitsOf(h, windows) ==
    FoldSet(LAMBDA c, sum : sum + kWindowMaxUnits - h.FreeUnitCount[c], 0, windows)
GetMemoryUsedBytes(h) ==
    kUnitSize * UsedUnitsOf(h, Range(h.PreferredWindows) \cup Range(h.FullWindows))

-----------------------------------------------------------------------------
(* Writing a heap *)

Failed(h) == {[heap |-> h, ptr |-> NULL]}

\* Mutants of CarveRegion: FreeUnitCount left alone, header unit not counted.
CarveRegionUncounted(h, c, start, units) ==
    [h EXCEPT !.UsedUnits[<<c, start>>] = units,
              !.Used[c] = @ \cup start..(start + units - 1),
              !.ResumeScanOffset[c] = start + units]
CarveRegionHeaderUncounted(h, c, start, units) ==
    [CarveRegionUncounted(h, c, start, units) EXCEPT !.FreeUnitCount[c] = @ - (units - 1)]

\* A region becomes a block: its header is written and the window updated.
CarveRegion(h, c, start, units) ==
    [h EXCEPT !.UsedUnits[<<c, start>>] = units,
              !.FreeUnitCount[c] = @ - units,
              !.Used[c] = @ \cup start..(start + units - 1),
              !.ResumeScanOffset[c] = start + units]

\* Mutant of ReleaseUnits: the scan offset stays where it was.
ReleaseUnitsNoRewind(h, c, start, end) ==
    [h EXCEPT !.Used[c] = @ \ start..(end - 1),
              !.FreeUnitCount[c] = @ + (end - start)]

\* A region is given back: the next scan starts no later than there.
ReleaseUnits(h, c, start, end) ==
    [h EXCEPT !.ResumeScanOffset[c] = IF @ > start THEN start ELSE @,
              !.Used[c] = @ \ start..(end - 1),
              !.FreeUnitCount[c] = @ + (end - start)]

\* The last `count` preferred windows go to the full list, last one first.
moveLastFewWindowsToFull(h, count) ==
    LET P == h.PreferredWindows
        kept == Len(P) - count
        fullCount == Len(h.FullWindows)
        moved == [i \in 1..count |-> P[Len(P) + 1 - i]]
    IN  [h EXCEPT
            !.FullWindows = @ \o moved,
            !.PreferredWindows = SubSeq(P, 1, kept),
            !.FullListIndex = [c \in Chunks |->
                IF \E i \in 1..count : moved[i] = c
                THEN fullCount + (CHOOSE i \in 1..count : moved[i] = c) - 1
                ELSE @[c]]]

\* Mutant: the full window moved into the slot keeps its old FullListIndex.
MoveFullWindowStaleIndex(h, c) ==
    LET F == h.FullWindows
        slot == h.FullListIndex[c] + 1
    IN  [h EXCEPT
            !.ResumeScanOffset[c] = 0,
            !.FullWindows = SubSeq([F EXCEPT ![slot] = F[Len(F)]], 1, Len(F) - 1),
            !.FullListIndex[c] = kNotInFullList,
            !.PreferredWindows = Append(@, c)]

\* A full window turns preferred; the last full window takes its slot.
MoveFullWindowToPreferred(h, c) ==
    LET F == h.FullWindows
        slot == h.FullListIndex[c] + 1
        last == F[Len(F)]
    IN  [h EXCEPT
            !.ResumeScanOffset[c] = 0,
            !.FullWindows = SubSeq([F EXCEPT ![slot] = last], 1, Len(F) - 1),
            !.FullListIndex = [@ EXCEPT ![last] = slot - 1, ![c] = kNotInFullList],
            !.PreferredWindows = Append(@, c)]

\* Mutant of PromoteIfRoomy: a window with exactly the threshold free stays.
PromoteAboveThreshold(h, c) ==
    IF /\ h.FreeUnitCount[c] > kPreferredThresholdUnits
       /\ h.FullListIndex[c] # kNotInFullList
    THEN MoveFullWindowToPreferred(h, c)
    ELSE h

PromoteIfRoomy(h, c) ==
    IF /\ h.FreeUnitCount[c] >= kPreferredThresholdUnits
       /\ h.FullListIndex[c] # kNotInFullList
    THEN MoveFullWindowToPreferred(h, c)
    ELSE h

AllocateFromPreferred(h, i, units) ==
    LET c == h.PreferredWindows[i]
        start == Min(Fits(h, c, units))
        later == Len(h.PreferredWindows) - i
        full == IF start + 2 * units > kWindowMaxUnits THEN later + 1 ELSE later
    IN  {[heap |-> moveLastFewWindowsToFull(CarveRegion(h, c, start, units), full),
          ptr |-> <<c, start>>]}

NewWindow(h, c) ==
    [h EXCEPT !.kind[c] = "window",
              !.Used[c] = {},
              !.FreeUnitCount[c] = kWindowMaxUnits,
              !.ResumeScanOffset[c] = 0,
              !.FullListIndex[c] = kNotInFullList,
              !.PreferredWindows = Append(@, c)]

\* calloc() can fail, whatever chunks are left.
allocateFromNewWindow(h, units) ==
    Failed(h) \cup
    {[heap |-> CarveRegion(NewWindow(h, c), c, 0, units), ptr |-> <<c, 0>>] :
        c \in UnusedChunks(h)}

FallbackBlock(h, c, units) ==
    [h EXCEPT !.kind[c] = "fallback", !.UsedUnits[<<c, 0>>] = units]

fallbackAllocate(h, units) ==
    Failed(h) \cup
    {[heap |-> FallbackBlock(h, c, units), ptr |-> <<c, 0>>] : c \in UnusedChunks(h)}

fallbackFree(h, ptr) ==
    [h EXCEPT !.UsedUnits[ptr] = 0, !.kind[ptr[1]] = "unused"]

-----------------------------------------------------------------------------
(* The API: Allocate and Reallocate give the set of their outcomes *)

Allocate(h, bytes) ==
    LET units == UnitsFor(bytes)
        P == h.PreferredWindows
        able == {i \in DOMAIN P : CanServe(h, P[i], units)}
    IN  IF bytes = 0 THEN Failed(h)
        ELSE IF units > kFallbackThresholdUnits THEN fallbackAllocate(h, units)
        ELSE IF able # {} THEN AllocateFromPreferred(h, Max(able), units)
        ELSE allocateFromNewWindow(moveLastFewWindowsToFull(h, Len(P)), units)

Free(h, ptr) ==
    LET c == ptr[1]
        units == h.UsedUnits[ptr]
        released == ReleaseUnits([h EXCEPT !.UsedUnits[ptr] = 0],
                                 c, ptr[2], ptr[2] + units)
    IN  IF IsFreed(h, ptr) THEN h
        ELSE IF ~IsWindow(h, c) THEN fallbackFree(h, ptr)
        ELSE PromoteIfRoomy(released, c)

\* Mutant of Shrink: one unit too few is given back.
ShrinkLosesUnit(h, ptr, bytes) ==
    LET needed == UnitsFor(bytes)
        current == h.UsedUnits[ptr]
    IN  IF needed < current /\ IsWindow(h, ptr[1])
        THEN ReleaseUnits([h EXCEPT !.UsedUnits[ptr] = needed],
                          ptr[1], ptr[2] + needed + 1, ptr[2] + current)
        ELSE h

Shrink(h, ptr, bytes) ==
    LET needed == UnitsFor(bytes)
        current == h.UsedUnits[ptr]
    IN  IF needed < current /\ IsWindow(h, ptr[1])
        THEN ReleaseUnits([h EXCEPT !.UsedUnits[ptr] = needed],
                          ptr[1], ptr[2] + needed, ptr[2] + current)
        ELSE h

\* Mutant of FreeOld: the old block is never freed.
FreeOldForgotten(o, ptr) == o

\* After a move the old block goes; when there was no room it stays.
FreeOld(o, ptr) ==
    IF o.ptr = NULL THEN o ELSE [heap |-> Free(o.heap, ptr), ptr |-> o.ptr]

\* Mutant of Reallocate: the old block is freed before the new one is found.
ReallocateFreesFirst(h, ptr, bytes) ==
    IF ptr = NULL THEN Allocate(h, bytes)
    ELSE IF bytes = 0 THEN {[heap |-> Free(h, ptr), ptr |-> NULL]}
    ELSE IF UnitsFor(bytes) <= h.UsedUnits[ptr] THEN {[heap |-> h, ptr |-> ptr]}
    ELSE Allocate(Free(h, ptr), bytes)

Reallocate(h, ptr, bytes) ==
    IF ptr = NULL THEN Allocate(h, bytes)
    ELSE IF bytes = 0 THEN {[heap |-> Free(h, ptr), ptr |-> NULL]}
    ELSE IF UnitsFor(bytes) <= h.UsedUnits[ptr] THEN {[heap |-> h, ptr |-> ptr]}
    ELSE {FreeOld(o, ptr) : o \in Allocate(h, bytes)}

\* Mutant of DestroyHeap: only the preferred windows are returned.
DestroyHeapPreferredOnly(h) ==
    LET Kept(c) == c \notin Range(h.PreferredWindows) \cup Range(HugeChunk)
    IN  [h EXCEPT !.kind = [c \in Chunks |-> IF Kept(c) THEN @[c] ELSE "unused"],
                  !.PreferredWindows = <<>>]

\* The destructor returns the windows of both lists and the huge chunk; the
\* fields of the object are gone.  Fallback blocks are in no list.
DestroyHeap(h) ==
    LET listed == Range(h.PreferredWindows) \cup Range(h.FullWindows)
        Kept(c) == c \notin listed \cup Range(HugeChunk)
    IN  [kind |-> [c \in Chunks |-> IF Kept(c) THEN h.kind[c] ELSE "unused"],
         Used |-> [c \in Chunks |-> IF Kept(c) THEN h.Used[c] ELSE {}],
         FreeUnitCount |-> [c \in Chunks |->
             IF Kept(c) THEN h.FreeUnitCount[c] ELSE kWindowMaxUnits],
         ResumeScanOffset |-> [c \in Chunks |->
             IF Kept(c) THEN h.ResumeScanOffset[c] ELSE 0],
         FullListIndex |-> [c \in Chunks |-> kNotInFullList],
         UsedUnits |-> [p \in Ptrs |-> IF Kept(p[1]) THEN h.UsedUnits[p] ELSE 0],
         PreferredWindows |-> <<>>,
         FullWindows |-> <<>>]

-----------------------------------------------------------------------------
(* The client: one action per call, on pointers it holds *)

Held == {p \in Ptrs : asked[p] # NotHeld}
LessOf(a, b) == IF a < b THEN a ELSE b

Init ==
    /\ heap = [kind |-> [c \in Chunks |-> IF Preallocated(c) THEN "window" ELSE "unused"],
               Used |-> [c \in Chunks |-> {}],
               FreeUnitCount |-> [c \in Chunks |-> kWindowMaxUnits],
               ResumeScanOffset |-> [c \in Chunks |-> 0],
               FullListIndex |-> [c \in Chunks |-> kNotInFullList],
               UsedUnits |-> [p \in Ptrs |-> 0],
               PreferredWindows |-> HugeChunk,
               FullWindows |-> <<>>]
    /\ asked = [p \in Ptrs |-> NotHeld]
    /\ destroyed = FALSE

\* What the client may use once Reallocate(ptr, bytes) returned o: a failure
\* with bytes > 0 leaves it the old block.  Allocate is the case ptr = NULL.
AskedAfter(ptr, bytes, o) ==
    [p \in Ptrs |-> IF p = o.ptr THEN bytes
                    ELSE IF p = ptr /\ (o.ptr # NULL \/ bytes = 0) THEN NotHeld
                    ELSE asked[p]]

CallAllocate(bytes) ==
    /\ ~destroyed
    /\ Cardinality(Held) < MaxLive
    /\ \E o \in Allocate(heap, bytes) :
        heap' = o.heap /\ asked' = AskedAfter(NULL, bytes, o)
    /\ UNCHANGED destroyed

CallReallocate(ptr, bytes) ==
    /\ ~destroyed
    /\ ptr \in Held \/ (ptr = NULL /\ Cardinality(Held) < MaxLive)
    /\ \E o \in Reallocate(heap, ptr, bytes) :
        heap' = o.heap /\ asked' = AskedAfter(ptr, bytes, o)
    /\ UNCHANGED destroyed

CallShrink(ptr, bytes) ==
    /\ ~destroyed
    /\ ptr \in Held
    /\ heap' = Shrink(heap, ptr, bytes)
    /\ asked' = [asked EXCEPT ![ptr] = LessOf(@, bytes)]
    /\ UNCHANGED destroyed

CallFree(ptr) ==
    /\ ~destroyed
    /\ ptr \in Held
    /\ heap' = Free(heap, ptr)
    /\ asked' = [asked EXCEPT ![ptr] = NotHeld]
    /\ UNCHANGED destroyed

Destroy ==
    /\ ~destroyed
    /\ heap' = DestroyHeap(heap)
    /\ asked' = [p \in Ptrs |-> NotHeld]
    /\ destroyed' = TRUE

Next ==
    \/ \E bytes \in ByteSizes :
        \/ CallAllocate(bytes)
        \/ \E ptr \in Ptrs \cup {NULL} : CallReallocate(ptr, bytes)
    \/ \E ptr \in Ptrs, bytes \in ShrinkSizes : CallShrink(ptr, bytes)
    \/ \E ptr \in Ptrs : CallFree(ptr)
    \/ Destroy

Spec == Init /\ [][Next]_vars

-----------------------------------------------------------------------------
(* What the allocator must never get wrong *)

Heaps ==
    [kind : [Chunks -> {"unused", "window", "fallback"}],
     Used : [Chunks -> SUBSET Units],
     FreeUnitCount : [Chunks -> 0..kWindowMaxUnits],
     ResumeScanOffset : [Chunks -> 0..kWindowMaxUnits],
     FullListIndex : [Chunks -> Int],
     UsedUnits : [Ptrs -> Nat],
     PreferredWindows : Seq(Chunks),
     FullWindows : Seq(Chunks)]

\* The heap has the shape the class declares: no counter leaves its range.
TypeOK ==
    /\ heap \in Heaps
    /\ asked \in [Ptrs -> Nat \cup {NotHeld}]
    /\ destroyed \in BOOLEAN

\* Two blocks in the client's hands share no unit, headers included, and no
\* block reaches past the end of its window: whatever sequence of Allocate,
\* Reallocate, Shrink and Free carved and returned the units around them.
NoOverlap ==
    \A p \in Held :
        /\ IsWindow(heap, p[1]) => p[2] + heap.UsedUnits[p] <= kWindowMaxUnits
        /\ \A q \in Held \ {p} : p[1] = q[1] => Span(heap, p) \cap Span(heap, q) = {}

\* The bitmask of a window is exactly the units of the blocks in the client's
\* hands, and FreeUnitCount counts the others: no unit leaks, none is free twice.
Accounting ==
    \A c \in Chunks : IsWindow(heap, c) =>
        /\ heap.Used[c] = UNION {Span(heap, p) : p \in {q \in Held : q[1] = c}}
        /\ heap.FreeUnitCount[c] = kWindowMaxUnits - Cardinality(heap.Used[c])

\* A header says "in use" exactly for the blocks in the client's hands, and a
\* fallback chunk is returned when its block is: Reallocate loses no old block.
EveryBlockHasAnOwner ==
    ~destroyed =>
        /\ \A p \in Ptrs : IsFreed(heap, p) <=> p \notin Held
        /\ \A c \in Chunks : heap.kind[c] = "fallback" => <<c, 0>> \in Held

\* Every window is on exactly one list, once; FullListIndex is its place on the
\* full list, or kNotInFullList; the preallocated windows are never lost.
ListsConsistent ==
    LET P == heap.PreferredWindows
        F == heap.FullWindows
    IN  /\ \A i, j \in DOMAIN P : P[i] = P[j] => i = j
        /\ Range(P) \cup Range(F) = {c \in Chunks : IsWindow(heap, c)}
        /\ \A i \in DOMAIN P : heap.FullListIndex[P[i]] = kNotInFullList
        /\ \A i \in DOMAIN F : heap.FullListIndex[F[i]] = i - 1
        /\ ~destroyed => \A i \in DOMAIN HugeChunk : IsWindow(heap, HugeChunk[i])

\* GetMemoryUsedBytes() is the bytes of the window blocks in the client's hands,
\* so it is back to zero when all of them are freed.
UsedBytesExact ==
    GetMemoryUsedBytes(heap) =
        kUnitSize * FoldSet(LAMBDA p, sum : sum + heap.UsedUnits[p], 0,
                            {p \in Held : IsWindow(heap, p[1])})

\* Bytes behind the header of a block; fallbackAllocate sizes its calloc() with
\* a product of two `unsigned`.
CapacityBytes(p) ==
    IF IsWindow(heap, p[1])
    THEN (heap.UsedUnits[p] - 1) * kUnitSize
    ELSE ((heap.UsedUnits[p] * kUnitSize) % UintModulus) - kUnitSize

\* A block has room for what the client asked, whichever call asked last.
LargeEnough == \A p \in Held : asked[p] <= CapacityBytes(p)

\* The destructor returns every window, preferred or full, calloc()ed or not.
DestructorFreesWindows == destroyed => \A c \in Chunks : ~IsWindow(heap, c)

WasFreed(p) == asked[p] # NotHeld /\ asked'[p] = NotHeld /\ ~destroyed'

\* The space of a freed block is not lost: if its window is (or turns)
\* preferred, the scan, resumed where the Free left it, finds the hole again.
FreedSpaceIsFound ==
    [][\A p \in Ptrs :
        (WasFreed(p) /\ IsWindow(heap, p[1])
            /\ heap'.FullListIndex[p[1]] = kNotInFullList)
        => CanServe(heap', p[1], heap.UsedUnits[p])]_vars

\* Full windows turn preferred below 1/4 utilization: no Free (or moving
\* Reallocate) leaves the window it frees on the full list with 3/4 of it free.
FreePromotes ==
    [][\A p \in Ptrs :
        (WasFreed(p) /\ IsWindow(heap, p[1])
            /\ heap'.FreeUnitCount[p[1]] >= kPreferredThresholdUnits)
        => heap'.FullListIndex[p[1]] = kNotInFullList]_vars

\* What a client may rely on: AbstractHeap, where blocks are sets of cells.
Client == INSTANCE AbstractHeap WITH
    Blocks <- Ptrs,
    CellBytes <- kUnitSize,
    cells <- [p \in Ptrs |-> IF p \in Held THEN {<<p[1], u>> : u \in Span(heap, p)}
                                           ELSE {}]

\* Every call is an abstract step: blocks are disjoint and large enough, a call
\* touches no block but its own, a moving Reallocate keeps the old block apart
\* from the new one until the data is copied, a failing one keeps the old block.
ImplementsAbstractHeap == Client!Spec

-----------------------------------------------------------------------------
(* What the documentation and the assertions of the code say, and the code   *)
(* does not keep                                                             *)

\* IntegrityCheck() of the code: what it tests beyond ListsConsistent and
\* Accounting is that no preferred window is without a free unit.
IntegrityCheck(h) ==
    LET P == h.PreferredWindows
        F == h.FullWindows
        Sane(c) ==
            /\ h.ResumeScanOffset[c] <= kWindowMaxUnits
            /\ Cardinality(h.Used[c]) = kWindowMaxUnits - h.FreeUnitCount[c]
    IN  /\ \A i \in DOMAIN P :
            /\ h.FullListIndex[P[i]] = kNotInFullList
            /\ \A j \in DOMAIN P \ {i} : P[j] # P[i]
            /\ h.FreeUnitCount[P[i]] \in 1..kWindowMaxUnits
            /\ Sane(P[i])
        /\ \A i \in DOMAIN F :
            /\ h.FullListIndex[F[i]] = i - 1
            /\ \A j \in DOMAIN P : P[j] # F[i]
            /\ \A j \in DOMAIN F \ {i} : F[j] # F[i]
            /\ Sane(F[i])
        /\ Cardinality({c \in Range(P) \cup Range(F) : Preallocated(c)}) = Len(HugeChunk)

\* tests/test_allocator.cpp: the integrity check holds between any two calls.
IntegrityHolds == ~destroyed => IntegrityCheck(heap)
=============================================================================
