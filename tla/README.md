# A verification development for siamese

Siamese is a C++ library for streaming erasure codes: a sender adds recovery
packets to a stream, a receiver rebuilds lost packets from them.  At this commit
the encoder and decoder are stubs; what carries logic is the machinery below
them: a packet allocator, a background logger, the wire serializers, the column
arithmetic of the code matrix, growable buffers and GF(256) arithmetic.

This directory holds TLA+ modules of that machinery, TLC configurations that
check them on small instances, and TLAPS proofs.

## The system

| component | source | state | operations | who calls whom |
|---|---|---|---|---|
| packet allocator | `PacketAllocator.h`, `PacketAllocator.cpp` | windows of units with a bitmask, a count and a scan offset; the preferred and the full list; a header in front of each block | constructor, destructor, `Allocate`, `Reallocate`, `Shrink`, `Free`, `IntegrityCheck`, statistics | called by its test; the buffers were written for it and now use the stub `pktalloc.h`; calls `calloc`/`free` |
| CustomBitSet | `PacketAllocator.h` 189-437 | an array of 64-bit words | `Set`, `Clear`, `SetRange`, `ClearRange`, `FindFirstSet`, `FindFirstClear`, `RangePopcount` | bitmask of a window |
| LightVector | `PacketAllocator.h` 466-588 | size, allocated size, data | `SetSize_Copy`, `SetSize_NoCopy`, `Append`, `Clear` | the two window lists |
| logger | `Logger.h`, `Logger.cpp` | a queue under a mutex, two condition variables, atomic flags, one worker thread | `Start`, `Stop`, `Write`, `Flush`, the worker's `Loop` | any thread writes and flushes; the worker drains |
| serializers | `SiameseSerializers.h` | none, a byte stream | `WriteByteStream`, `ReadByteStream`, packet numbers, counts, lengths, recovery metadata, loss ranges | codec |
| column arithmetic | `SiameseCommon.h` 95-230 | none | column sum and difference modulo 0x400000, row and column values, opcodes, Cauchy elements | codec |
| growing buffers, matrix | `SiameseCommon.h` 240-347, `SiameseCommon.cpp` | a pointer and sizes | `GrowZeroPadded`, `Initialize`, `Resize`, `Free` | clients of the allocator |
| GF(256) | `gf256.h`, `gf256.cpp` | tables built at start, the features of the processor | `gf256_init`, multiply, divide, inverse, bulk memory operations, a self test | codec |
| tools | `SiameseTools.h`, `SiameseTools.cpp` | three samples with times; a random state | `WindowedMinMax`, `PCGRandom`, clocks | benchmarks, codec |
| recovery packet list, decoder window | `RecoveryPacketList.h`, `DecoderPacketWindow.h` | a list of recovery packets | insert, delete before a column | decoder |
| codec API | `siamese.h`, `siamese.cpp`, `SiameseEncoder.*`, `SiameseDecoder.*` | none at this commit | stubs that return fixed results | application |

Hard behaviours, component by component:

- **Allocator.**  Single threaded ("No thread safety ... overhead"), but every
  call works on state that long call sequences have bent: a scan resumes at a
  cached offset, windows wander between two lists through a cached index, a
  failing `calloc()` returns in the middle of a reorganisation, and `Reallocate`
  is three calls in one.  Correct means: blocks never share a unit, three
  records of what is used agree, no unit or window is lost, a failing call
  leaves the client what it had.
- **Logger.**  Threads, two condition variables, a bounded queue that drops, a
  `Flush` that waits for a notification anyone may cause, a `Stop` racing all of
  them.  Correct means: accepted messages come out once and in order, dropped
  ones are counted, `Flush` and `Stop` return.
- **Serializers, columns, bit set, GF(256).**  Pure functions with edges: word
  and width boundaries, wrap-around.  Correct means: they agree with a
  definition that has no edges.
- **Bulk memory operations.**  Nine combinations of processor and build, each with
  its own loops over blocks of 128 to 8 bytes, its own tables and its own tail;
  the self test tries one length and buffers of equal bytes.  Correct means: the
  same bytes come out on every host, for every length.
- **Buffers, matrix, vector.**  Sizes and pointers updated around an allocation
  that can fail.
- **Windowed minimum.**  Three samples stand for all that a window saw, aged by
  times that may wrap.  Correct means: the best is recent, and none that came
  after it is better.

Which of it is built: `PacketAllocator.cpp`, `gf256.cpp` and `SiameseCommon.cpp` are
in no CMake target (`SOURCE_FILES` lists them and is not used), only in the Visual
Studio project.  `SiameseCommon.h` includes the stub `pktalloc.h` in place of
`PacketAllocator.h`, and its `OriginalPacket` (line 68) has no `Initialize`, which
`SiameseCommon.cpp:92` defines, so that this file does not compile as it stands; the
model follows the function.

## What is here

| module | models | kind |
|---|---|---|
| `PacketAllocator` | the allocator, its chunks and its client | specification and properties |
| `AbstractHeap` | what the allocator promises a client | abstract specification |
| `CustomBitSet` | the bitmask of a window, word by word, and the scan `Allocate` makes with it | specification and properties |
| `OutputWorker` | the logger: its worker, its queue, its locks and any number of callers | specification and properties |
| `AbstractLog` | what the logger promises a caller | abstract specification |
| `Serializers` | the wire format of each field, as functions on bytes | definitions |
| `PacketFields` | a packet written and read through the two byte streams | specification and properties |
| `GrowingBuffers` | a growing buffer and a growing matrix on an allocator that fails | specification and properties |
| `Columns` | column numbers, their sums and differences, and the factors of rows and columns | definitions |
| `GF256` | the tables of the field, its operations on single elements, the elements of the Cauchy matrix, and the field itself | definitions |
| `BulkMemory` | `gf256_init_` with its self test, and the bulk memory operations on every host | specification and properties |
| `AbstractBulk` | what a bulk memory operation promises | abstract specification |
| `LightVector` | the vector that holds the lists of windows | specification and properties |
| `WindowedMinMax` | the running minimum or maximum | specification and properties |
| `PacketAllocator_proofs` | the inductive invariant of the allocator, its properties, and that it is an `AbstractHeap` | TLAPS |
| `PacketFields_proofs` | that columns behave as the places of an unbounded stream, that every field reads back, and that packets of them do | TLAPS |
| `OutputWorker_proofs` | the inductive invariant of the logger, its properties, and that it is an `AbstractLog` | TLAPS |
| `BulkMemory_proofs` | that the tables are those of a field, the inductive invariant of the bulk operations, that they are those of `AbstractBulk`, and that the self test passes | TLAPS |
| `GrowingBuffers_proofs` | the inductive invariant of buffer and matrix, and that they keep their data | TLAPS |
| `CustomBitSet_proofs` | that the word operations, the searches, the count and the scan are exact for every width and length | TLAPS |
| `LightVector_proofs`, `WindowedMinMax_proofs` | that the properties of these two always hold | TLAPS |
| `MCPacketAllocator`, `MCCustomBitSet`, `MCOutputWorker`, `MCPacketFields`, `MCGrowingBuffers`, `MCBulkMemory` | constants for TLC | model |

`GrowingBuffers` uses the packet-length field of `Serializers`, `PacketFields`
composes all of them, and `BulkMemory` works with the tables of `GF256`.
`CustomBitSet` justifies what `PacketAllocator` says of the scan, and
`LightVector` that its lists are sequences.  `AbstractHeap`, `AbstractLog` and
`AbstractBulk` are instantiated by the modules that implement them.

### PacketAllocator

The C++ object and the memory it owns are one record, `heap`:

| field | code |
|---|---|
| `kind[c]` | what a chunk of memory is used as: not allocated, a window, a fallback block (`AllocationHeader::Header` is null exactly for the last) |
| `Used[c]`, `FreeUnitCount[c]`, `ResumeScanOffset[c]`, `FullListIndex[c]` | the `WindowHeader`; the bitmask is a set of units |
| `UsedUnits[<<c, u>>]` | the `AllocationHeader` at unit `u` of chunk `c`, 0 when freed |
| `PreferredWindows`, `FullWindows` | the two `LightVector`s |

`HugeChunk` names the preallocated windows, `Chunks` what `calloc()` can return.
The functions of the class are operators from heaps to heaps with the names of
the code; `Allocate` and `Reallocate` return the set of their outcomes, because
`calloc()` may fail at any call and may return any unused chunk.  `Reallocate`
is, as in the code, an `Allocate` followed by a `Free`.  The scan of a window
(`FindFirstClear`, `FindFirstSet`, restart behind the obstacle) is the least
place from `ResumeScanOffset` on where the units fit (`Fits`); that the loop over
the two bit-set functions computes this is `ScanFindsFirst` of `CustomBitSet`.

`asked` is the client: the bytes it may use behind each pointer it holds.  The
actions `CallAllocate`, `CallReallocate`, `CallShrink`, `CallFree` and `Destroy`
are the API on pointers the client holds, as in `tests/test_allocator.cpp`; a
client that frees twice or writes past its block is outside the model.
`unsigned` sums are modulo `UintModulus`.  Debug-only canaries, memory contents
and alignment are left out, and so are the `PKTALLOC_SHRINK` build, a
constructor whose allocation fails and a window list that cannot grow.

### AbstractHeap

A block is a set of cells, one of them for a header.  `Acquire`, `Release`,
`Keep` and `Move` are all a client can see; `Move` asks for cells apart from
the old ones, which is what makes the `memcpy` of `Reallocate` sound.  The
refinement mapping takes the units of a held block as its cells.

### CustomBitSet

A word is the set of its bits that are 1, so that shifts, masks, popcount and
trailing-zero count are set operations with the width of the word in them; an
array of words is a function.  Each method of the template is an operator with
its first word, its loop and its last word kept apart, as in the code, for that
is where the edges are; `RegionFrom` is the loop of `Allocate`.  The state is one
array, changed by every operation with every argument its comments allow.  The
last word has padding behind `kValidBits`: `SetAll` sets it, nothing else may
notice.

### OutputWorker

| variable | code |
|---|---|
| `QueuePublic`, `QueuePrivate`, `Overrun`, `FlushRequested`, `Terminated` | the members of `OutputWorker` with these names |
| `Thread`, `startStopLock` | whether `Thread` points to a `std::thread`; who holds `StartStopLock` |
| `worker`, `overrun`, `flushRequested` | where `Loop()` is, and its locals |
| `pc[t]`, `after[t]`, `msg[t]`, `calls[t]` | where a caller is, where its `Flush` returns to, the message it writes, its calls so far |
| `output`, `sent`, `owed[t]` | history: what was printed, how many messages passed `Write`, what was pending when a `Flush` began to wait |

The steps are the stretches between two points where another thread can be
noticed.  Everything under `QueueLock` is one step, since what can change without
that lock commutes with the rest of the section.  A condition variable is no
variable: its waiters are the threads whose control is at the wait, a
`notify_all` moves them, and a wait may end for no reason where
`SpuriousWakeups` is set.  `Flush` is entered from four places (a call, `Stop`,
a `Write` of the never-drop build, an error that flushes) and `after` says where
it goes on.  Printing takes a message off `QueuePrivate` line by line (the code
clears the list behind the loop), so that other threads write and flush between
two lines.  `Start` clears the queues and resets the flags without `QueueLock`:
these are steps of their own.  The three build options are constants.

Left out: prefixes and minimum levels of a channel, wording, the Windows
branches, a thread that cannot be created, and the line "Terminating" that the
worker prints last.

### AbstractLog

A line is accepted, refused (only when `Capacity` lines are pending, and then
counted), or comes out in order; reports come out with what they count; only a
logger that does not run forgets.  In the mapping `pending` is
`QueuePrivate \o QueuePublic` and `unreported` is `Overrun` with the worker's
copy of it, so the swap, the clearing and the copying must be stutters.

### Serializers and PacketFields

A buffer is a sequence of bytes and a writer returns the bytes it writes; a
reader returns the value with the number of bytes read, or `FormatError`.  A
footer is read from the last byte backwards, so its reader is the header's on
the reversed buffer, as the two loops of the code are mirror images.
`PacketFields` writes a packet in the order `WriteByteStream` does (headers,
payload, footers) and reads it as a receiver does: headers through
`ReadByteStream` from the front, footers from the end, in any interleaving, with
nothing but the kinds of the fields known.

Left out: 64-bit values, the variants that need `Min4Bytes`, and writing to a
stream that is full.  TLC's integers end at 2^31, so 32-bit values stay below it.
The reader of a packet number that does not look at its space
(`DeserializeFooter_PacketNum_Unsafe`) is in `Serializers` and in a theorem.

### GrowingBuffers

A block of memory is the function of its bytes, a byte is zero, written by the
client, or of unknown value.  Each call that allocates has every outcome of the
allocator stub `pktalloc.h`: a block or `NULL`.  `expected` is what the client
knows of the buffer and `written` the cells of the matrix it wrote.  The client
is the one the comments describe: sizes are at least 1 and a matrix grows.  Two
behaviours are recorded and not hidden: the allocator copies into `NULL` when
`calloc()` fails under a zeroing reallocation, which ends the run (`crashed`),
and a matrix whose `Initialize` failed keeps the sizes it did not get
(`unbacked`).

Sums and products of sizes are of type `unsigned`, so they are modulo `UintModulus`:
the room for a packet, the allocated rows and columns, the bytes of a block, the
address of a cell.  A block whose size wrapped is smaller than its cells; what is
written behind it is not in it.  `Resize` asserts no more than
`columns <= kColumnPeriod`, so about 1024 rows of 2^22 columns are enough.

### Columns

Pure functions on 32-bit numbers, of which columns use 22.  `ColumnOf` gives the
column number of a place in the unbounded stream, the reference the arithmetic
is compared with.  There is no run: the theorems say all of it for every column.
Row opcodes (a hash) are left out; the elements of the Cauchy matrix are inverses
in the field and stand in `GF256`.

### GF256 and BulkMemory

`GF256` computes the tables as `gf256_init_` does (logarithms and powers of the
generator, products and quotients from them, inverses and squares from those, the
half-byte tables of the vector instructions) and reads them as the operations on
single elements do.  A table is a sequence.  `FieldProduct` is the reference:
the product of polynomials over GF(2) modulo the generator, from no table.

`BulkMemory` runs an operation as the code does: a list of loops, each with the
bytes of a pass and the table it reads, then a tail.

| variable | code |
|---|---|
| `host` | the macros and the processor: the build for mobile targets or desktops, AVX2, SSSE3, NEON, who is asked about NEON, the byte order announced and the real one |
| `Initialized`, `cpu`, `filled`, `status` | `Initialized`, the `CpuHas...` flags, which tables were written, what the last `gf256_init_` returned |
| `test` | which part of the self test runs |
| `call`, `function`, `factor` | the call, and the function and coefficient it ends up in (`gf256_div_mem` calls `gf256_mul_mem`, `gf256_muladd_mem` by 1 calls `gf256_add_mem`) |
| `loops`, `done`, `left`, `mem` | the loops that are left, the bytes behind and before them, the caller's buffers |
| `before` | history: the memory when the call was made |

A table that was not written holds zeros, so a loop over it multiplies by zero.
Words that the table loops put together byte by byte are put together in the
announced byte order and stored in the real one.  The self test is a client: it
fills its buffers, makes its five calls through the same steps, and looks at the
result and at the byte behind.  A client initialises before it asks for products,
gives up when it is turned down, and may ask for sums at once, as the code needs
nothing for them.  Buffers overlap in no way but that `gf256_mul_mem` and
`gf256_div_mem` may work in place.

`AbstractBulk` treats all bytes of a request at once, in the field, and nothing
else.  In the mapping the memory of a call under way is the one it was made with,
so every pass is a stutter and the return is the operation.

### LightVector

The elements lie in the object (`DataPtr` is 0) or in one of `arrays`, those
`new` returned and nobody deleted.  A resize that needs memory may fail and then
changes nothing.  `vector` is what the client knows: an element it wrote, or
`Unknown`.

### WindowedMinMax

`Samples` are the three samples, each with the number of the value it was made of
(history).  A client gives any values, at times of a clock that may be set back,
and may change the window from call to call; times and windows stay below half of
what `TimeT` holds.  `TimeValues` is how many values `TimeT` has: differences are
taken modulo it, as in the code.  `LightVector` and `WindowedMinMax` have no run:
their theorems hold for every value of their constants.

## What is checked

| run | question | bounds |
|---|---|---|
| `alloc_blocks` | are blocks disjoint, accounted for, owned, large enough, is freed space found again, and is every call a step of `AbstractHeap`? | one preallocated window of 12 units, one more chunk; sizes of 3 and of 4 units with the header (4 is a fallback block) and 0, which is refused, shrink to 0 bytes, which leaves 1 unit, 3 blocks |
| `alloc_lists` | do the two lists stay consistent, is every window counted and returned, and do windows turn preferred at the threshold? | one preallocated window and two from `calloc()`, 8 units each, 7 blocks |
| `alloc_integrity` | does `IntegrityCheck()` hold between calls? (no) | one window of 8 units |
| `bitset_words` | do the operations on words, and the scan, agree with their definitions on sets of bits? | every content of three words of 4 bits, 10 of them valid; every range; regions of 2, 3 and 5 bits |
| `log_shared` | is every message printed, pending or counted, and is nobody left asleep? | three threads, one that writes, one that also flushes, one that flushes and stops; 2 calls each, a queue of 1, spurious wakeups |
| `log_restart` | is a logger that stops, starts and flushes around errors an `AbstractLog` with one worker, and does every call return? | two threads, 3 calls each, a queue of 1, spurious wakeups |
| `log_running` | is a `Flush` by the only flusher complete, does all come out, in order and once? | two writers, 3 calls each, a queue of 2, no spurious wakeup |
| `log_never_drop` | does the never-drop build drop nothing, and does its `Write` return? | two writers, 3 calls each, a queue of 1, spurious wakeups |
| `log_flush` | is a `Flush` complete when two threads flush? (no) | two threads, 2 calls each, a queue of 2, no spurious wakeup |
| `fields_roundtrip` | does a packet read back, and is a field refused when it is cut short? | two fields in all, each a header or a footer, around a payload of 7 bytes; values on both sides of every change of width |
| `buffers_failures` | do buffer and matrix keep their data, whichever allocation fails? | sizes, rows and columns of 1, 2 and 4, one extra row and column, alignment 2, `unsigned` of 64 values, which the largest product (30) fits |
| `gf_bulk` | are the tables those of a field, does the self test pass, and is a bulk operation on every host an `AbstractBulk`? | 9 hosts, buffers of 192 bytes, 16 lengths, coefficients 0, 1, 2, 142 and 255, one call after the self test |

Why the bounds are enough to be interesting:

- *Allocator.*  With 12 units a window holds three blocks and holes between them,
  so scans resume, skip and fail, and a request can find room behind, before and
  between blocks; with three windows of 8 units and 7 blocks, windows enter the
  full list several at a time and leave it from the first, a middle and the last
  place; sizes include a multiple of the unit, one that is not, and one above the
  fallback threshold.  The real window has 2048 units and two windows are
  preallocated: nothing in the code depends on these numbers but the two
  thresholds, which scale with them, and the theorems below hold for every window
  size from 8 on.
- *Bit set.*  Three words are a first, a middle and a last one; 10 of 12 bits
  leave padding; every range inside a word, to its boundary and across two is
  there, on every content.
- *Logger.*  A queue of 1 fills at once, one of 2 holds an order; two calls of
  three threads, or three of two, are enough for a `Flush` to overlap a `Write`,
  another `Flush`, a `Stop` and a `Start`.  The real queue has room for
  `kWorkQueueLimit` messages and only the comparison with it matters.
- *Fields.*  Widths change at 2^7, 2^14 and 2^21, and at 5, 12 and 19 bits in a
  loss range; the theorems below cover the values between.
- *Bulk operations.*  16 lengths between 0 and 191 are on both sides of every width
  and make every loop run no time, once and several times; coefficients 0 and 1
  are shortcuts.  The buffers hold every byte value, next to another one at
  every place, so that a misplaced byte shows; the hosts are those on which the
  code takes another way.  An operation leaves nothing behind but the memory, so
  one call behind the initialisation is enough.  The theorems cover every length.
- *Buffers.*  Sizes that fit, that fit after alignment, and that do not, in every
  order; the stride changes when the matrix moves.

The properties, and what in the code each one is about, are commented where they
are defined; each module has one type invariant.

### Fairness

`FairSpec` of `OutputWorker` is weak fairness of the worker's loop and of each
caller's steps inside a call: the operating system runs a thread that can run,
and no mutex is held while its holder waits for something else (the sections
under `QueueLock` are steps; the holder of `StartStopLock` waits for the worker,
which never asks for it).  Making a call is not fair, and neither is a spurious
wakeup: nothing relies on either.  `CallsReturn` and `AllComesOut` need no more.
`Spec` of `BulkMemory` is weak fairness of the steps of a call under way: a thread
that runs a loop goes on; that every call returns is part of
`ImplementsAbstractBulk`.  In the other modules a call is one step, and nobody is
obliged to call: they have no liveness property and no fairness.  `CHECK_DEADLOCK` is off where callers may stop calling, or are
bound to.

### What the code does not keep

Two runs end in a counterexample to a sentence of the repository:

- `IntegrityHolds`: a block placed in the last hole in front of later blocks
  leaves a preferred window without a free unit, and `IntegrityCheck()` returns
  false after legal calls.
- `FlushDelivers`, with two threads that flush: the wait in `Flush` has no
  predicate and the notification says not for whom it is, so the end of one
  thread's flush ends another's whose message is still queued.

Reading the code for the models showed more, which no run checks and which the
modules describe as they are:

- Fallback blocks are on no list and survive the destructor, where
  `PacketAllocator.h:47` says all memory is freed.  `LightVector` has no
  destructor either: an array it grew into stays behind with its allocator.
- A size within a unit of 2^32 wraps when it is rounded up to units, and is
  answered with a block of the header alone.
- `Shrink(ptr, 0)` leaves one unit where `Free()` asserts two in debug builds; the
  release build frees it like any other, which `alloc_blocks` runs.
- A window whose resumed scan fails goes to the full list whatever it has free,
  and comes back only when a block of it is freed; a check against this is
  disabled with "TBD: Investigate this one further".
- `FindFirstSet` may return more than `bitEnd` where its comment says `bitEnd`;
  `Allocate` only asks whether it is at least that.
- The factor of a column repeats after 253 columns, and across the wrap of the
  column numbers after 70, since 253 does not divide 0x400000
  (`ColumnValuesMeetAtTheWrap`).
- The queue drops errors as it drops anything else, and messages accepted after
  `Stop` made its flush stay in the queue until `Start` clears them.
- `Start` touches the queues without `QueueLock`.  A `Write` by another thread at
  that moment is a data race, to which C++ gives no meaning; in the runs with
  `Start` the thread that starts is the only one that writes.
- `siamese.cpp` defines a `gf256_init_` of its own that does nothing and returns 0,
  so `siamese_init` fills no table; the models are of `gf256.cpp`.
- `gf256_init_` sets `Initialized` before its checks: called again after a failure
  it returns 0.
- The comment "only 16 irreducible polynomials" counts the primitive ones, which
  the table holds; there are 30 irreducible ones.
- The self test uses 63 bytes of one value in each buffer: the loops of 64 and
  128 bytes are not entered, and no misplaced byte shows.
- A 64-bit ARM build for Linux starts with NEON and loses it when the system's
  capability word does not say so.
- A windowed minimum of 0 is forgotten at the next value, since 0 also means that
  there is none ("ish").
- The allocator stub copies `newSize` bytes out of a smaller block, and copies
  into `NULL` when its `calloc()` fails; `GrowingAlignedByteMatrix::Initialize`
  records sizes before the allocation that may fail.
- The matrix's product of rows and columns (`SiameseCommon.cpp:33`, `:51`) is of type
  `unsigned`: where it wraps, the call returns true with a block smaller than the
  cells, and `Get` reads behind it.

## What is proved

### The allocator

`PacketAllocator_proofs` proves, for every window size from 8 units on, every
finite set of chunks, every sequence of distinct preallocated windows and every
set of sizes (the named assumptions of `PacketAllocator`):

| theorem | statement |
|---|---|
| `Invariance` | `Spec => []IInv` |
| `TypeCorrect` | `Spec => []TypeOK` |
| `BlocksNeverOverlap` | `Spec => []NoOverlap` |
| `UnitsAccounted` | `Spec => []Accounting` |
| `BlocksOwned` | `Spec => []EveryBlockHasAnOwner` |
| `WindowsListed` | `Spec => []ListsConsistent` |
| `WindowsFreed` | `Spec => []DestructorFreesWindows` |
| `StatisticsAreExact` | `Spec => []UsedBytesExact` |
| `HolesAreFound` | `Spec => FreedSpaceIsFound` |
| `FreeingPromotes` | `Spec => FreePromotes` |
| `BlocksLargeEnough` | `ASSUME SizesFit PROVE Spec => []LargeEnough` |
| `ImplementsHeap` | `ASSUME SizesFit PROVE Spec => ImplementsAbstractHeap` |

None of the invariants is inductive alone.  That blocks do not overlap needs the
bitmask to cover them (the scan looks at the bitmask, not at headers); that the
bitmask stays exact when a block is freed needs that no other block covers its
units; that the counts stay in range needs the count to be the complement of the
bitmask's cardinality.  `IInv` is their conjunction in a form that one call
disturbs in few places:

- `HeadersInv`: live headers are in chunks in use; a fallback chunk has one, at
  unit 0;
- `SpansInv`: in a window live blocks are in order, end before the next one
  starts, cover used units only, and every used unit is covered;
- `CountInv`: `FreeUnitCount` is the number of unused units;
- `ListsInv`: each list names windows, the preferred list without repetition,
  with the `FullListIndex` that belongs there, and together they name all;
- `ClientInv` and `GoneInv`: the client holds exactly the live blocks until the
  destructor, and nothing after it.

The first three speak of units and the fourth of lists, and each operator of
the allocator disturbs one side only (`SameLists`, `SameUnits`): one lemma for
each operator (`CarveRegionInv`, `ReleaseUnitsInv`, `MoveLastFewInv`,
`MoveFullWindowInv`, `NewWindowInv`, `FallbackAllocateInv`, `FallbackFreeInv`),
then one for each call (`AllocateInv`, `FreeInv`, `ShrinkInv`,
`ReallocateReassigns`, `DestroyHeapInv`), each a composition of the former, then
`StepInv`.  That `Min` and `Max` of a scan are elements is proved from the
well-foundedness of `<` on the naturals.

The two action properties need no more than `IInv`: the units of a freed block
are clear, so the scan from an offset that `Free` moved back to them, or that
stood in front of them already, meets room; and the threshold at which a window
is promoted is looked at by the `Free` that passes it.

`SizesFit` says that every size the client asks for can be rounded up to units
and get its header without wrapping.  It is needed: with 32-bit `unsigned` a size
within two units of 2^32 is answered by a block of the header alone, for which
`LargeEnough` is false (see "What the code does not keep").  `RoomEnough` carries
`RoomInv` along with `IInv`: behind a held pointer there are
`(UsedUnits - 1) * kUnitSize` bytes or more.  It is an invariant and no
consequence of `IInv`, since `Reallocate` returns the old block when its units
are enough, and `Shrink` gives back the units behind the new size.  In the
refinement every call goes to one action of `AbstractHeap` with the spans of the
held blocks as cells; what has to be shown is that a new span is disjoint from
all cells in use, the old block's included.

`UsedBytesExact` compares two folds, one over windows (`kWindowMaxUnits -
FreeUnitCount`) and one over the client's blocks (`UsedUnits`).  Both count the
used units of the listed windows (`UsedUnitsCount`, `HeldUnitsCount`), the second
because the spans partition them.  That a fold of a sum is additive is proved
without the induction theorems: it is false for no subset with the least number of
elements (`AddsUp`).

### Fields and packets

`PacketFields_proofs` proves that each field reads back: for every value of its
range, whatever bytes stand beside it and whatever space the reader is given, the
reader returns the value and the number of bytes written, or, when the space is
shorter than the field, an error.

| theorem | statement |
|---|---|
| `PacketNumReadsBack`, `PacketCountReadsBack`, `PacketLengthReadsBack` | a header in front of any bytes (22 bits, 0 to 256, 29 bits) |
| `PacketNumFooterReadsBack`, `PacketCountFooterReadsBack`, `PacketLengthFooterReadsBack` | a footer behind any bytes |
| `RecoveryMetadataReadsBack` | the two to four footers of a recovery packet, for every row, column and pair of counts |
| `ExtensionReadsBack` | the groups of seven bits in a loss range, at any offset |
| `NACKLossRangeReadsBack` | a loss range, given the seven bytes its reader asks for |
| `PlainReadsBack` | a value of one to four bytes |
| `UnsafePacketNumReadsBack` | a packet number, by the reader that does not look at its space |
| `Invariance` | `Spec => []IInv` |
| `PacketsReadBack` | `Spec => []FieldsReadBack` |
| `PayloadRemains` | `Spec => []PayloadIsLeft` |
| `CutFieldsAreRefused` | `Spec => []CutFieldIsRefused` |

A header is proved by cases on its width: the bytes of each width, the branch of
the reader that its first byte selects (`ReadPacketNum1` and the like), and the
arithmetic that puts the value together again.  A footer is a header read in
reverse (`FooterInFront`).  A loss range is a byte and up to two extensions
(`ThreeParts`), each found by its offset.  Metadata is read from its end, each
footer behind what is left when the one before is taken off (`BeforeConcat`).

The last four speak of whole packets: any number of fields, any values in their
range, any payloads, read from the two ends in any order.  `FieldsReadBack` is not
inductive, for it speaks of the next field at each end only.  `IInv` says that the
bytes from `BytesRead` to `BufferBytes` are the unread headers, the payload and the
unread footers, piece behind piece (`Laid`, with the place where each piece ends).
A write adds a piece at the end (`LaidMore`); a read takes off the first or the last
(`LaidTail`, `LaidFront`), and is given exactly that piece with other bytes on one
side (`InFrontOfRest`, `BehindRest`), which is what the theorems on single fields
are about.

The assumptions are those of the writers and readers in the code: fields have
values that the writers assert (`HeadersAssumption`, `FootersAssumption`), and a
packet with a loss range has a payload of seven bytes or more
(`LossRangeAssumption`), since its reader returns an error when fewer than
`kMaxLossRangeFieldBytes` are left, however short the range is.

The theorems on columns are that differences, their sign and sums of column numbers
are those of the places they stand for (`DeltaIsDistance`, `DeltaSignIsOrder`,
`SumIsPlace`, `AddUndoesSubtract`), and that the factors of columns less than 253
apart and of rows are distinct (`ColumnValuesDistinct`, `RowValuesDistinct`).
The argument is that the period divides 2^32, so that the unsigned wrap is
invisible; for the factors, that 199 has the inverse 89 modulo 253.

### The logger

`OutputWorker_proofs` proves, for any number of callers, any limit of the queue,
the three build options and spurious wakeups or none:

| theorem | statement |
|---|---|
| `Invariance` | `Spec => []IInv` |
| `TypeCorrect` | `Spec => []TypeOK` |
| `WorkerIsAlone` | `Spec => []OneWorker` |
| `FlushersAreWoken` | `Spec => []FlusherWillBeWoken` |
| `WorkerIsWoken` | `Spec => []WorkerWillBeWoken` |
| `LogIsLossyLine` | `Spec => ImplementsAbstractLog` |
| `ThreadsAreInOrder` | `Spec => []PerThreadOrder` |
| `LossesAreCounted` | `ASSUME NoRestart PROVE Spec => []NoSilentLoss` |
| `NeverDropKeepsAll` | `ASSUME NoRestart, NeverDrop PROVE Spec => []NothingDropped` |
| `FlushWaitsForOutput` | `ASSUME OneFlusher, ~SpuriousWakeups PROVE Spec => []FlushDelivers` |

That nobody is left asleep is not inductive: it rests on where `Start` and `Stop`
can be.  `IInv` adds `LockInv` (who holds `StartStopLock` is exactly the caller
inside `Start` or `Stop`), `ThreadInv` (what the thread and `Terminated` tell
about how far that caller got), `WorkerInv` (the worker's locals are in use only
while it prints) and `MessageInv` (a caller on the way through `Write` has a
message).  Each part has one lemma, with a step for each action.  The refinement
needs no more than `IInv`: every step is one of `AbstractLog` or leaves pending
lines, unreported ones and the output as they were.

The hypotheses are the conditions under which the runs check the same
properties, and the code needs them:

- `NoRestart`: nobody calls `Start` again.  `Start` clears both queues and the
  count of dropped messages, so what was accepted behind a `Stop` is lost
  without a trace.
- `OneFlusher` and no spurious wakeup: one caller at most calls `Flush`, `Stop`
  or writes what flushes.  With two, run `log_flush` shows a `Flush` that returns
  early, and a wait that ends for no reason does the same, for the wait in
  `Flush` has no predicate.

`FlushDelivers` rests on `FlushInv`: the flusher alone can be on a way through
`Flush` (`CallInv`); a request that is pending, or in the worker's hands, has a
caller that waits for it, and there is never one of each (`RequestInv`); and what
the waiting caller is owed is printed or in a queue, and no longer in
`QueuePublic` once the worker took the request (`OwedInv`).  `PerThreadOrder` rests on
`OrderInv`, which adds to the order of what is printed and pending that each
message there is older than the one its thread is about to write.  `NoSilentLoss`
sums the reports in the output; that the sum of an output with a line behind it
is the sum and that line is proved for the least length for which it would fail.

### Buffer and matrix

`GrowingBuffers_proofs` proves, for all alignments, extra rows and columns, all sizes
that fit, and whichever allocation fails:

| theorem | statement |
|---|---|
| `Invariance` | `ASSUME SizesFit PROVE Spec => []IInv` |
| `TypeCorrect` | `ASSUME SizesFit PROVE Spec => []TypeOK` |
| `BufferContents` | `ASSUME SizesFit PROVE Spec => []BufferKeepsData` |
| `MatrixBacked` | `ASSUME SizesFit PROVE Spec => []MatrixFits` |
| `MatrixContents` | `ASSUME SizesFit PROVE Spec => []CellsKept` |

`SizesFit` says that the room for a packet (`kMaxPacketLengthFieldBytes + size`) and
for a matrix (the allocated rows times the aligned columns) is below `UintModulus`,
2^32 in the code.  Without it `MatrixFits` and `CellsKept` do not hold: with 16 values
of `unsigned` in place of 64, TLC finds both violated on the same sizes.  Under it
nothing wraps (`AllocatedForRoom`, `AddressOfCell`): the sizes recorded are those
asked for and more, and the address of a cell is the plain sum.

`BufferInv` says what is known of each byte of the buffer.  `MatrixInv` has the
cells at their addresses (`row * AllocatedColumns + column`), distinct for
distinct cells because a column is less than the stride; `BackedInv` and
`UnbackedInv` keep apart a matrix with memory from one whose allocation failed.
A move to a wider stride copies row by row, and what has to be shown is that a
cell's new address lies in the part of the new block that its own row was copied
to.  `NullAssumption` says that `NULL` is no block.

### The bulk operations

`BulkMemory_proofs` proves, for every set of hosts, every size of the buffers from
64 bytes on, every length, coefficient and contents:

| theorem | statement |
|---|---|
| `Invariant` | `Spec => []IInv` |
| `PrefixIsDone` | `Spec => []PrefixDone` |
| `TypesStay` | `Spec => []TypeOK` |
| `ImplementsAbstractBulkSafely` | `Spec => Abstract!Init /\ [][Abstract!Next]_(Abstract!vars)` |
| `TheSelfTestPasses` | `Spec => []SelfTestPasses` |
| `TablesAreOfAField` | `Spec => TablesAreAField` |
| `CauchyAlwaysRecovers` | `Spec => CauchyRecovers` |

Nothing is assumed but the named assumptions of `BulkMemory` (what a host can be,
the size of the buffers, the bounds).  The module has three parts.

**The tables.**  What the loops of `gf256_init_` leave in the tables has no
variable in it: `TablesAreAField` and `CauchyRecovers` say, of the step that fills
the tables, that closed formulas hold (`ProductsAgree`, `QuotientsAgree`,
`UnitsAgree`, `PrimitivePolynomials = 0..15`, `PairsRecovered`).  TLC computes
them; the proofs argue, since 65536 products are beyond an SMT solver:

1. Exclusive or works digit by digit (`XorOfDigits`) and is a group of exponent two
   (`XorLaws`).  Doubling modulo a polynomial is linear (`DoubleLinear`), because a
   shift carries nothing from one summand to the other.
2. A product is a chain of eight steps of Horner's rule (`MulByIs`, where the fold
   over the bits is unrolled, by its equation on sets of places), so it is linear in
   its first factor (`MulByLinear`) and commutes with doubling (`MulByDouble`).
3. `Powers` follows the generator in eight rounds that double the list
   (`NextRoundIs`, `PowersAre`).  Its entries are powers, so they multiply by adding
   exponents (`PowersMultiply`).
4. If a power below the 255th were one, the least such exponent would divide 255
   (`NoEarlierOne`).  So a generator is primitive when no power of a proper divisor
   of 255 is one and the 255th is: for each of the sixteen polynomials a certificate
   of seventeen doublings and five products shows that (`AllCertified`).  The powers
   are then all bytes but zero (`PowersAreAll`, by counting), for every polynomial of
   the list (`AllArePrimitive`).
5. In the field of the default polynomial, the table of powers goes around the
   corner (`ExpTable`), that of logarithms inverts it (`LogTable`), and with the sums
   and differences of logarithms come the tables of products and quotients
   (`MulTable`, `DivTable`), inverses, squares (`InversesAndSquares`) and half bytes
   (`NibblesAgree`).  `TablesAreRight` puts them together.
6. The field has no divisors of zero, and two rows of the Cauchy matrix are nowhere
   proportional (`RatiosDiffer`): with rows and columns apart, their elements are
   inverses of differences that are not zero.

**The operations.**  The invariant adds to `PrefixDone` that the loops that are left
read only tables that were written (`Readable`) and that the last of them leaves
less than the tail treats (`EndsAt`), which is what makes the tail's
`left % 8` the whole rest.  The proof goes from one byte (`NewValueIsValue`) to a
block (`WrittenIsTreated`) to a pass, and once over the loops of each operation on
each host (`LoopsFit`).

**The self test.**  That `gf256_init_` turns no host down for its self test is not
inductive, nor does it follow from `IInv`: the check looks at buffers that were
filled one call earlier.  `TestInv` adds what ties the two together: while a part
of the test runs, the memory its operation started on is prepared for it, each
buffer filled to `kTestBufferBytes` and the guard behind it, and once it has
returned the memory is what `AbstractBulk` makes of that.  It is inductive
relative to `IInv`, by the same facts that prove the refinement (`Returned`).  The
values that each part expects follow from the laws of the field (`TestedSums`,
`MultiplicationTestIs`).

### The bit set

| theorem | statement |
|---|---|
| `Invariance` | `Spec => []IInv` |
| `RangesAreExact` | `Spec => []RangesAgree` |
| `SearchesAreExact` | `Spec => []SearchesAgree` |
| `CountsAreExact` | `Spec => []PopcountAgrees` |
| `ScanIsExact` | `Spec => []ScanFindsFirst` |

They hold for every width of a word and every number of bits, multiples of the
width or not; the run has words of 4 bits and a mask of 10.  All that is assumed
is that both are positive and that the scan is asked for two units or more: one
for the header and one for the first byte, as `Allocate` does unless the sum of
the size and `kUnitSize - 1` wraps, where it would ask for one.  The words are as
many as the bits need (`EnoughWords`), and a bit is in one word at one offset
(`WordAndOffset`, `BitInWord`).

The invariant `IInv` says that the padding of the last word is all set or all
clear.  `FindFirstClear` needs it: it looks at the padding too, and where no bit
is clear before it, its answer is `kValidBits` only because the padding has
either no clear bit or its first one clear, at `kValidBits`.  A range that ends
in the last word leaves the padding alone, and so do `Set` and `Clear`; only
`SetAll` and `ClearAll` change it, as a whole.

`MaskOfRange` is the heart of the ranges: what `SetRange` writes into a word (its
first word, the words between, its last word) is the part of the range that lies
in it.  A search is the rest of the word it starts in (`FirstOfRest`) and then the
first word that has a bit (`FirstOfWords`).  A count is two partial words
(`CountShifted`: the shifts that drop the bits outside move the others, and lose
none) and the sum over the words between (`CountWords`).

The loop of the scan is a recursive function.  That the first places that fit
satisfy its equation (`FirstFitsCompute`) follows from one step of it
(`ScanStep`): the next clear bit is no later than any place that fits, and from
an obstacle behind it one can go on without losing a place.  That no other
function does (`ComputedIsFirstFit`) is by the last place where two of them
would differ; there is one, because each step goes on at a later place.

### The vector and the running minimum

`VectorIsSequence` proves that a `LightVector` is the sequence its client knows
(`IsSequence`) and has one array at most (`OneArray`); `BestIsRecent` and
`BestIsBest` that the best value of a `WindowedMinMax` is of the window it was
asked for (`SamplesAreRecent`) and that none that came after it is better
(`BestSinceItCame`).  The numbers of the build are hypotheses: `NumbersFit` (2^32
and 25 are natural numbers) and `TimesExist` (`TimeT` has more than one value).
The invariant of the minimum needs that the three samples are in order of value
and of time (`SamplesInOrder`): a sample that moves up is then no older than the
window, and a clock that was set back makes the last one look expired, so that
the samples start again.

### Model-checked only

- Liveness, which is beyond the proof system: `CallsReturn`, `AllComesOut`, and
  that a request of `AbstractBulk` returns.
- The two runs that end in a counterexample.

## What is not modelled, and the plan

Worth doing next: `PKTALLOC_SHRINK`, with `EmptyWindowCount` and
`freeEmptyWindows`, a build that nothing selects; a constructor whose allocation
fails; window lists that cannot grow, which `moveLastFewWindowsToFull` does not look
at (as long as at most 25 windows are on a list they need not).

Not modelled, for want of something to be about:

- *Encoder, decoder and the API.*  Stubs: they keep no state and return fixed
  results.  `Decoder::Get` asks a window that answers null whatever it is
  asked; `Encoder.h` and `Encoder.cpp` are not in the build and do not compile.
- *Recovery packet list.*  A `std::vector` that appends and deletes from the
  front.  Its test (`tests/test_recovery_sort.cpp`, not in the build) is of
  another class that sorted.
- *The second `GrowingAlignedDataBuffer` class.*  Nothing makes one.
- *`sourcegf256.cpp` and `gf256_arm64.s`.*  Their contents are swapped, C in the one
  and assembler in the other; CMake enables no assembler, and nothing calls the
  function they define.
- *Row opcodes, random numbers, clocks.*  A hash and a generator promise nothing
  that could fail; the clocks are calls of the operating system.
- *Channel prefixes and minimum levels, wording of messages, the Windows branches
  of the logger.*  No property of the queue depends on them.
- *Tests and benchmarks.*  Read for what they assert.
