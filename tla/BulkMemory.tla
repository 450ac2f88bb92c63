------------------------------- MODULE BulkMemory -------------------------------
(***************************************************************************)
(* gf256_init_ and the bulk memory operations of gf256.cpp on every host   *)
(* the file has code for.  An operation is a sequence of loops over blocks *)
(* of falling width and a tail; which loops depends on the host and on     *)
(* what gf256_init_ found there.  A step is one pass of one loop.          *)
(*                                                                         *)
(* The self test of gf256_init_ is a client like any other: it fills the   *)
(* buffers, calls an operation and looks at what came out.                 *)
(***************************************************************************)
EXTENDS GF256

CONSTANTS
    Hosts,         \* the processors and builds
    Size,          \* bytes of a buffer
    Lengths,       \* bound: the byte counts of a client's calls
    Coefficients,  \* bound: its coefficients
    Contents,      \* bound: what it writes in its buffers before a call
    MaxCalls       \* bound: its calls

Buffers == {"A", "B", "C"}
Places == 0..(Size - 1)
Memories == [Buffers -> [Places -> Byte]]

Features == {"AVX2", "SSSE3", "NEON"}

\* A host: `mobile` is GF256_TARGET_MOBILE, `tries` holds AVX2 for
\* GF256_TRY_AVX2 and NEON for GF256_TRY_NEON, `has` is what its processor can
\* do, `assumed` what CpuHasNeon starts with, `asks` which system is asked for
\* NEON and `told` what it answers, `big` and `assumedBig` are the byte order the
\* processor has and the one the compiler announced.
HostTypes ==
    [mobile : BOOLEAN, tries : SUBSET {"AVX2", "NEON"}, has : SUBSET Features,
     assumed : SUBSET {"NEON"}, asks : {"nobody", "Android", "Linux"}, told : SUBSET {"NEON"},
     big : BOOLEAN, assumedBig : BOOLEAN]

ASSUME HostsAssumption ==
    /\ Hosts \subseteq HostTypes
    /\ \A h \in Hosts :
        /\ h.mobile \/ "NEON" \notin h.tries
        /\ "AVX2" \in h.has => "SSSE3" \in h.has
        /\ h.assumed \cup h.told \subseteq h.tries \cap h.has
ASSUME SizeAssumption == Size \in Nat /\ Size >= 64
ASSUME BoundsAssumption ==
    /\ Lengths \subseteq 0..Size /\ Coefficients \subseteq Byte
    /\ Contents \subseteq Memories /\ MaxCalls \in Nat

VARIABLES
    host,         \* one of Hosts, for good
    Initialized,
    cpu,          \* the features found: CpuHasAVX2, CpuHasSSSE3, CpuHasNeon
    filled,       \* the tables that were written: MUL and all of gf256_muldiv_init
                  \* on, MM128 and MM256 for the half-byte tables
    status,       \* what the last gf256_init_ returned
    test,         \* the part of the self test that runs, 0 when none does
    call,         \* the call under way
    before,       \* history: the memory when it was made
    mem,          \* the memory of the caller
    function, factor,   \* the function that runs for the call and its coefficient
    loops,        \* its loops, those it has left excepted
    done, left,   \* bytes behind it, bytes before it
    calls         \* bound: calls a client made

contextVars == <<host, Initialized, cpu, filled>>
progress == <<function, factor, loops, done, left>>
vars == <<contextVars, status, test, call, before, mem, progress, calls>>

NotCalled == 1

Abstract == INSTANCE AbstractBulk WITH
    Elements <- Byte, Plus <- Xor, Times <- FieldProduct, Quotient <- FieldQuotient,
    data <- IF call = [op |-> "none"] THEN mem ELSE before, request <- call

Idle == Abstract!Idle

Operation(name, z, x, y, c, bytes) ==
    [op |-> name, z |-> z, x |-> x, y |-> y, c |-> c, bytes |-> bytes]

-----------------------------------------------------------------------------
(* Which loops an operation has                                              *)

\* gf256_div_mem calls gf256_mul_mem, gf256_muladd_mem by 1 calls gf256_add_mem.
Function(r) ==
    CASE r.op = "div" -> "mul"
      [] r.op = "muladd" /\ r.c = 1 -> "add"
      [] OTHER -> r.op

\* A table that was not written holds zeros.
Factor(r) ==
    IF r.op = "div" /\ r.c # 1
    THEN (IF "MUL" \in filled THEN gf256_inv(r.c) ELSE 0)
    ELSE r.c

\* A loop: the bytes of a pass, where products are read, whether it repeats.
Loop(width, table) == [width |-> width, table |-> table, again |-> TRUE]
Once(width, table) == [width |-> width, table |-> table, again |-> FALSE]

When(found, list) == IF found THEN list ELSE <<>>

gf256_add_mem(features) ==
    IF host.mobile
    THEN IF "NEON" \in features THEN <<Loop(64, "none"), Loop(16, "none")>>
                                ELSE <<Loop(8, "none")>>
    ELSE (IF "AVX2" \in features THEN <<Loop(128, "none"), Loop(32, "none")>>
                                 ELSE <<Loop(64, "none")>>)
         \o <<Loop(16, "none")>>

gf256_add2_mem(features) ==
    IF host.mobile
    THEN IF "NEON" \in features THEN <<Loop(16, "none")>> ELSE <<Loop(8, "none")>>
    ELSE When("AVX2" \in features, <<Loop(32, "none")>>) \o <<Loop(16, "none")>>

gf256_addset_mem(features) ==
    IF host.mobile
    THEN IF "NEON" \in features THEN <<Loop(64, "none"), Loop(16, "none")>>
                                ELSE <<Loop(8, "none")>>
    ELSE (IF "AVX2" \in features THEN <<Loop(32, "none")>> ELSE <<Loop(64, "none")>>)
         \o <<Loop(16, "none")>>

\* The loops of gf256_mul_mem over vectors.
mul_vectors(features) ==
    IF host.mobile THEN When("NEON" \in features, <<Loop(16, "MM128")>>)
    ELSE When("AVX2" \in features, <<Loop(32, "MM256")>>)
         \o When("SSSE3" \in features, <<Loop(16, "MM128")>>)

\* The loops of gf256_muladd_mem over vectors.
muladd_vectors(features) ==
    IF host.mobile THEN When("NEON" \in features, <<Loop(16, "MM128")>>)
    ELSE When("AVX2" \in features, <<Loop(64, "MM256"), Once(32, "MM256")>>)
         \o When("SSSE3" \in features, <<Loop(32, "MM128"), Loop(16, "MM128")>>)

gf256_memswap == IF host.mobile THEN <<Loop(8, "none")>> ELSE <<Loop(16, "none")>>

Loops(name, features) ==
    CASE name = "add"    -> gf256_add_mem(features)
      [] name = "add2"   -> gf256_add2_mem(features)
      [] name = "addset" -> gf256_addset_mem(features)
      [] name = "mul"    -> mul_vectors(features) \o <<Loop(8, "MUL")>>
      [] name = "muladd" -> muladd_vectors(features) \o <<Loop(8, "MUL")>>
      [] name = "swap"   -> gf256_memswap

-----------------------------------------------------------------------------
(* What a block of bytes becomes                                             *)

IsExpectedEndian == host.big = host.assumedBig

Product(table, x, y) ==
    IF table \notin filled THEN 0
    ELSE IF table = "MUL" THEN gf256_mul(x, y) ELSE NibbleProduct(x, y)

\* The place whose product is stored at place i, when the first bytes of the
\* block are put together as a word: in the announced byte order, and stored in
\* the real one.
ReadAt(i, word) ==
    IF IsExpectedEndian \/ i >= done + word THEN i ELSE done + (word - 1) - (i - done)

NewValue(table, i, j) ==
    CASE function = "add"    -> Xor(mem[call.z][i], mem[call.x][i])
      [] function = "add2"   -> Xor(mem[call.z][i], Xor(mem[call.x][i], mem[call.y][i]))
      [] function = "addset" -> Xor(mem[call.x][i], mem[call.y][i])
      [] function = "mul"    -> Product(table, mem[call.x][j], factor)
      [] function = "muladd" -> Xor(mem[call.z][i], Product(table, mem[call.x][j], factor))
      [] function = "swap"   -> mem[call.x][i]

\* The memory after a block of so many bytes.
Written(table, word, bytes) ==
    LET block == done..(done + bytes - 1)
        z == [i \in Places |-> IF i \in block THEN NewValue(table, i, ReadAt(i, word))
                                              ELSE mem[call.z][i]]
        x == [i \in Places |-> IF i \in block THEN mem[call.z][i] ELSE mem[call.x][i]]
    IN  IF function = "swap" THEN [mem EXCEPT ![call.z] = z, ![call.x] = x]
                       ELSE [mem EXCEPT ![call.z] = z]

-----------------------------------------------------------------------------
(* The steps of an operation                                                 *)

Begin(r, features) ==
    /\ call' = r
    /\ before' = mem'
    /\ function' = Function(r) /\ factor' = Factor(r)
    /\ loops' = Loops(Function(r), features)
    /\ done' = 0 /\ left' = r.bytes

Return ==
    /\ call' = Idle
    /\ function' = "none" /\ factor' = 0 /\ loops' = <<>>
    /\ done' = 0 /\ left' = 0

\* Left to memset, to memcpy, or nothing to do.
Shortcut == function \in {"mul", "muladd"} /\ factor <= 1

Running ==
    /\ call # Idle
    /\ UNCHANGED <<contextVars, status, test, before, calls>>

ShortcutTaken ==
    /\ Running /\ Shortcut
    /\ mem' = IF function = "muladd" THEN mem
              ELSE [mem EXCEPT ![call.z] =
                       [i \in Places |-> IF i >= call.bytes THEN mem[call.z][i]
                                         ELSE IF factor = 0 THEN 0 ELSE mem[call.x][i]]]
    /\ Return

\* Mutant of Another: a pass goes ahead while anything is left.
AnyLeft(loop) == left > 0

\* The loop has another pass.
Another(loop) == left >= loop.width

\* One pass of a loop.
Pass ==
    /\ Running /\ ~Shortcut
    /\ loops # <<>>
    /\ LET loop == Head(loops)
       IN  /\ Another(loop)
           /\ mem' = Written(loop.table, IF loop.table = "MUL" THEN 8 ELSE 0, loop.width)
           /\ done' = done + loop.width
           /\ left' = left - loop.width
           /\ loops' = IF loop.again THEN loops ELSE Tail(loops)
    /\ UNCHANGED <<call, function, factor>>

LeaveLoop ==
    /\ Running /\ ~Shortcut
    /\ loops # <<>>
    /\ ~Another(Head(loops))
    /\ loops' = Tail(loops)
    /\ UNCHANGED <<call, mem, function, factor, done, left>>

\* The bytes behind the loops that are put together as a word.
FourBytes == IF (left \div 4) % 2 = 1 THEN 4 ELSE 0

\* Mutant of TailBytes: no block of eight bytes goes before the one of four.
TailWithoutEight == left % 8

\* The bytes behind the loops.
TailBytes == IF function \in {"mul", "muladd"} THEN left % 8 ELSE left % 16

FinishTail ==
    /\ Running /\ ~Shortcut
    /\ loops = <<>>
    /\ mem' = IF function \in {"mul", "muladd"} THEN Written("MUL", FourBytes, TailBytes)
                                          ELSE Written("none", 0, TailBytes)
    /\ Return

-----------------------------------------------------------------------------
(* gf256_init_ and its self test                                             *)

kTestBufferBytes == 63

\* Parts of the self test: the operation, what fills its buffers, what every
\* byte of A must then be.
SelfTest(k) ==
    CASE k = 1 -> [r |-> Operation("add", "A", "B", "B", 0, kTestBufferBytes),
                   fill |-> [A |-> 31, B |-> 247], expected |-> Xor(31, 247)]
      [] k = 2 -> [r |-> Operation("add2", "A", "B", "C", 0, kTestBufferBytes),
                   fill |-> [A |-> 31, B |-> 247, C |-> 113],
                   expected |-> Xor(Xor(31, 247), 113)]
      [] k = 3 -> [r |-> Operation("addset", "A", "B", "C", 0, kTestBufferBytes),
                   fill |-> [A |-> 85, B |-> 170, C |-> 108], expected |-> Xor(170, 108)]
      [] k = 4 -> [r |-> Operation("muladd", "A", "B", "B", 108, kTestBufferBytes),
                   fill |-> [A |-> 255, B |-> 170],
                   expected |-> Xor(Product("MUL", 170, 108), 255)]
      [] k = 5 -> [r |-> Operation("mul", "A", "B", "B", 162, kTestBufferBytes),
                   fill |-> [A |-> 255, B |-> 85], expected |-> Product("MUL", 162, 85)]

\* The byte behind a test buffer, to find out who writes there.
Guard == 90

Filled(m, fill) ==
    [b \in Buffers |-> [i \in Places |->
        IF b \in DOMAIN fill /\ i < kTestBufferBytes THEN fill[b] ELSE m[b][i]]]

Guarded(m) == [b \in Buffers |-> [m[b] EXCEPT ![kTestBufferBytes] = Guard]]

\* Android adds to what is assumed, Linux replaces it.
gf256_architecture_init ==
    CASE ~host.mobile -> host.has \cap ({"SSSE3"} \cup host.tries)
      [] host.mobile /\ host.asks = "nobody"  -> host.assumed
      [] host.mobile /\ host.asks = "Android" -> host.assumed \cup host.told
      [] host.mobile /\ host.asks = "Linux"   -> host.told

\* Mutant of TablesWritten: no half-byte tables on mobile targets.
TablesForDesktop(features) ==
    {"MUL"} \cup (IF ~host.mobile THEN {"MM128"} ELSE {})
            \cup (IF "AVX2" \in features THEN {"MM256"} ELSE {})

\* Which tables are written, with these features found.
TablesWritten(features) ==
    {"MUL"} \cup (IF ~host.mobile \/ "NEON" \in features THEN {"MM128"} ELSE {})
            \cup (IF "AVX2" \in features THEN {"MM256"} ELSE {})

\* No call is under way, and none of gf256_init_ failed: a client that was turned
\* down goes no further.
ClientTurn == call = Idle /\ test = 0 /\ status >= 0

\* gf256_init_(version) up to the first operation of the self test.
FirstInit ==
    /\ Initialized' = TRUE
    /\ IF ~IsExpectedEndian
       THEN /\ status' = -2
            /\ UNCHANGED <<cpu, filled, test, call, before, mem, progress>>
       ELSE /\ cpu' = gf256_architecture_init
            /\ filled' = TablesWritten(cpu')
            /\ IF MultiplicationTest
               THEN /\ test' = 1
                    /\ mem' = Filled(Guarded(mem), SelfTest(1).fill)
                    /\ Begin(SelfTest(1).r, cpu')
                    /\ UNCHANGED status
               ELSE /\ status' = -3
                    /\ UNCHANGED <<test, call, before, mem, progress>>

\* Nothing an operation leaves but the memory outlives it: a client initialises
\* before it asks for one, or never.
gf256_init_(version) ==
    /\ ClientTurn /\ calls = 0
    /\ \/ /\ version # GF256_VERSION
          /\ status' = -1
          /\ UNCHANGED <<Initialized, cpu, filled, test, call, before, mem, progress>>
       \/ /\ version = GF256_VERSION /\ Initialized
          /\ status' = 0
          /\ UNCHANGED <<Initialized, cpu, filled, test, call, before, mem, progress>>
       \/ /\ version = GF256_VERSION /\ ~Initialized
          /\ FirstInit
    /\ UNCHANGED <<host, calls>>

\* An operation of the self test returned: look at A, go on with the next or,
\* behind the last, look at the guards.
CheckTest ==
    /\ test # 0 /\ call = Idle
    /\ LET passed == \A i \in 0..(kTestBufferBytes - 1) : mem["A"][i] = SelfTest(test).expected
       IN  IF passed /\ test < 5
           THEN /\ test' = test + 1
                /\ mem' = Filled(mem, SelfTest(test + 1).fill)
                /\ Begin(SelfTest(test + 1).r, cpu)
                /\ UNCHANGED status
           ELSE /\ test' = 0
                /\ status' = IF passed /\ mem = Guarded(mem) THEN 0 ELSE -3
                /\ UNCHANGED <<call, before, mem, progress>>
    /\ UNCHANGED <<contextVars, calls>>

-----------------------------------------------------------------------------
(* Clients                                                                   *)

\* gf256_mul_mem and gf256_div_mem may work in place.
Requests ==
    {Operation(name, "A", "B", "C", 0, n) : name \in {"add", "add2", "addset", "swap"}, n \in Lengths}
    \cup {Operation(name, "A", x, "C", c, n) :
              name \in {"mul", "div"}, x \in {"A", "B"}, c \in Coefficients, n \in Lengths}
    \cup {Operation("muladd", "A", "B", "C", c, n) : c \in Coefficients, n \in Lengths}

\* Sums need no table, and a client may ask for them before gf256_init_.
Call ==
    /\ ClientTurn /\ calls < MaxCalls
    /\ \E r \in Requests :
        /\ r.op \in {"mul", "div", "muladd"} => status = 0
        /\ mem' \in Contents
        /\ Begin(r, cpu)
    /\ calls' = calls + 1
    /\ UNCHANGED <<contextVars, status, test>>

Init ==
    /\ host \in Hosts
    /\ Initialized = FALSE /\ cpu = host.assumed /\ filled = {} /\ status = NotCalled
    /\ test = 0 /\ call = Idle /\ function = "none" /\ factor = 0 /\ loops = <<>>
    /\ done = 0 /\ left = 0
    /\ mem \in Contents /\ before = mem
    /\ calls = 0

Work == ShortcutTaken \/ Pass \/ LeaveLoop \/ FinishTail \/ CheckTest

Next ==
    \/ \E version \in {1, GF256_VERSION} : gf256_init_(version)
    \/ Call
    \/ Work

\* A thread that runs goes on.
Spec == Init /\ [][Next]_vars /\ WF_vars(Work)

-----------------------------------------------------------------------------
(* Properties                                                                *)

LoopTypes ==
    [width : {8, 16, 32, 64, 128}, table : {"none", "MUL", "MM128", "MM256"}, again : BOOLEAN]

\* Every variable stays in its range; a status is one gf256_init_ can return.
TypeOK ==
    /\ host \in Hosts
    /\ Initialized \in BOOLEAN
    /\ cpu \in SUBSET Features
    /\ filled \in SUBSET {"MUL", "MM128", "MM256"}
    /\ status \in {NotCalled, 0, -1, -2, -3}
    /\ test \in 0..5
    /\ call \in {Idle} \cup Abstract!Requests
    /\ before \in Memories /\ mem \in Memories
    /\ function \in {"none", "add", "add2", "addset", "mul", "muladd", "swap"} /\ factor \in Byte
    /\ \A k \in DOMAIN loops : loops[k] \in LoopTypes
    /\ done \in 0..Size /\ left \in 0..Size
    /\ calls \in 0..MaxCalls

\* In the middle of an operation the bytes behind it have the value the field
\* gives them, all others the value they had: no block is treated twice, none is
\* left out, none reaches past the end, no loop reads a table that was not
\* written or puts a word together in the wrong order.
PrefixDone ==
    call # Idle =>
        /\ mem = Abstract!Treated(before, call, done)
        /\ done + left = call.bytes

\* A call returns, and what it returns is what the field makes of the memory it
\* was called with, whatever the host.
ImplementsAbstractBulk == Abstract!Spec

\* On no host with the announced byte order does the self test turn the library
\* down ("Self-test failed (perhaps untested configuration)").
SelfTestPasses == status # -3

\* The tables that gf256_init_ writes are those of a field of 256 elements:
\* products, quotients, inverses and squares are those of polynomials modulo the
\* chosen one, and every polynomial it can choose is primitive.  Its self test
\* sees only that division undoes multiplication.
TablesAreAField ==
    [][filled' # filled =>
           ProductsAgree /\ QuotientsAgree /\ UnitsAgree /\ PrimitivePolynomials = 0..15]_filled

\* With the tables written, any two rows of the Cauchy matrix recover any two
\* lost columns.
CauchyRecovers == [][filled' # filled => PairsRecovered]_filled
=============================================================================
