------------------------------ MODULE MCBulkMemory ------------------------------
(* A small instance of BulkMemory for TLC. *)
EXTENDS BulkMemory

Desktop(tries, has) ==
    [mobile |-> FALSE, tries |-> tries, has |-> has, assumed |-> {}, asks |-> "nobody",
     told |-> {}, big |-> FALSE, assumedBig |-> FALSE]

Arm(assumed, asks, told) ==
    [mobile |-> TRUE, tries |-> {"NEON"}, has |-> assumed \cup told, assumed |-> assumed,
     asks |-> asks, told |-> told, big |-> FALSE, assumedBig |-> FALSE]

BigEndian(announced) ==
    [mobile |-> TRUE, tries |-> {}, has |-> {}, assumed |-> {}, asks |-> "nobody",
     told |-> {}, big |-> TRUE, assumedBig |-> announced]

\* Desktops with and without AVX2 and SSSE3; Android with and without NEON; a
\* 64-bit ARM that always has it, and one whose system does not say so; a
\* big-endian processor, and one whose byte order the compiler did not announce.
MCHosts ==
    {Desktop({"AVX2"}, {"AVX2", "SSSE3"}), Desktop({"AVX2"}, {"SSSE3"}), Desktop({}, {}),
     Arm({}, "Android", {"NEON"}), Arm({}, "Android", {}),
     Arm({"NEON"}, "nobody", {}), Arm({"NEON"}, "Linux", {}),
     BigEndian(TRUE), BigEndian(FALSE)}

\* Every byte occurs in A and in B, next to different bytes in each.
MCContents ==
    {[b \in Buffers |->
         [i \in Places |-> CASE b = "A" -> (37 * i + 1) % 256
                             [] b = "B" -> (91 * i + 7) % 256
                             [] b = "C" -> (i * i + 3) % 256]]}
=============================================================================
