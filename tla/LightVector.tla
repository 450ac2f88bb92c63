------------------------------- MODULE LightVector -------------------------------
(***************************************************************************)
(* The vector of PacketAllocator.h that holds the lists of windows: its    *)
(* first elements lie in the object, more in an array from `new` that may  *)
(* not be had.  PacketAllocator has sequences in its place; here is what   *)
(* they stand for.                                                         *)
(***************************************************************************)
EXTENDS Integers, Sequences

CONSTANTS
    Elements,       \* what the vector holds
    Unknown,        \* an element the client did not write
    kPreallocated,  \* elements in the object
    UintModulus     \* 2^32, where unsigned numbers wrap

VARIABLES
    Size, Allocated,
    array,     \* the elements DataPtr points to
    DataPtr,   \* 0 when they lie in the object, else the number of an array
    arrays,    \* the arrays that were had from `new` and not deleted
    vector     \* what the client knows of the elements

vars == <<Size, Allocated, array, DataPtr, arrays, vector>>

InObject == 0

\* The numbers of elements a client asks for: half as many again are no more
\* than an unsigned number holds.
Counts == {n \in Nat : n * 3 < UintModulus}

\* What a call finds of memory: `new` makes half as many elements again, and the
\* first `kept` of them are copied.
newAllocated(elements) == ((elements * 3) % UintModulus) \div 2

Memory(elements, kept) ==
    IF elements > Allocated
    THEN {a \in [0..(newAllocated(elements) - 1) -> Elements] : \A i \in 0..(kept - 1) : a[i] = array[i]}
    ELSE {array}

\* The old array is deleted, the elements in the object are not.
Resize(elements) ==
    /\ Size' = elements
    /\ IF elements > Allocated
       THEN /\ Allocated' = newAllocated(elements)
            /\ \E new \in Nat \ (arrays \cup {InObject}) :
                /\ DataPtr' = new
                /\ arrays' = (arrays \ {DataPtr}) \cup {new}
       ELSE UNCHANGED <<Allocated, DataPtr, arrays>>

\* `new` fails.
OutOfMemory(elements) == elements > Allocated /\ UNCHANGED vars

SetSize_NoCopy(elements) ==
    \/ OutOfMemory(elements)
    \/ /\ Resize(elements)
       /\ array' \in Memory(elements, 0)
       /\ vector' = [i \in 1..elements |-> Unknown]

SetSize_Copy(elements) ==
    \/ OutOfMemory(elements)
    \/ /\ Resize(elements)
       /\ array' \in Memory(elements, Size)
       /\ vector' = [i \in 1..elements |-> IF i <= Size THEN vector[i] ELSE Unknown]

AppendElement(rhs) ==
    \/ OutOfMemory(Size + 1)
    \/ /\ Resize(Size + 1)
       /\ \E a \in Memory(Size + 1, Size) : array' = [a EXCEPT ![Size] = rhs]
       /\ vector' = Append(vector, rhs)

Clear ==
    /\ Size' = 0 /\ vector' = <<>>
    /\ UNCHANGED <<Allocated, array, DataPtr, arrays>>

\* A client writes through GetRef().
Assign(index, value) ==
    /\ index < Size
    /\ array' = [array EXCEPT ![index] = value]
    /\ vector' = [vector EXCEPT ![index + 1] = value]
    /\ UNCHANGED <<Size, Allocated, DataPtr, arrays>>

Init ==
    /\ Size = 0 /\ Allocated = kPreallocated
    /\ array \in [0..(kPreallocated - 1) -> Elements]
    /\ DataPtr = InObject /\ arrays = {}
    /\ vector = <<>>

Next ==
    \/ \E elements \in Counts : SetSize_NoCopy(elements) \/ SetSize_Copy(elements)
    \/ \E rhs \in Elements : Size + 1 \in Counts /\ AppendElement(rhs)
    \/ Clear
    \/ \E index \in Nat, value \in Elements : Assign(index, value)

Spec == Init /\ [][Next]_vars

-----------------------------------------------------------------------------
(* Properties                                                                *)

\* The vector is the sequence its client knows, in memory that is large enough,
\* however it grew and shrank and whatever failed; "keep the existing data"
\* (PacketAllocator.h:516) also from the object to the first array.
IsSequence ==
    /\ Size = Len(vector) /\ Size <= Allocated
    /\ array \in [0..(Allocated - 1) -> Elements]
    /\ \A i \in 1..Size : vector[i] \in {Unknown, array[i - 1]}

\* The only array that was not deleted is the one in use.  There is no
\* destructor: this one stays behind.
OneArray == arrays = {DataPtr} \ {InObject}
=============================================================================
