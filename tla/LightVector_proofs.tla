--------------------------- MODULE LightVector_proofs ---------------------------
(***************************************************************************)
(* The vector is a sequence, proved for every kind and number of elements. *)
(***************************************************************************)
EXTENDS LightVector, TLAPS

\* What the code has of its numbers: elements in the object, and unsigned numbers.
NumbersFit == kPreallocated \in Nat /\ UintModulus \in Nat

IInv ==
    /\ Size \in Nat /\ Allocated \in Nat /\ DataPtr \in Nat
    /\ vector \in Seq(Elements \cup {Unknown})
    /\ IsSequence /\ OneArray

\* Half as many again are no fewer.
LEMMA EnoughAllocated ==
    ASSUME NumbersFit, NEW n \in Counts
    PROVE  newAllocated(n) \in Nat /\ n <= newAllocated(n)
<1>1. n * 3 \in Nat /\ n * 3 < UintModulus
    BY SMT DEF Counts
<1>2. (n * 3) % UintModulus = n * 3
    BY SMT, <1>1 DEF NumbersFit
<1> QED  BY SMT, <1>2 DEF newAllocated, Counts

\* What a resize that succeeds leaves of the numbers and of the arrays.
LEMMA ResizeKeeps ==
    ASSUME NumbersFit, IInv, NEW n \in Counts, Resize(n)
    PROVE  /\ Size' = n /\ n \in Nat /\ n <= Allocated' /\ Allocated' \in Nat
           /\ DataPtr' \in Nat /\ OneArray'
<1>1. n \in Nat /\ Size' = n
    BY DEF Counts, Resize
<1>2. CASE n > Allocated
    <2>1. Allocated' = newAllocated(n)
        BY <1>2 DEF Resize
    <2>2. PICK new \in Nat \ (arrays \cup {InObject}) :
              DataPtr' = new /\ arrays' = (arrays \ {DataPtr}) \cup {new}
        BY <1>2 DEF Resize
    <2>3. arrays \ {DataPtr} = {}
        BY DEF IInv, OneArray
    <2>4. OneArray'
        BY <2>2, <2>3 DEF OneArray
    <2> QED  BY <1>1, <2>1, <2>2, <2>4, EnoughAllocated
<1>3. CASE ~(n > Allocated)
    BY SMT, <1>1, <1>3 DEF Resize, IInv, OneArray
<1> QED  BY <1>2, <1>3

\* The array a resize leaves: large enough, with what is to be kept.
LEMMA MemoryKeeps ==
    ASSUME NumbersFit, IInv, NEW n \in Counts, Resize(n),
           NEW kept \in Nat, kept <= Size, NEW a \in Memory(n, kept)
    PROVE  /\ a \in [0..(Allocated' - 1) -> Elements]
           /\ \A i \in 0..(kept - 1) : a[i] = array[i]
<1>1. CASE n > Allocated
    BY <1>1 DEF Memory, Resize
<1>2. CASE ~(n > Allocated)
    BY <1>2 DEF Memory, Resize, IInv, IsSequence
<1> QED  BY <1>1, <1>2

\* A vector of the right length whose known elements are those of the array.
LEMMA Sequence ==
    ASSUME Size' \in Nat, Allocated' \in Nat, Size' <= Allocated', DataPtr' \in Nat, OneArray',
           array' \in [0..(Allocated' - 1) -> Elements],
           vector' \in Seq(Elements \cup {Unknown}), Len(vector') = Size',
           \A i \in 1..Size' : vector'[i] \in {Unknown, array'[i - 1]}
    PROVE  IInv'
    BY DEF IInv, IsSequence

LEMMA SetSize_NoCopyKeeps ==
    ASSUME NumbersFit, IInv, NEW n \in Counts, SetSize_NoCopy(n)
    PROVE  IInv'
<1>1. CASE OutOfMemory(n)
    BY <1>1 DEF OutOfMemory, vars, IInv, IsSequence, OneArray
<1>2. CASE Resize(n) /\ array' \in Memory(n, 0) /\ vector' = [i \in 1..n |-> Unknown]
    <2>1. /\ Size' = n /\ n \in Nat /\ n <= Allocated' /\ Allocated' \in Nat
          /\ DataPtr' \in Nat /\ OneArray'
        BY <1>2, ResizeKeeps
    <2>2. array' \in [0..(Allocated' - 1) -> Elements]
        BY SMT, <1>2, MemoryKeeps DEF IInv
    <2>3. /\ vector' \in Seq(Elements \cup {Unknown}) /\ Len(vector') = n
          /\ \A i \in 1..n : vector'[i] = Unknown
        BY SMT, <1>2, <2>1
    <2> QED  BY <2>1, <2>2, <2>3, Sequence
<1> QED  BY <1>1, <1>2 DEF SetSize_NoCopy

LEMMA SetSize_CopyKeeps ==
    ASSUME NumbersFit, IInv, NEW n \in Counts, SetSize_Copy(n)
    PROVE  IInv'
<1>1. CASE OutOfMemory(n)
    BY <1>1 DEF OutOfMemory, vars, IInv, IsSequence, OneArray
<1>2. CASE /\ Resize(n) /\ array' \in Memory(n, Size)
           /\ vector' = [i \in 1..n |-> IF i <= Size THEN vector[i] ELSE Unknown]
    <2>1. /\ Size' = n /\ n \in Nat /\ n <= Allocated' /\ Allocated' \in Nat
          /\ DataPtr' \in Nat /\ OneArray'
        BY <1>2, ResizeKeeps
    <2>2. /\ array' \in [0..(Allocated' - 1) -> Elements]
          /\ \A i \in 0..(Size - 1) : array'[i] = array[i]
        BY SMT, <1>2, MemoryKeeps DEF IInv
    <2>3. /\ Size \in Nat /\ vector \in Seq(Elements \cup {Unknown}) /\ Len(vector) = Size
          /\ \A i \in 1..Size : vector[i] \in {Unknown, array[i - 1]}
        BY DEF IInv, IsSequence
    <2>4. vector' \in Seq(Elements \cup {Unknown}) /\ Len(vector') = n
        BY SMT, <1>2, <2>1, <2>3
    <2>5. ASSUME NEW i \in 1..n PROVE vector'[i] \in {Unknown, array'[i - 1]}
        <3>1. CASE i <= Size
            <4>1. i \in 1..Size /\ i - 1 \in 0..(Size - 1)
                BY SMT, <2>1, <2>3, <3>1
            <4> QED  BY <1>2, <2>2, <2>3, <3>1, <4>1
        <3>2. CASE ~(i <= Size)
            BY <1>2, <3>2
        <3> QED  BY <3>1, <3>2
    <2> QED  BY <2>1, <2>2, <2>4, <2>5, Sequence
<1> QED  BY <1>1, <1>2 DEF SetSize_Copy

LEMMA AppendKeeps ==
    ASSUME NumbersFit, IInv, NEW rhs \in Elements, Size + 1 \in Counts, AppendElement(rhs)
    PROVE  IInv'
<1>1. CASE OutOfMemory(Size + 1)
    BY <1>1 DEF OutOfMemory, vars, IInv, IsSequence, OneArray
<1>2. CASE /\ Resize(Size + 1)
           /\ \E a \in Memory(Size + 1, Size) : array' = [a EXCEPT ![Size] = rhs]
           /\ vector' = Append(vector, rhs)
    <2>1. PICK a \in Memory(Size + 1, Size) : array' = [a EXCEPT ![Size] = rhs]
        BY <1>2
    <2>2. /\ Size' = Size + 1 /\ Size + 1 <= Allocated' /\ Allocated' \in Nat
          /\ DataPtr' \in Nat /\ OneArray'
        BY <1>2, ResizeKeeps
    <2>3. /\ a \in [0..(Allocated' - 1) -> Elements]
          /\ \A i \in 0..(Size - 1) : a[i] = array[i]
        BY SMT, <1>2, MemoryKeeps DEF IInv
    <2>4. /\ Size \in Nat /\ vector \in Seq(Elements \cup {Unknown}) /\ Len(vector) = Size
          /\ \A i \in 1..Size : vector[i] \in {Unknown, array[i - 1]}
        BY DEF IInv, IsSequence
    <2>5. /\ vector' \in Seq(Elements \cup {Unknown}) /\ Len(vector') = Size + 1
          /\ vector'[Size + 1] = rhs /\ \A i \in 1..Size : vector'[i] = vector[i]
        BY SMT, <1>2, <2>4
    <2>6. /\ array' \in [0..(Allocated' - 1) -> Elements] /\ array'[Size] = rhs
          /\ \A i \in 0..(Size - 1) : array'[i] = a[i]
        BY SMT, <2>1, <2>2, <2>3, <2>4
    <2>7. ASSUME NEW i \in 1..(Size + 1) PROVE vector'[i] \in {Unknown, array'[i - 1]}
        <3>1. CASE i = Size + 1
            BY SMT, <2>4, <2>5, <2>6, <3>1
        <3>2. CASE i # Size + 1
            <4>1. i \in 1..Size /\ i - 1 \in 0..(Size - 1)
                BY SMT, <2>4, <3>2
            <4> QED  BY <2>3, <2>4, <2>5, <2>6, <4>1
        <3> QED  BY <3>1, <3>2
    <2>8. Size' \in Nat
        BY SMT, <2>2, <2>4
    <2> QED  BY <2>2, <2>5, <2>6, <2>7, <2>8, Sequence
<1> QED  BY <1>1, <1>2 DEF AppendElement

LEMMA AssignKeeps ==
    ASSUME IInv, NEW index \in Nat, NEW value \in Elements, Assign(index, value)
    PROVE  IInv'
<1>1. /\ index < Size /\ Size' = Size /\ Allocated' = Allocated
      /\ DataPtr' = DataPtr /\ arrays' = arrays
      /\ array' = [array EXCEPT ![index] = value]
      /\ vector' = [vector EXCEPT ![index + 1] = value]
    BY DEF Assign
<1>2. /\ Size \in Nat /\ Allocated \in Nat /\ Size <= Allocated
      /\ array \in [0..(Allocated - 1) -> Elements]
      /\ vector \in Seq(Elements \cup {Unknown}) /\ Len(vector) = Size
      /\ \A i \in 1..Size : vector[i] \in {Unknown, array[i - 1]}
    BY DEF IInv, IsSequence
<1>3. /\ array' \in [0..(Allocated - 1) -> Elements] /\ array'[index] = value
      /\ \A i \in 0..(Allocated - 1) : i # index => array'[i] = array[i]
    BY SMT, <1>1, <1>2
<1>4. /\ vector' \in Seq(Elements \cup {Unknown}) /\ Len(vector') = Size
      /\ vector'[index + 1] = value
      /\ \A i \in 1..Size : i # index + 1 => vector'[i] = vector[i]
    BY SMT, <1>1, <1>2
<1>5. ASSUME NEW i \in 1..Size PROVE vector'[i] \in {Unknown, array'[i - 1]}
    <2>1. CASE i = index + 1
        BY SMT, <1>3, <1>4, <2>1
    <2>2. CASE i # index + 1
        <3>1. i - 1 \in 0..(Allocated - 1) /\ i - 1 # index
            BY SMT, <1>2, <2>2
        <3> QED  BY <1>2, <1>3, <1>4, <2>2, <3>1
    <2> QED  BY <2>1, <2>2
<1>6. DataPtr' \in Nat /\ OneArray'
    BY <1>1 DEF IInv, OneArray
<1> QED  BY <1>1, <1>2, <1>3, <1>4, <1>5, <1>6, Sequence

\* The vector is the sequence PacketAllocator has in its place, whatever calls
\* were made of it and whichever of them failed (IsSequence), and loses no array
\* while it grows (OneArray).
THEOREM VectorIsSequence == NumbersFit => (Spec => [](IsSequence /\ OneArray))
<1> SUFFICES ASSUME NumbersFit PROVE Spec => [](IsSequence /\ OneArray)
    OBVIOUS
<1>1. Init => IInv
    <2> SUFFICES ASSUME Init PROVE IInv
        OBVIOUS
    <2>1. vector \in Seq(Elements \cup {Unknown}) /\ Len(vector) = 0 /\ Size = 0
        BY SMT DEF Init
    <2>2. OneArray /\ DataPtr \in Nat
        BY DEF Init, OneArray, InObject
    <2>3. /\ Allocated = kPreallocated /\ Allocated \in Nat /\ Size <= Allocated
          /\ array \in [0..(Allocated - 1) -> Elements]
        BY SMT DEF Init, NumbersFit
    <2>4. \A i \in 1..Size : FALSE
        BY SMT, <2>1
    <2> QED  BY <2>1, <2>2, <2>3, <2>4 DEF IInv, IsSequence
<1>2. IInv /\ [Next]_vars => IInv'
    <2> SUFFICES ASSUME IInv, [Next]_vars PROVE IInv'
        OBVIOUS
    <2>1. ASSUME NEW n \in Counts, SetSize_NoCopy(n) \/ SetSize_Copy(n) PROVE IInv'
        BY <2>1, SetSize_NoCopyKeeps, SetSize_CopyKeeps
    <2>2. ASSUME NEW rhs \in Elements, Size + 1 \in Counts /\ AppendElement(rhs) PROVE IInv'
        BY <2>2, AppendKeeps
    <2>3. CASE Clear
        <3>1. /\ Size' = 0 /\ vector' = <<>> /\ Allocated' = Allocated /\ array' = array
              /\ DataPtr' = DataPtr /\ arrays' = arrays
            BY <2>3 DEF Clear
        <3>2. Size' \in Nat /\ Size' <= Allocated' /\ Allocated' \in Nat
            BY SMT, <3>1 DEF IInv
        <3>3. /\ vector' \in Seq(Elements \cup {Unknown}) /\ Len(vector') = Size'
              /\ \A i \in 1..Size' : FALSE
            BY SMT, <3>1
        <3>4. /\ DataPtr' \in Nat /\ OneArray' /\ array' \in [0..(Allocated' - 1) -> Elements]
            BY <3>1 DEF IInv, IsSequence, OneArray
        <3> QED  BY <3>2, <3>3, <3>4, Sequence
    <2>4. ASSUME NEW index \in Nat, NEW value \in Elements, Assign(index, value) PROVE IInv'
        BY <2>4, AssignKeeps
    <2>5. CASE UNCHANGED vars
        BY <2>5 DEF vars, IInv, IsSequence, OneArray
    <2> QED  BY <2>1, <2>2, <2>3, <2>4, <2>5 DEF Next
<1>3. IInv => IsSequence /\ OneArray
    BY DEF IInv
<1> QED  BY <1>1, <1>2, <1>3, PTL DEF Spec
=============================================================================
