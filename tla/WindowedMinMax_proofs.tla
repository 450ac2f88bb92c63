-------------------------- MODULE WindowedMinMax_proofs --------------------------
(***************************************************************************)
(* What WindowedMinMax keeps, proved for every sequence of values, times   *)
(* and windows.                                                            *)
(***************************************************************************)
EXTENDS WindowedMinMax, TLAPS

TimesExist == TimeValues \in Nat /\ TimeValues > 1

SampleType == [Value : Int, Timestamp : Time, Number : Nat]

Since(sample, values) ==
    /\ sample.Number \in DOMAIN values /\ values[sample.Number] = sample.Value
    /\ \A n \in DOMAIN values : n > sample.Number => Compare(sample.Value, values[n])

\* Samples that are in order, the best of what came since, and none of which is
\* older than a window.
Kept(s, values, time, window) ==
    /\ s \in [0..2 -> SampleType]
    /\ \A i \in 0..2 : Since(s[i], values)
    /\ s[0].Timestamp <= s[1].Timestamp /\ s[1].Timestamp <= s[2].Timestamp
    /\ Compare(s[0].Value, s[1].Value) /\ Compare(s[1].Value, s[2].Value)
    /\ s[2].Timestamp <= time
    /\ time - s[0].Timestamp <= window

IInv ==
    /\ given \in Seq(Int) /\ now \in Time /\ length \in Time \cup {Unlimited}
    /\ Samples \in [0..2 -> SampleType]
    /\ BestSinceItCame /\ SamplesInOrder /\ SamplesAreRecent

-----------------------------------------------------------------------------

LEMMA TimeIsNat == Time \subseteq Nat
    BY DEF Time

LEMMA ZeroIsTime == TimesExist => 0 \in Time
    BY SMT DEF Time, TimesExist

\* The difference of two times tells which is the earlier: when the clock was set
\* back, it is longer than any window.
LEMMA Expiry ==
    ASSUME TimesExist, NEW sample \in SampleType, NEW time \in Time, NEW timeout \in Time
    PROVE  ~TimeoutExpired(sample, time, timeout) <=>
               sample.Timestamp <= time /\ time - sample.Timestamp <= timeout
<1> DEFINE s == sample.Timestamp
<1>1. s \in Time
    BY DEF SampleType
<1> HIDE DEF s
<1>2. /\ s \in Nat /\ time \in Nat /\ timeout \in Nat /\ TimeValues \in Nat
      /\ 2 * s < TimeValues /\ 2 * time < TimeValues /\ 2 * timeout < TimeValues
    BY SMT, <1>1 DEF Time, TimesExist
<1>3. CASE s <= time
    <2>1. (time - s) % TimeValues = time - s
        BY SMT, <1>2, <1>3
    <2> QED  BY SMT, <1>2, <1>3, <2>1 DEF TimeoutExpired, s
<1>4. CASE s > time
    <2>1. (time - s) % TimeValues = time - s + TimeValues
        BY SMT, <1>2, <1>4
    <2> QED  BY SMT, <1>2, <1>4, <2>1 DEF TimeoutExpired, s
<1> QED  BY SMT, <1>2, <1>3, <1>4

LEMMA ThreeSamples ==
    ASSUME NEW a \in SampleType, NEW b \in SampleType, NEW c \in SampleType
    PROVE  /\ Three(a, b, c) \in [0..2 -> SampleType]
           /\ Three(a, b, c)[0] = a /\ Three(a, b, c)[1] = b /\ Three(a, b, c)[2] = c
    BY SMT DEF Three

LEMMA CompareIsOrder ==
    ASSUME NEW x \in Int, NEW y \in Int
    PROVE  /\ Compare(x, x)
           /\ ~Compare(x, y) => Compare(y, x)
           /\ \A z \in Int : Compare(x, y) /\ Compare(y, z) => Compare(x, z)
    BY SMT DEF Compare

\* A value that is not better takes nothing from a sample.
LEMMA SinceLonger ==
    ASSUME NEW values \in Seq(Int), NEW value \in Int, NEW sample \in SampleType,
           Since(sample, values), Compare(sample.Value, value)
    PROVE  Since(sample, Append(values, value))
<1>1. /\ DOMAIN values = 1..Len(values) /\ Len(values) \in Nat
      /\ DOMAIN Append(values, value) = 1..(Len(values) + 1)
      /\ \A n \in 1..Len(values) : Append(values, value)[n] = values[n]
      /\ Append(values, value)[Len(values) + 1] = value
    BY SMT
<1> QED  BY SMT, <1>1 DEF Since, SampleType

\* The last value is the best since it came.
LEMMA SinceNow ==
    ASSUME NEW values \in Seq(Int), NEW value \in Int, NEW sample,
           sample.Value = value, sample.Number = Len(values) + 1
    PROVE  Since(sample, Append(values, value))
    BY SMT DEF Since

\* A sample that takes all three places starts again.
LEMMA StartsAgain ==
    ASSUME NEW values \in Seq(Int), NEW value \in Int, NEW timestamp \in Time, NEW window \in Nat,
           NEW x \in SampleType, x.Value = value, x.Timestamp = timestamp,
           x.Number = Len(values) + 1
    PROVE  Kept(Three(x, x, x), Append(values, value), timestamp, window)
<1>1. timestamp \in Nat
    BY TimeIsNat
<1> QED  BY SMT, <1>1, ThreeSamples, SinceNow, CompareIsOrder DEF Kept

\* Samples that stay in order when a last one joins them.
LEMMA UpdateKeeps ==
    ASSUME TimesExist, IInv, NEW value \in Int, NEW timestamp \in Time, NEW window \in Time,
           Update(value, timestamp, window)
    PROVE  Kept(Samples', given', timestamp, window)
<1> DEFINE x == Sample(value, timestamp)
           s == Inserted(x)
           values == Append(given, value)
<1>1. /\ x \in SampleType /\ x.Value = value /\ x.Timestamp = timestamp
      /\ x.Number = Len(given) + 1 /\ given' = values
    BY SMT DEF Sample, SampleType, IInv, Update
<1>2. Since(x, values)
    BY Zenon, <1>1, SinceNow DEF IInv
<1>3. CASE \/ ~IsValid
           \/ Compare(value, GetBest)
           \/ TimeoutExpired(Samples[2], timestamp, window)
    <2>1. Samples' = Three(x, x, x)
        BY <1>3 DEF Update
    <2> QED  BY <1>1, <2>1, StartsAgain, TimeIsNat DEF IInv
<1>4. CASE ~(\/ ~IsValid
             \/ Compare(value, GetBest)
             \/ TimeoutExpired(Samples[2], timestamp, window))
    <2> DEFINE a == Samples[0]
               b == Samples[1]
               c == Samples[2]
    <2>1. /\ a \in SampleType /\ b \in SampleType /\ c \in SampleType
          /\ Since(a, given) /\ Since(b, given) /\ Since(c, given)
        BY SMT DEF IInv, BestSinceItCame, Since
    <2>2. /\ a.Timestamp <= b.Timestamp /\ b.Timestamp <= c.Timestamp
          /\ Compare(a.Value, b.Value) /\ Compare(b.Value, c.Value)
        BY SMT DEF IInv, SamplesInOrder
    <2>3. c.Timestamp <= timestamp /\ timestamp - c.Timestamp <= window
        BY <1>4, <2>1, Expiry
    <2>4. Samples' = Aged(s, x, window)
        BY <1>4 DEF Update
    <2>5. Compare(a.Value, value) /\ Since(a, values)
        BY <1>4, <2>1, CompareIsOrder, SinceLonger DEF GetBest, SampleType, IInv
    <2> DEFINE Fit(p, q) ==
                   /\ s \in [0..2 -> SampleType] /\ s[0] = a /\ s[1] = p /\ s[2] = q
                   /\ Since(p, values) /\ Since(q, values)
                   /\ a.Timestamp <= p.Timestamp /\ p.Timestamp <= q.Timestamp
                   /\ Compare(a.Value, p.Value) /\ Compare(p.Value, q.Value)
                   /\ Compare(p.Value, value) /\ Compare(q.Value, value)
                   /\ q.Timestamp <= timestamp /\ timestamp - q.Timestamp <= window
    <2>6. \E p, q \in SampleType : Fit(p, q)
        <3>1. /\ a.Timestamp \in Nat /\ b.Timestamp \in Nat /\ c.Timestamp \in Nat
              /\ timestamp \in Nat /\ window \in Nat
            BY <2>1, TimeIsNat DEF SampleType
        <3>2. /\ a.Timestamp <= timestamp /\ b.Timestamp <= timestamp
              /\ timestamp <= timestamp /\ timestamp - timestamp <= window
            BY SMT, <2>2, <2>3, <3>1
        <3>3. Compare(value, value)
            BY CompareIsOrder
        <3>4. CASE Compare(value, b.Value)
            <4>1. s = Three(a, x, x)
                BY <1>1, <3>4 DEF Inserted
            <4>2. s \in [0..2 -> SampleType] /\ s[0] = a /\ s[1] = x /\ s[2] = x
                BY <1>1, <2>1, <4>1, ThreeSamples
            <4>3. x.Timestamp <= x.Timestamp
                BY <1>1, <3>2
            <4>4. Fit(x, x)
                BY <1>1, <1>2, <2>5, <3>2, <3>3, <4>2, <4>3
            <4> QED  BY <1>1, <4>4
        <3>5. CASE ~Compare(value, b.Value) /\ Compare(value, c.Value)
            <4>1. s = Three(a, b, x)
                BY <1>1, <3>5 DEF Inserted
            <4>2. s \in [0..2 -> SampleType] /\ s[0] = a /\ s[1] = b /\ s[2] = x
                BY <1>1, <2>1, <4>1, ThreeSamples
            <4>3. Compare(b.Value, value) /\ Since(b, values)
                BY <2>1, <3>5, CompareIsOrder, SinceLonger DEF SampleType, IInv
            <4>4. Fit(b, x)
                BY <1>1, <1>2, <2>2, <3>2, <3>3, <4>2, <4>3
            <4> QED  BY <1>1, <2>1, <4>4
        <3>6. CASE ~Compare(value, b.Value) /\ ~Compare(value, c.Value)
            <4>1. s = Samples /\ Samples \in [0..2 -> SampleType]
                BY <1>1, <3>6 DEF Inserted, IInv
            <4>2. /\ Compare(b.Value, value) /\ Since(b, values)
                  /\ Compare(c.Value, value) /\ Since(c, values)
                BY <2>1, <3>6, CompareIsOrder, SinceLonger DEF SampleType, IInv
            <4>3. Fit(b, c)
                BY <2>2, <2>3, <4>1, <4>2
            <4> QED  BY <2>1, <4>3
        <3> QED  BY <3>4, <3>5, <3>6
    <2> HIDE DEF s, values, x, a, b, c
    <2>7. PICK p, q \in SampleType : Fit(p, q)
        BY <2>6
    <2>8. /\ a.Timestamp \in Nat /\ p.Timestamp \in Nat /\ q.Timestamp \in Nat /\ timestamp \in Nat
          /\ window \in Nat /\ Compare(value, value) /\ x.Timestamp \in Nat
        BY <1>1, <2>1, TimeIsNat, CompareIsOrder DEF SampleType
    <2>9. CASE TimeoutExpired(a, timestamp, window) /\ TimeoutExpired(p, timestamp, window)
        <3>1. Samples' = Three(q, x, x)
            BY <1>1, <2>4, <2>7, <2>9 DEF Aged
        <3> QED  BY SMT, <1>1, <1>2, <2>7, <2>8, <3>1, ThreeSamples DEF Kept
    <2>10. CASE TimeoutExpired(a, timestamp, window) /\ ~TimeoutExpired(p, timestamp, window)
        <3>1. Samples' = Three(p, q, x)
            BY <1>1, <2>4, <2>7, <2>10 DEF Aged
        <3>2. timestamp - p.Timestamp <= window
            BY <2>10, Expiry
        <3> QED  BY SMT, <1>1, <1>2, <2>7, <2>8, <3>1, <3>2, ThreeSamples DEF Kept
    <2>11. CASE ~TimeoutExpired(a, timestamp, window)
        <3>1. Samples' \in {Three(a, x, x), Three(a, p, x), s}
            BY <1>1, <2>4, <2>7, <2>11 DEF Aged
        <3>2. timestamp - a.Timestamp <= window
            BY <2>1, <2>11, Expiry
        <3>3. CASE Samples' = Three(a, x, x)
            <4>1. /\ Samples' \in [0..2 -> SampleType]
                  /\ Samples'[0] = a /\ Samples'[1] = x /\ Samples'[2] = x
                BY <1>1, <2>1, <3>3, ThreeSamples
            <4>2. a.Timestamp <= x.Timestamp
                BY SMT, <1>1, <2>7, <2>8
            <4> QED  BY SMT, <1>1, <1>2, <2>5, <2>8, <3>2, <4>1, <4>2 DEF Kept
        <3>4. CASE Samples' = Three(a, p, x)
            BY SMT, <1>1, <1>2, <2>1, <2>5, <2>7, <2>8, <3>2, <3>4, ThreeSamples DEF Kept
        <3>5. CASE Samples' = s
            BY SMT, <1>1, <2>5, <2>7, <2>8, <3>2, <3>5 DEF Kept
        <3> QED  BY <3>1, <3>3, <3>4, <3>5
    <2> QED  BY <2>9, <2>10, <2>11
<1> QED  BY <1>3, <1>4

LEMMA KeptIsInvariant ==
    ASSUME NEW values \in Seq(Int), NEW time \in Time, NEW window \in Time, NEW s,
           Kept(s, values, time, window)
    PROVE  /\ \A i \in 0..2 : s[i].Timestamp <= time /\ time - s[i].Timestamp <= window
           /\ \A i \in 0..2 : Since(s[i], values)
           /\ \A i \in 0..1 : s[i].Timestamp <= s[i + 1].Timestamp
                              /\ Compare(s[i].Value, s[i + 1].Value)
<1>1. /\ time \in Nat /\ window \in Nat
      /\ \A i \in 0..2 : s[i].Timestamp \in Nat
    BY TimeIsNat DEF Kept, SampleType
<1> QED  BY SMT, <1>1 DEF Kept

\* The samples are in order, recent, and the best of what came since, whatever
\* values and times a client gives (SiameseTools.h:132).
THEOREM Invariance == TimesExist => (Spec => []IInv)
<1> SUFFICES ASSUME TimesExist PROVE Spec => []IInv
    OBVIOUS
<1>1. Init => IInv
    <2> SUFFICES ASSUME Init PROVE IInv
        OBVIOUS
    <2> DEFINE x == [Value |-> 0, Timestamp |-> 0, Number |-> 1]
    <2>0. 0 \in Time
        BY ZeroIsTime
    <2>1. 0 \in Time /\ x \in SampleType
        BY SMT, <2>0 DEF SampleType
    <2>2. Samples = Three(x, x, x) /\ given = <<0>> /\ now = 0 /\ length = Unlimited
        BY DEF Init
    <2>3. Samples \in [0..2 -> SampleType] /\ \A i \in 0..2 : Samples[i] = x
        BY SMT, <2>1, <2>2, ThreeSamples
    <2>4. Compare(0, 0)
        BY CompareIsOrder
    <2> QED  BY SMT, <2>1, <2>2, <2>3, <2>4
        DEF IInv, BestSinceItCame, SamplesInOrder, SamplesAreRecent
<1>2. IInv /\ [Next]_vars => IInv'
    <2> SUFFICES ASSUME IInv, [Next]_vars PROVE IInv'
        OBVIOUS
    <2>1. ASSUME NEW value \in Int, NEW timestamp \in Time, NEW window \in Time,
                 Update(value, timestamp, window)
          PROVE  IInv'
        <3>1. Kept(Samples', given', timestamp, window)
            BY <2>1, UpdateKeeps
        <3>2. given' \in Seq(Int) /\ now' = timestamp /\ length' = window
            BY <2>1 DEF Update, IInv
        <3>3. Samples' \in [0..2 -> SampleType]
            BY <3>1 DEF Kept
        <3> QED  BY <3>1, <3>2, <3>3, KeptIsInvariant
            DEF IInv, BestSinceItCame, SamplesInOrder, SamplesAreRecent, Since
    <2>2. ASSUME NEW value \in Int, NEW timestamp \in Time, Reset(value, timestamp) PROVE IInv'
        <3> DEFINE x == Sample(value, timestamp)
        <3>1. /\ x \in SampleType /\ x.Value = value /\ x.Timestamp = timestamp
              /\ x.Number = Len(given) + 1
            BY SMT DEF Sample, SampleType, IInv
        <3>2. /\ Samples' = Three(x, x, x) /\ given' = Append(given, value)
              /\ now' = timestamp /\ length' = Unlimited
            BY <2>2 DEF Reset
        <3>3. Kept(Samples', given', timestamp, 0)
            BY <3>1, <3>2, StartsAgain DEF IInv
        <3>4. 0 \in Time /\ given' \in Seq(Int)
            BY SMT, <3>2, ZeroIsTime DEF IInv
        <3>5. Samples' \in [0..2 -> SampleType]
            BY <3>3 DEF Kept
        <3>6. /\ \A i \in 0..2 : Since(Samples'[i], given')
              /\ \A i \in 0..1 : Samples'[i].Timestamp <= Samples'[i + 1].Timestamp
                                 /\ Compare(Samples'[i].Value, Samples'[i + 1].Value)
            BY <3>3, <3>4, KeptIsInvariant
        <3> QED  BY <3>2, <3>4, <3>5, <3>6
            DEF IInv, BestSinceItCame, SamplesInOrder, SamplesAreRecent, Since
    <2>3. CASE UNCHANGED vars
        BY <2>3 DEF vars, IInv, BestSinceItCame, SamplesInOrder, SamplesAreRecent
    <2> QED  BY <2>1, <2>2, <2>3 DEF Next
<1> QED  BY <1>1, <1>2, PTL DEF Spec

\* The best value is of the window it is asked for (SamplesAreRecent).
THEOREM BestIsRecent == TimesExist => (Spec => []SamplesAreRecent)
<1>1. IInv => SamplesAreRecent
    BY DEF IInv
<1> QED  BY <1>1, Invariance, PTL

\* No value is lost that came after the best and is better (BestSinceItCame).
THEOREM BestIsBest == TimesExist => (Spec => []BestSinceItCame)
<1>1. IInv => BestSinceItCame
    BY DEF IInv
<1> QED  BY <1>1, Invariance, PTL
=============================================================================
