----------------------------- MODULE WindowedMinMax -----------------------------
(***************************************************************************)
(* The running minimum or maximum over a window of time of SiameseTools.h: *)
(* three samples, the best and two that came after it and may follow it.   *)
(* A client gives values with the time of its clock, which may be set      *)
(* back, and may choose another window for each.                           *)
(***************************************************************************)
EXTENDS Integers, Sequences

CONSTANTS
    Extreme,    \* "min" for WindowedMinCompare, else WindowedMaxCompare
    TimeValues  \* how many values TimeT has

\* Times and lengths of windows a client uses: half of what TimeT can hold, so
\* that a difference tells which of two times is the earlier.
Time == {t \in Nat : t < TimeValues \div 2}

VARIABLES
    Samples,
    given,     \* history: the values, in the order they came
    now,       \* history: the time of the last one
    length     \* history: the window it came with, Unlimited for a Reset

vars == <<Samples, given, now, length>>

Unlimited == -1

\* Number is history: which of the given values it is.
Sample(value, timestamp) ==
    [Value |-> value, Timestamp |-> timestamp, Number |-> Len(given) + 1]

Compare(x, y) == IF Extreme = "min" THEN x <= y ELSE x >= y

TimeoutExpired(sample, time, timeout) == (time - sample.Timestamp) % TimeValues > timeout

Three(first, second, third) ==
    [i \in 0..2 |-> IF i = 0 THEN first ELSE IF i = 1 THEN second ELSE third]

IsValid == Samples[0].Value # 0

GetBest == Samples[0].Value

\* The samples with a new one in its place among the last two.
Inserted(sample) ==
    IF Compare(sample.Value, Samples[1].Value) THEN Three(Samples[0], sample, sample)
    ELSE IF Compare(sample.Value, Samples[2].Value) THEN Three(Samples[0], Samples[1], sample)
    ELSE Samples

\* The samples with those replaced that were there too long.
Aged(s, sample, windowLengthTime) ==
    LET Expired(i, timeout) == TimeoutExpired(s[i], sample.Timestamp, timeout)
    IN  IF Expired(0, windowLengthTime)
        THEN IF Expired(1, windowLengthTime) THEN Three(s[2], sample, sample)
                                             ELSE Three(s[1], s[2], sample)
        ELSE IF s[1].Value = s[0].Value /\ Expired(1, windowLengthTime \div 4)
        THEN Three(s[0], sample, sample)
        ELSE IF s[2].Value = s[1].Value /\ Expired(2, windowLengthTime \div 2)
        THEN Three(s[0], s[1], sample)
        ELSE s

Update(value, timestamp, windowLengthTime) ==
    /\ LET sample == Sample(value, timestamp)
       IN  Samples' = IF \/ ~IsValid
                         \/ Compare(value, GetBest)
                         \/ TimeoutExpired(Samples[2], timestamp, windowLengthTime)
                      THEN Three(sample, sample, sample)
                      ELSE Aged(Inserted(sample), sample, windowLengthTime)
    /\ given' = Append(given, value)
    /\ now' = timestamp /\ length' = windowLengthTime

Reset(value, timestamp) ==
    /\ LET sample == Sample(value, timestamp) IN Samples' = Three(sample, sample, sample)
    /\ given' = Append(given, value)
    /\ now' = timestamp /\ length' = Unlimited

Init ==
    /\ LET sample == [Value |-> 0, Timestamp |-> 0, Number |-> 1]
       IN  Samples = Three(sample, sample, sample)
    /\ given = <<0>> /\ now = 0 /\ length = Unlimited

Next ==
    \E value \in Int, timestamp \in Time :
        \/ \E windowLengthTime \in Time : Update(value, timestamp, windowLengthTime)
        \/ Reset(value, timestamp)

Spec == Init /\ [][Next]_vars

-----------------------------------------------------------------------------
(* Properties                                                                *)

\* No sample is older than the window of the call, clocks that were set back
\* included, which make a difference of times wrap: the best value is of the
\* window it is asked for.
SamplesAreRecent ==
    \A i \in 0..2 : length # Unlimited =>
        Samples[i].Timestamp <= now /\ now - Samples[i].Timestamp <= length

\* Each sample is a value that was given, and none given after it is better: the
\* best value is the extreme of all since it came.
BestSinceItCame ==
    \A i \in 0..2 :
        /\ Samples[i].Number \in DOMAIN given /\ given[Samples[i].Number] = Samples[i].Value
        /\ \A n \in DOMAIN given :
              n > Samples[i].Number => Compare(Samples[i].Value, given[n])

\* The second and the third sample come no earlier and are no better than the one
\* before: who moves up when the best expires is the best of what is left.
SamplesInOrder ==
    \A i \in 0..1 :
        /\ Samples[i].Timestamp <= Samples[i + 1].Timestamp
        /\ Compare(Samples[i].Value, Samples[i + 1].Value)
=============================================================================
