------------------------------ MODULE Crossover ------------------------------
(***************************************************************************)
(* Crossover detection (src/tradeexecutor/state/crossover.py).             *)
(*                                                                         *)
(* has_crossover_occurred and has_crossunder_occurred are pure functions  *)
(* of two series and five parameters.  Each state of this module is one   *)
(* call: the arguments are the variables, and the properties compare the  *)
(* code's result with a reference definition written from the docstrings. *)
(*                                                                         *)
(* Series are integer sequences.  The code replaces a cross value of 0 by  *)
(* epsilon = 1e-10, below every gap between integers; the module doubles   *)
(* every value and takes epsilon as 1, which keeps every comparison and    *)
(* every buffer ratio of the code exact.  min_gradient is left at None     *)
(* (np.polyfit is not modelled).                                           *)
(***************************************************************************)
EXTENDS Integers, Sequences, SequencesExt

CONSTANTS
    Values,          \* the values a series may hold
    MaxLen,          \* the longest series
    MinCounts,       \* min_values_above_cross / min_values_below_cross
    BufferPercents,  \* buffer_above_percent / buffer_below_percent, in percent
    ReturnIndex      \* the return_cross_index values

ASSUME MinCounts \subseteq Nat \ {0} /\ BufferPercents \subseteq 0 .. 100

Series == UNION {[1 .. n -> Values] : n \in 1 .. MaxLen}

VARIABLES series1, series2, above, below, bufAbove, bufBelow, retIdx

vars == <<series1, series2, above, below, bufAbove, bufBelow, retIdx>>

Eps == 1
Scaled(s) == [i \in DOMAIN s |-> 2 * s[i]]

\* Python slices: s.iloc[:m] and s.iloc[-m:] for m >= 1.
FirstN(s, m) == SubSeq(s, 1, IF m < Len(s) THEN m ELSE Len(s))
LastN(s, m) == SubSeq(s, IF m < Len(s) THEN Len(s) - m + 1 ELSE 1, Len(s))

\* The longer series is cut to the latest values of the shorter one.
TrimmedLen(a, b) == IF Len(a) < Len(b) THEN Len(a) ELSE Len(b)

\* cross_value: the second series right after the cross, epsilon for 0.
CrossValue(v) == IF v = 0 THEN Eps ELSE v

\* (num / cv) >= percent / 100, with the sign of cv as Python divides.
RatioAtLeast(num, cv, p) == IF cv > 0 THEN 100 * num >= p * cv ELSE 100 * num <= p * cv

\* _get_return_value: the result, paired with the cross index (None for a
\* False result) when return_cross_index is set.  Index 0 stands for None.
GetReturnValue(v, ri, ci) == [value |-> v, pair |-> ri, index |-> IF v THEN ci ELSE 0]

\* A bare False, as has_crossunder_occurred returns at line 224.
BareFalse == [value |-> FALSE, pair |-> FALSE, index |-> 0]

Over(a, b, k) == a[k - 1] <= b[k - 1] /\ a[k] > b[k]
Under(a, b, k) == a[k - 1] >= b[k - 1] /\ a[k] < b[k]
IsCross(up, a, b, k) == IF up THEN Over(a, b, k) ELSE Under(a, b, k)

\* Mutant: the scan stops at the first cross.
RECURSIVE FirstCross(_, _, _, _, _)
FirstCross(up, a, b, k, last) ==
    IF k > Len(a) \/ last # 0 THEN last
    ELSE FirstCross(up, a, b, k + 1, IF IsCross(up, a, b, k) THEN k ELSE last)

\* The scan loop: the last 1-based position k >= 2 where the series cross
\* over (up) or under; 0 if none.
RECURSIVE LatestCross(_, _, _, _, _)
LatestCross(up, a, b, k, last) ==
    IF k > Len(a) THEN last
    ELSE LatestCross(up, a, b, k + 1, IF IsCross(up, a, b, k) THEN k ELSE last)

SeqMax(s) == Max(Range(s))
SeqMin(s) == Min(Range(s))

-----------------------------------------------------------------------------
(* The code.                                                               *)

HasCrossoverOccurred(s1, s2, mA, mB, pA, pB, ri) ==
    LET n == TrimmedLen(s1, s2)
        a == LastN(Scaled(s1), n)
        b == LastN(Scaled(s2), n)
        k == LatestCross(TRUE, a, b, 2, 0)
    IN IF k = 0 THEN GetReturnValue(FALSE, ri, 0)
       ELSE LET cv     == CrossValue(b[k])
                after  == SubSeq(a, k, n)
                before == SubSeq(a, 1, k - 1)
                ok == /\ RatioAtLeast(SeqMax(after) - cv, cv, pA)
                      /\ Len(after) >= mA
                      /\ \A x \in Range(FirstN(after, mA)) : x > cv
                      /\ \E x \in Range(before) : x < cv
                      /\ Len(before) >= mB
                      /\ \A x \in Range(LastN(before, mB)) : x <= cv
                      /\ RatioAtLeast(cv - SeqMin(before), cv, pB)
            IN GetReturnValue(ok, ri, -(n - k + 1))

HasCrossunderOccurred(s1, s2, mA, mB, pA, pB, ri) ==
    LET n == TrimmedLen(s1, s2)
        a == LastN(Scaled(s1), n)
        b == LastN(Scaled(s2), n)
        k == LatestCross(FALSE, a, b, 2, 0)
    IN IF k = 0 THEN GetReturnValue(FALSE, ri, 0)
       ELSE LET cv     == CrossValue(b[k])
                ci     == -(n - k + 1)
                after  == SubSeq(a, k, n)
                before == SubSeq(a, 1, k - 1)
                pre == /\ Len(after) >= mB
                       /\ RatioAtLeast(cv - SeqMin(after), cv, pB)
                       /\ \A x \in Range(FirstN(after, mB)) : x <= cv
                post == /\ Len(FirstN(a, -ci)) >= mA
                        /\ RatioAtLeast(SeqMax(before) - cv, cv, pA)
                        /\ \A x \in Range(LastN(before, mA)) : x >= cv
            IN IF ~pre THEN GetReturnValue(FALSE, ri, ci)
               ELSE IF ~\E x \in Range(before) : x > cv THEN BareFalse
               ELSE GetReturnValue(post, ri, ci)

-----------------------------------------------------------------------------
(* The reference: the docstrings' meaning over positions.  The cross is   *)
(* the latest k where the first series moves from at-or-below (at-or-     *)
(* above) the second to strictly above (below) it; the "values above" and *)
(* "values below" counts are counted on their side of the cross, and a     *)
(* buffer is the percentage by which the series passes the cross value.   *)

Exceeds(num, cv, p) == 100 * num >= p * (IF cv < 0 THEN -cv ELSE cv)

Result(ok, ri, n, k) == [value |-> ok, pair |-> ri, index |-> IF ok THEN -(n - k + 1) ELSE 0]

CrossoverSpec(s1, s2, mA, mB, pA, pB, ri) ==
    LET n == TrimmedLen(s1, s2)
        a == LastN(Scaled(s1), n)
        b == LastN(Scaled(s2), n)
        C == {k \in 2 .. n : Over(a, b, k)}
    IN IF C = {} THEN Result(FALSE, ri, n, 0)
       ELSE LET k  == Max(C)
                cv == CrossValue(b[k])
                ok == /\ n - k + 1 >= mA /\ \A j \in k .. k + mA - 1 : a[j] > cv
                      /\ k - 1 >= mB /\ \A j \in k - mB .. k - 1 : a[j] <= cv
                      /\ \E j \in 1 .. k - 1 : a[j] < cv
                      /\ Exceeds(Max({a[j] : j \in k .. n}) - cv, cv, pA)
                      /\ Exceeds(cv - Min({a[j] : j \in 1 .. k - 1}), cv, pB)
            IN Result(ok, ri, n, k)

-----------------------------------------------------------------------------

\* Every call with valid arguments (_validate_args holds).
Init ==
    /\ series1 \in Series /\ series2 \in Series
    /\ above \in MinCounts /\ below \in MinCounts
    /\ bufAbove \in BufferPercents /\ bufBelow \in BufferPercents
    /\ retIdx \in ReturnIndex

\* A pure function: a call takes no further step.
Next == UNCHANGED vars

Spec == Init /\ [][Next]_vars

CrossoverResult == HasCrossoverOccurred(series1, series2, above, below, bufAbove, bufBelow, retIdx)

(* has_crossover_occurred returns what its docstring promises: whether the *)
(* latest cross has min_values_above_cross values above it and             *)
(* min_values_below_cross values below it, passes both buffers, and the   *)
(* index of that cross when return_cross_index is set.                    *)
CrossoverMeetsSpec ==
    CrossoverResult = CrossoverSpec(series1, series2, above, below, bufAbove, bufBelow, retIdx)

=============================================================================
