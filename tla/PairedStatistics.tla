---------------------------- MODULE PairedStatistics ----------------------------
(***************************************************************************)
(* The evidence of one metric over paired cases (merriv/stats/paired.py):  *)
(* binary_paired_evidence for passes and failures, paired_bootstrap for    *)
(* numbers.  Arithmetic is exact: a null value and a bound are fractions,  *)
(* a confidence level is given by the square of its normal quantile and by *)
(* its tail, one out of so many.  The random resamples are any resamples.  *)
(***************************************************************************)
EXTENDS Integers, Sequences, FiniteSets

CONSTANTS
    MaxPairs,      \* pairs of a binary metric
    Levels,        \* confidence levels asked for
    Thresholds,    \* margins of the rule, as fractions, and NoValue
    Halvings,      \* iterations of the inversion (100 in the code)
    Differences,   \* differences a numeric metric may have
    NumericPairs,  \* pairs of a numeric metric
    Resamples,     \* bootstrap resamples
    ExactLimit,    \* pairs up to which signs are enumerated (16 in the code)
    NoValue

Fraction == [num : Int, den : Nat \ {0}]

ASSUME StatisticsAssumption ==
    /\ {MaxPairs, Halvings, NumericPairs, Resamples} \subseteq Nat \ {0}
    /\ ExactLimit \in Nat
    /\ Levels \subseteq [critical : Nat \ {0}, tail : Nat \ {0, 1}] /\ IsFiniteSet(Levels)
    /\ \A k, l \in Levels : (k.critical < l.critical) <=> (k.tail < l.tail)
    /\ Thresholds \subseteq Fraction \cup {NoValue} /\ NoValue \notin Fraction
    /\ NoValue \notin [level : Levels, bound : {"low", "high"}]
    /\ Differences \subseteq Int

VARIABLES
    flips,       \* counts of the four outcomes of a binary metric, NoValue for a numeric one
    differences, \* candidate minus baseline, pair by pair
    threshold,
    phase,
    effects,     \* the sums of the bootstrap resamples, sorted
    interval,    \* for each level and bound, the last null inside and outside
    solving,     \* the level and bound being inverted
    inside, outside, round,
    test         \* hypothesis_test: how often the null does as well, of how many

metricInputs == <<flips, differences, threshold>>
inversion == <<solving, inside, outside, round>>
statisticsVars == <<metricInputs, phase, effects, interval, inversion, test>>

n == Len(differences)

Sum(s) == LET Add[i \in 0..Len(s)] == IF i = 0 THEN 0 ELSE Add[i - 1] + s[i] IN Add[Len(s)]

Flips == {f \in [both_pass : 0..MaxPairs, baseline_only : 0..MaxPairs,
                 candidate_only : 0..MaxPairs, both_fail : 0..MaxPairs] :
            f.both_pass + f.baseline_only + f.candidate_only + f.both_fail \in 1..MaxPairs}

\* The pairs with their differences, in the order of their outcomes.
Outcomes(f) ==
    [i \in 1..(f.both_pass + f.baseline_only + f.candidate_only + f.both_fail) |->
        IF i <= f.baseline_only THEN -1
        ELSE IF i <= f.baseline_only + f.candidate_only THEN 1 ELSE 0]

\* A pair that passes or fails on both sides adds nothing: one kind of them is enough.
StatisticsInit ==
    /\ \/ \E f \in Flips : f.both_fail = 0 /\ flips = f /\ differences = Outcomes(f)
       \/ flips = NoValue /\ \E k \in 1..NumericPairs : differences \in [1..k -> Differences]
    /\ threshold \in Thresholds
    /\ phase = "resample"
    /\ effects = <<>>
    /\ interval = [l \in Levels |-> NoValue]
    /\ solving = NoValue /\ inside = 0 /\ outside = 0 /\ round = 0
    /\ test = NoValue

-----------------------------------------------------------------------------
(* The percentile bootstrap *)

\* The sums after one more draw with replacement.
DrawnAfter(sums) == {s + differences[i] : s \in sums, i \in 1..n}

\* The sums that n draws can have.
Drawn == LET Of[k \in 0..n] == IF k = 0 THEN {0} ELSE DrawnAfter(Of[k - 1]) IN Of[n]

\* Mutant: the weights of the two neighbours are exchanged.
Quantile_Exchanged(s, a, t) ==
    LET position == (Len(s) - 1) * a
        lower == position \div t
        weight == position % t
    IN IF weight = 0 THEN t * s[lower + 1]
       ELSE s[lower + 1] * weight + s[lower + 2] * (t - weight)

\* The quantile a/t of a sorted sequence, linearly interpolated, times t.
Quantile(s, a, t) ==
    LET position == (Len(s) - 1) * a
        lower == position \div t
        weight == position % t
    IN IF weight = 0 THEN t * s[lower + 1]
       ELSE s[lower + 1] * (t - weight) + s[lower + 2] * weight

\* Bounds are fractions of the effect; here their denominator is tail * n.
IntervalAt(l, s) ==
    [low |-> [num |-> Quantile(s, 1, l.tail), den |-> l.tail * n],
     high |-> [num |-> Quantile(s, l.tail - 1, l.tail), den |-> l.tail * n]]

IsTango == flips # NoValue /\ threshold # NoValue
           /\ threshold.num # 0 /\ -threshold.den < threshold.num /\ threshold.num < threshold.den

Bootstrap ==
    /\ phase = "resample"
    /\ \E s \in [1..Resamples -> Drawn] :
        /\ \A i \in 1..(Resamples - 1) : s[i] <= s[i + 1]
        /\ effects' = s
        /\ interval' = [l \in Levels |-> IntervalAt(l, s)]
    /\ phase' = IF threshold = NoValue THEN "done" ELSE IF IsTango THEN "invert" ELSE "test"
    /\ UNCHANGED <<metricInputs, inversion, test>>

-----------------------------------------------------------------------------
(* Randomization of signs, and McNemar's test *)

Abs(x) == IF x < 0 THEN -x ELSE x

\* Differences from the null value, times its denominator.
Centered(null) == [i \in 1..n |-> differences[i] * null.den - null.num]

\* Signs for which the sum is as far from zero as the one observed.
Exceedances(c) ==
    {mask \in SUBSET (1..n) :
        Abs(Sum([i \in 1..n |-> IF i \in mask THEN c[i] ELSE -c[i]])) >= Abs(Sum(c))}

\* The plus-one estimate.
Simulated(k) == [num |-> k + 1, den |-> Resamples + 1]

SignRandomization(c) ==
    IF n <= ExactLimit
    THEN {[num |-> Cardinality(Exceedances(c)), den |-> 2^n]}
    ELSE {Simulated(k) : k \in 0..Resamples}

\* The binomial coefficients of m up to that of k, summed: as many as 1..m has
\* subsets of at most k elements.
Choices(m, k) == Cardinality({A \in SUBSET (1..m) : Cardinality(A) <= k})

\* Mutant: the observed count itself is left out of the tail.
McNemar_OpenTail(b, c) ==
    IF b + c = 0 THEN [num |-> 1, den |-> 1]
    ELSE LET smaller == IF b < c THEN b ELSE c
             tail == Choices(b + c, smaller - 1)
         IN [num |-> IF 2 * tail > 2^(b + c) THEN 2^(b + c) ELSE 2 * tail, den |-> 2^(b + c)]

McNemar(b, c) ==
    IF b + c = 0 THEN [num |-> 1, den |-> 1]
    ELSE LET smaller == IF b < c THEN b ELSE c
             tail == Choices(b + c, smaller)
         IN [num |-> IF 2 * tail > 2^(b + c) THEN 2^(b + c) ELSE 2 * tail, den |-> 2^(b + c)]

\* A margin of zero is tested exactly, one at the end of the range of a binary
\* effect or beyond it is not tested at all, a numeric one by its signs.
Test ==
    /\ phase = "test"
    /\ IF flips = NoValue
       THEN \E p \in SignRandomization(Centered(threshold)) :
               test' = [method |-> "paired-sign-randomization", p |-> p]
       ELSE test' = IF threshold.num = 0
                    THEN [method |-> "exact-mcnemar",
                          p |-> McNemar(flips.baseline_only, flips.candidate_only)]
                    ELSE NoValue
    /\ phase' = "done"
    /\ UNCHANGED <<metricInputs, effects, interval, inversion>>

-----------------------------------------------------------------------------
(* Tango's score test and its inversion *)

b_only == flips.baseline_only
c_only == flips.candidate_only
Effect == c_only - b_only

\* Coefficient b of the quadratic for the null d/q, times q.
CoefficientB(d, q) == -(b_only + c_only) * q + (2 * n - c_only + b_only) * d

\* The discriminant, times the square of q.
Discriminant(d, q) == CoefficientB(d, q) * CoefficientB(d, q) + 8 * n * b_only * d * (q - d)

\* x <= m * sqrt(square), without leaving the integers.
AtMostRoot(x, m, square) ==
    \/ x <= 0
    \/ LET whole == x \div m
           part == x % m
       IN \/ (whole + 1) * (whole + 1) <= square
          \/ /\ whole * whole <= square
             /\ (square - whole * whole) * m * m >= 2 * whole * part * m + part * part

\* abs(statistic) <= critical, both sides squared and multiplied out.
Accepts(d, q, l) ==
    LET numerator == Effect * q - n * d
    IN AtMostRoot(2 * numerator * numerator
                  + l.critical * (q * CoefficientB(d, q) - 2 * n * d * (q - d)),
                  l.critical * q, Discriminant(d, q))

\* Nulls are counted in units so small that every midpoint is a whole number.
Units == n * 2^Halvings

\* No inversion where every discordant pair, and every pair, is on one side.
IsExtreme(bound) == IF bound = "low" THEN b_only = n ELSE c_only = n

Support(bound) == IF bound = "low" THEN -Units ELSE Units

\* The bootstrap intervals are replaced, level by level, by inverted ones.
StartInversion ==
    /\ phase = "invert" /\ solving = NoValue
    /\ \E l \in Levels :
        /\ "den" \in DOMAIN interval[l].low
        /\ \A k \in Levels : k.tail < l.tail => "den" \notin DOMAIN interval[k].low
        /\ solving' = [level |-> l, bound |-> "low"]
    /\ inside' = IF IsExtreme("low") THEN Support("low") ELSE Effect * 2^Halvings
    /\ outside' = Support("low")
    /\ round' = 0
    /\ UNCHANGED <<metricInputs, phase, effects, interval, test>>

Midpoint == (inside + outside) \div 2

\* Mutant: an accepted null moves the outer end.
Halve_Exchanged ==
    /\ phase = "invert" /\ solving # NoValue
    /\ round < Halvings /\ inside # outside
    /\ IF ~Accepts(Midpoint, Units, solving.level)
       THEN inside' = Midpoint /\ UNCHANGED outside
       ELSE outside' = Midpoint /\ UNCHANGED inside
    /\ round' = round + 1
    /\ UNCHANGED <<metricInputs, phase, effects, interval, solving, test>>

Halve ==
    /\ phase = "invert" /\ solving # NoValue
    /\ round < Halvings /\ inside # outside
    /\ IF Accepts(Midpoint, Units, solving.level)
       THEN inside' = Midpoint /\ UNCHANGED outside
       ELSE outside' = Midpoint /\ UNCHANGED inside
    /\ round' = round + 1
    /\ UNCHANGED <<metricInputs, phase, effects, interval, solving, test>>

Solved == round = Halvings \/ inside = outside

\* After the lower bound the upper one, after the upper one the next level, and
\* after the last level the score test at the margin.
EndInversion ==
    /\ phase = "invert" /\ solving # NoValue /\ Solved
    /\ LET l == solving.level
           found == [inside |-> inside, outside |-> outside]
       IN IF solving.bound = "low"
          THEN /\ interval' = [interval EXCEPT ![l].low = found]
               /\ solving' = [level |-> l, bound |-> "high"]
               /\ inside' = IF IsExtreme("high") THEN Support("high") ELSE Effect * 2^Halvings
               /\ outside' = Support("high")
               /\ round' = 0
               /\ UNCHANGED <<phase, test>>
          ELSE /\ interval' = [interval EXCEPT ![l].high = found]
               /\ solving' = NoValue
               /\ UNCHANGED <<inside, outside, round>>
               /\ IF \E k \in Levels : k.tail > l.tail
                  THEN UNCHANGED <<phase, test>>
                  ELSE /\ test' = [method |-> "tango",
                                   accepted |-> {k \in Levels :
                                        Accepts(threshold.num, threshold.den, k)}]
                       /\ phase' = "done"
    /\ UNCHANGED <<metricInputs, effects>>

StatisticsNext == Bootstrap \/ Test \/ StartInversion \/ Halve \/ EndInversion

StatisticsSpec == StatisticsInit /\ [][StatisticsNext]_statisticsVars

-----------------------------------------------------------------------------
(* Properties *)

\* What a later reader takes for the bound: the middle of the last two nulls.
Bound(e) == IF "den" \in DOMAIN e THEN e ELSE [num |-> e.inside + e.outside, den |-> 2 * Units]

AtMost(x, y) == x.num * y.den <= y.num * x.den

\* binary_paired_evidence: the interval reported for a margin other than zero
\* holds exactly the null values that the reported score test does not reject,
\* to the precision of the inversion; the margin itself is judged alike by both.
IntervalInvertsTest ==
    (phase = "done" /\ IsTango) =>
        \A l \in Levels :
            LET low == interval[l].low
                high == interval[l].high
            IN /\ \A d \in (1 - Units)..(Units - 1) :
                    /\ (low.inside <= d /\ d <= high.inside) => Accepts(d, Units, l)
                    /\ (d <= low.outside \/ high.outside <= d) => ~Accepts(d, Units, l)
               /\ l \in test.accepted =>
                    /\ AtMost([num |-> low.outside, den |-> Units], threshold)
                    /\ AtMost(threshold, [num |-> high.outside, den |-> Units])
               /\ l \notin test.accepted =>
                    \/ ~AtMost([num |-> low.inside, den |-> Units], threshold)
                    \/ ~AtMost(threshold, [num |-> high.inside, den |-> Units])

\* _exact_mcnemar_p_value: McNemar's test is the sign test of this module for the
\* same pairs at a margin of zero, however many pairs are not discordant.
McNemarIsSignTest ==
    (test # NoValue /\ flips # NoValue /\ "p" \in DOMAIN test) =>
        LET sign == Cardinality(Exceedances(Centered([num |-> 0, den |-> 1])))
        IN test.p.num * 2^n = sign * test.p.den

\* HypothesisTestEvidence and ConfidenceInterval: a p-value is positive and at
\* most one, bounds are ordered, and an interval of a higher level contains that
\* of a lower one, since the gate takes the level of its step from all of them.
EvidenceIsCoherent ==
    phase = "done" =>
        /\ (test # NoValue /\ "p" \in DOMAIN test) => 0 < test.p.num /\ test.p.num <= test.p.den
        /\ \A k, l \in Levels :
            LET K == interval[k]
                L == interval[l]
            IN /\ AtMost(Bound(K.low), Bound(K.high))
               /\ k.tail < l.tail =>
                    AtMost(Bound(L.low), Bound(K.low)) /\ AtMost(Bound(K.high), Bound(L.high))
=============================================================================
