---------------------------- MODULE EvaluationProofs ----------------------------
(***************************************************************************)
(* The verdict and the evidence it rests on.  Holm's procedure as the gate *)
(* runs it is the closed test over the whole declared family, and the exit *)
(* code of the command is justified by it, for every family of rules,      *)
(* every policy and every evidence.  The evidence of one metric is         *)
(* coherent, McNemar's test is the sign test, and an inverted interval     *)
(* holds what the score test accepts, for every number of pairs, levels,   *)
(* resamples and halvings.                                                 *)
(***************************************************************************)
EXTENDS Gate, PairedStatistics, FiniteSetTheorems, WellFoundedInduction, TLAPS

-----------------------------------------------------------------------------
(* The gate *)

Adjusted == Tested \ Remaining

\* While the running maximum is within Alpha everything adjusted is rejected by
\* the closed test; once it is not, some intersection that holds all rules still
\* to come is kept, and with it all of them.
HolmInv ==
    /\ policy.method # Holm => \A r \in Rules : denominator[r] = 1
    /\ \A r \in Rules \ Tested : adjusted[r] = None
    /\ \A j \in Adjusted : adjusted[j] <= running
    /\ \A j \in Adjusted, r \in Remaining : P(j) <= P(r)
    /\ \A j \in Adjusted : adjusted[j] <= Alpha <=> IsRejected(j)
    /\ running > Alpha =>
         \E kept \in SUBSET Rules : Rules \ Adjusted \subseteq kept /\ ~RejectsIntersection(kept)

\* What has been decided so far follows from the evidence and the intervals.
DecisionInv ==
    /\ pc = "adjust" => decisions = [r \in Rules |-> None] /\ exit = None
    /\ pc # "adjust" => Remaining = {} /\ decisions = [r \in Rules |-> Decision(r, side[r])]
    /\ pc = "aggregate" => exit = None
    /\ pc \in {"report", "done"} =>
         IF critical /\ policy.block_on_any_critical_failure
           THEN status = "block"
           ELSE \E r \in Rules :
                  /\ \A other \in Rules : Severity[decisions[other]] <= Severity[decisions[r]]
                  /\ status = decisions[r]
    /\ pc = "report" => exit = None
    /\ pc = "done" => exit = IF Allowed THEN 0 ELSE ExitCodes[status]

IInv == TypeOK /\ HolmInv /\ DecisionInv

-----------------------------------------------------------------------------
(* Arithmetic and cardinalities *)

LEMMA ProductMonotone ==
    ASSUME NEW p \in Nat, NEW a \in Nat, NEW b \in Nat, a <= b
    PROVE  p * a <= p * b
OBVIOUS

LEMMA ProductMonotoneLeft ==
    ASSUME NEW p \in Nat, NEW q \in Nat, NEW a \in Nat, p <= q
    PROVE  p * a <= q * a
OBVIOUS

LEMMA FamilySizeType == FamilySize \in Nat /\ FamilySize >= 1
<1>1. Cardinality(Rules) \in Nat
  BY FS_CardinalityType, GateAssumption
<1>2. Cardinality(Rules) # 0
  BY FS_EmptySet, GateAssumption
<1> QED
  BY <1>1, <1>2 DEF FamilySize

\* A family of declared rules has a size.
LEMMA SubfamilySize ==
    ASSUME NEW family \in SUBSET Rules, NEW larger \in SUBSET Rules, family \subseteq larger
    PROVE  /\ Cardinality(family) \in Nat /\ Cardinality(larger) \in Nat
           /\ Cardinality(family) <= Cardinality(larger)
<1>1. IsFiniteSet(larger)
  BY FS_Subset, GateAssumption
<1>2. IsFiniteSet(family)
  BY FS_Subset, GateAssumption
<1> QED
  BY <1>1, <1>2, FS_Subset, FS_CardinalityType

\* The denominator of a step is the number of rules not adjusted yet.
LEMMA StepDenominatorCounts ==
    /\ StepDenominator = Cardinality(Rules \ Adjusted)
    /\ Remaining # {} => StepDenominator \in 1..FamilySize
<1>1. Rules \cap Adjusted = Adjusted
  BY DEF Adjusted, Tested
<1>2. Cardinality(Rules \ Adjusted) = Cardinality(Rules) - Cardinality(Rules \cap Adjusted)
  BY FS_Difference, GateAssumption
<1>3. StepDenominator = Cardinality(Rules \ Adjusted)
  BY <1>1, <1>2 DEF StepDenominator, FamilySize, Adjusted
<1>4. ASSUME Remaining # {} PROVE StepDenominator \in 1..FamilySize
  <2>1. Rules \ Adjusted # {}
    BY <1>4 DEF Adjusted, Remaining, Tested
  <2>2. IsFiniteSet(Rules \ Adjusted)
    BY FS_Subset, GateAssumption
  <2>3. Cardinality(Rules \ Adjusted) # 0
    BY <2>1, <2>2, FS_EmptySet
  <2> QED
    BY <1>3, <2>3, SubfamilySize, Rules \ Adjusted \in SUBSET Rules, Rules \in SUBSET Rules
    DEF FamilySize
<1> QED
  BY <1>3, <1>4

\* A tested rule has a p-value.
LEMMA PValueType ==
    ASSUME TypeOK, NEW r \in Tested
    PROVE  r \in Rules /\ P(r) \in Nat /\ P(r) <= Scale /\ policy.method = Holm
<1>1. r \in Rules /\ policy.method = Holm /\ Preliminary(r) = None
  BY DEF Tested
<1>2. "error" # None
  BY NoneAssumption DEF Statuses
<1>3. evidence[r] # None /\ (evidence[r] \in Estimates \/ evidence[r] = None)
  BY <1>1, <1>2 DEF Preliminary, TypeOK
<1>4. policy.insufficient_evidence_status # None
  BY NoneAssumption, GateAssumption DEF TypeOK, PolicyType, Statuses
<1>5. "insufficient_power" # None
  BY NoneAssumption DEF Statuses
<1>6. evidence[r].test # NoTest
  BY <1>1, <1>2, <1>3, <1>4, <1>5 DEF Preliminary
<1>7. evidence[r].test \in PValues
  BY <1>3, <1>6 DEF Estimates
<1>8. \A p \in PValues : p \in Nat /\ p <= Scale
  BY GateAssumption
<1>9. P(r) \in PValues
  BY <1>7 DEF P
<1> QED
  BY <1>1, <1>8, <1>9

LEMMA RunningType ==
    ASSUME TypeOK, NEW r \in Remaining
    PROVE  /\ Running(r) \in 0..Scale /\ running <= Running(r)
           /\ Running(r) <= Alpha <=> (running <= Alpha /\ P(r) * StepDenominator <= Alpha)
<1>1. P(r) \in Nat
  BY PValueType DEF Remaining
<1>2. StepDenominator \in Nat
  BY StepDenominatorCounts, FamilySizeType
<1>3. StepDenominator * P(r) = P(r) * StepDenominator /\ StepDenominator * P(r) \in Nat
  BY <1>1, <1>2
<1> DEFINE product == StepDenominator * P(r)
<1> HIDE DEF product
<1>4. product \in Nat /\ product = P(r) * StepDenominator
  BY <1>3 DEF product
<1>5. Running(r) = Larger(running, IF product < Scale THEN product ELSE Scale)
  BY DEF Running, product
<1> QED
  BY <1>4, <1>5, GateAssumption DEF Larger, TypeOK

-----------------------------------------------------------------------------
(* Holm's procedure *)

\* The evidence and the policy stay, and so does all that depends on nothing else.
LEMMA InputsKept ==
    ASSUME inputs' = inputs
    PROVE  /\ \A r \in Rules : Preliminary(r)' = Preliminary(r) /\ P(r)' = P(r)
           /\ Tested' = Tested
           /\ \A family \in SUBSET Rules : RejectsIntersection(family)' <=> RejectsIntersection(family)
           /\ \A r \in Rules : IsRejected(r)' <=> IsRejected(r)
<1>1. \A r \in Rules : Preliminary(r)' = Preliminary(r) /\ P(r)' = P(r)
  BY DEF inputs, Preliminary, P
<1>2. Tested' = Tested
  BY <1>1 DEF inputs, Tested
<1>3. \A family \in SUBSET Rules : RejectsIntersection(family)' <=> RejectsIntersection(family)
  BY <1>1, <1>2 DEF RejectsIntersection, Tested
<1>4. \A r \in Rules : IsRejected(r)' <=> IsRejected(r)
  BY <1>3 DEF IsRejected
<1> QED
  BY <1>1, <1>2, <1>3, <1>4

\* If the running maximum stays within Alpha the closed test rejects the rule
\* just adjusted: an intersection with an adjusted rule is rejected by that one,
\* any other is no larger than the denominator of the step.
LEMMA WithinAlpha ==
    ASSUME TypeOK, HolmInv, NEW r \in Remaining, Running(r) <= Alpha
    PROVE  IsRejected(r)
<1> SUFFICES ASSUME NEW family \in SUBSET Rules, r \in family
             PROVE  RejectsIntersection(family)
  BY DEF IsRejected
<1>1. running <= Alpha /\ P(r) * StepDenominator <= Alpha
  BY RunningType
<1>2. CASE \E j \in family : j \in Adjusted
  <2>1. PICK j \in family : j \in Adjusted
    BY <1>2
  <2>2. adjusted[j] \in 0..Scale
    BY <2>1 DEF Adjusted, Remaining, Tested, TypeOK
  <2>3. adjusted[j] <= running
    BY <2>1 DEF HolmInv
  <2>4. adjusted[j] <= Alpha
    BY <1>1, <2>2, <2>3, GateAssumption DEF TypeOK
  <2>5. IsRejected(j)
    BY <2>1, <2>4 DEF HolmInv
  <2> QED
    BY <2>1, <2>5 DEF IsRejected
<1>3. CASE \A j \in family : j \notin Adjusted
  <2>1. Cardinality(family) \in Nat /\ StepDenominator \in Nat
        /\ Cardinality(family) <= StepDenominator
    BY <1>3, SubfamilySize, StepDenominatorCounts, Rules \ Adjusted \in SUBSET Rules,
       family \subseteq Rules \ Adjusted
  <2>2. P(r) \in Nat /\ r \in Tested
    BY PValueType DEF Remaining
  <2>3. P(r) * Cardinality(family) <= P(r) * StepDenominator
    BY <2>1, <2>2, ProductMonotone
  <2>4. P(r) * Cardinality(family) \in Nat /\ P(r) * StepDenominator \in Nat
    BY <2>1, <2>2
  <2>5. P(r) * Cardinality(family) <= Alpha
    BY <1>1, <2>3, <2>4, GateAssumption
  <2> QED
    BY <2>2, <2>5 DEF RejectsIntersection
<1> QED
  BY <1>2, <1>3

\* Once it exceeds Alpha an intersection of everything still to come is kept.
LEMMA BeyondAlpha ==
    ASSUME TypeOK, HolmInv, NEW r \in Remaining, Running(r) > Alpha,
           \A s \in Remaining \ {r} : Before(r, s)
    PROVE  \E kept \in SUBSET Rules : Rules \ Adjusted \subseteq kept /\ ~RejectsIntersection(kept)
<1>1. CASE running > Alpha
  BY <1>1 DEF HolmInv
<1>2. CASE running <= Alpha
  <2> DEFINE kept == Rules \ Adjusted
  <2>1. ~(P(r) * StepDenominator <= Alpha)
    BY <1>2, RunningType, GateAssumption
  <2>2. StepDenominator = Cardinality(kept) /\ StepDenominator \in Nat
    BY StepDenominatorCounts, FamilySizeType
  <2>3. ASSUME NEW s \in kept \cap Tested
        PROVE  ~(P(s) * Cardinality(kept) <= Alpha)
    <3>1. s \in Remaining
      BY <2>3 DEF Adjusted
    <3>2. P(s) \in Nat /\ P(r) \in Nat
      BY <2>3, PValueType DEF Remaining
    <3>3. P(r) <= P(s)
      BY <3>1, <3>2 DEF Before
    <3>4. P(r) * StepDenominator <= P(s) * StepDenominator
      BY <2>2, <3>2, <3>3, ProductMonotoneLeft
    <3>5. P(r) * StepDenominator \in Nat /\ P(s) * StepDenominator \in Nat
      BY <2>2, <3>2
    <3> HIDE DEF kept
    <3> QED
      BY <2>1, <2>2, <3>4, <3>5, GateAssumption
  <2>4. ~RejectsIntersection(kept)
    BY <2>3 DEF RejectsIntersection
  <2> QED
    BY <2>4
<1> QED
  BY <1>1, <1>2, GateAssumption DEF TypeOK

\* What one adjustment changes.
LEMMA AdjustEffect ==
    ASSUME TypeOK, NEW r \in Rules, Adjust(r)
    PROVE  /\ inputs' = inputs
           /\ adjusted' = [adjusted EXCEPT ![r] = Running(r)]
           /\ Running(r) \in 0..Scale /\ Running(r) # None
           /\ Remaining' = Remaining \ {r}
           /\ Adjusted' = Adjusted \cup {r}
           /\ \A j \in Adjusted : j # r /\ adjusted'[j] = adjusted[j]
<1>1. inputs' = inputs /\ r \in Remaining /\ adjusted' = [adjusted EXCEPT ![r] = Running(r)]
  BY DEF Adjust, inputs
<1>2. Running(r) \in 0..Scale
  BY <1>1, RunningType
<1>3. Running(r) # None
  <2>1. 0..Scale \subseteq Nat
    BY GateAssumption
  <2> QED
    BY <1>2, <2>1, NoneAssumption
<1>4. Tested' = Tested
  BY <1>1, InputsKept
<1>5. Remaining' = Remaining \ {r}
  BY <1>1, <1>3, <1>4 DEF Remaining, TypeOK, Tested
<1>6. Adjusted' = Adjusted \cup {r}
  BY <1>1, <1>4, <1>5 DEF Adjusted, Remaining
<1>7. \A j \in Adjusted : j # r /\ adjusted'[j] = adjusted[j]
  BY <1>1 DEF Adjusted, Tested, TypeOK
<1> QED
  BY <1>1, <1>2, <1>3, <1>5, <1>6, <1>7

LEMMA HolmStep ==
    ASSUME TypeOK, HolmInv, NEW r \in Rules, Adjust(r)
    PROVE  HolmInv'
<1>1. r \in Remaining /\ r \in Tested /\ running' = Running(r)
      /\ \A s \in Remaining \ {r} : Before(r, s)
  BY DEF Adjust, Remaining
<1>2. inputs' = inputs /\ Tested' = Tested
  BY AdjustEffect, InputsKept
<1>3. running <= Running(r) /\ Running(r) \in 0..Scale
  BY <1>1, RunningType
<1>4. \A s \in Rules \ Tested' : adjusted'[s] = None
  BY <1>1, <1>2, AdjustEffect DEF HolmInv, TypeOK
<1>5. \A j \in Adjusted : adjusted[j] \in 0..Scale /\ j \in Rules
  BY DEF Adjusted, Remaining, Tested, TypeOK
<1>6. adjusted'[r] = Running(r)
  BY AdjustEffect DEF TypeOK
<1>7. \A j \in Adjusted' : adjusted'[j] <= running'
  <2>1. \A j \in Adjusted : adjusted[j] <= running
    BY DEF HolmInv
  <2> QED
    BY <1>1, <1>3, <1>5, <1>6, <2>1, AdjustEffect, GateAssumption DEF TypeOK
<1>8. \A j \in Adjusted', s \in Remaining' : P(j)' <= P(s)'
  <2> SUFFICES ASSUME NEW j \in Adjusted \cup {r}, NEW s \in Remaining \ {r}
               PROVE  P(j)' <= P(s)'
    BY AdjustEffect
  <2>1. P(j)' = P(j) /\ P(s)' = P(s)
    BY <1>2, InputsKept DEF Adjusted, Remaining, Tested
  <2>2. CASE j = r
    <3>1. P(r) \in Nat /\ P(s) \in Nat
      BY <1>1, PValueType DEF Remaining
    <3> QED
      BY <1>1, <2>1, <2>2, <3>1 DEF Before
  <2>3. CASE j # r
    BY <2>1, <2>3 DEF HolmInv
  <2> QED
    BY <2>2, <2>3
<1>9. \A j \in Adjusted' : adjusted'[j] <= Alpha <=> IsRejected(j)'
  <2> SUFFICES ASSUME NEW j \in Adjusted \cup {r}
               PROVE  adjusted'[j] <= Alpha <=> IsRejected(j)'
    BY AdjustEffect
  <2>1. IsRejected(j)' <=> IsRejected(j)
    BY <1>2, InputsKept DEF Adjusted, Tested
  <2>2. CASE j # r
    BY <2>1, <2>2, AdjustEffect DEF HolmInv
  <2>3. CASE j = r /\ Running(r) <= Alpha
    <3>1. IsRejected(r)
      BY <1>1, <2>3, WithinAlpha
    <3> QED
      BY <1>6, <2>1, <2>3, <3>1
  <2>4. CASE j = r /\ Running(r) > Alpha
    <3>1. PICK kept \in SUBSET Rules :
            Rules \ Adjusted \subseteq kept /\ ~RejectsIntersection(kept)
      BY <1>1, <2>4, BeyondAlpha
    <3>2. r \in kept
      BY <1>1, <3>1 DEF Adjusted
    <3>3. ~IsRejected(r)
      BY <3>1, <3>2 DEF IsRejected
    <3> QED
      BY <1>3, <1>6, <2>1, <2>4, <3>3, GateAssumption
  <2> QED
    BY <1>3, <2>2, <2>3, <2>4, GateAssumption
<1>10. running' > Alpha =>
         \E kept \in SUBSET Rules : Rules \ Adjusted' \subseteq kept /\ ~RejectsIntersection(kept)'
  <2> SUFFICES ASSUME Running(r) > Alpha
               PROVE  \E kept \in SUBSET Rules :
                        Rules \ Adjusted' \subseteq kept /\ ~RejectsIntersection(kept)'
    BY <1>1
  <2>1. PICK kept \in SUBSET Rules :
          Rules \ Adjusted \subseteq kept /\ ~RejectsIntersection(kept)
    BY <1>1, BeyondAlpha
  <2>2. ~RejectsIntersection(kept)'
    BY <1>2, <2>1, InputsKept
  <2>3. Rules \ Adjusted' \subseteq kept
    BY <2>1, AdjustEffect
  <2> QED
    BY <2>2, <2>3
<1>11. policy.method = Holm /\ policy' = policy
  BY <1>1, <1>2, PValueType DEF inputs
<1> QED
  BY <1>4, <1>7, <1>8, <1>9, <1>10, <1>11 DEF HolmInv

-----------------------------------------------------------------------------
(* Types and decisions *)

LEMMA SeverityValues ==
    /\ Severity["pass"] = 0 /\ Severity["warn"] = 1 /\ Severity["insufficient_power"] = 2
    /\ Severity["block"] = 3 /\ Severity["error"] = 4
BY DEF Severity

LEMMA ExitCodeValues ==
    /\ ExitCodes["pass"] = 3 /\ ExitCodes["block"] = 2 /\ ExitCodes["error"] = 3
    /\ ExitCodes["warn"] = 4 /\ ExitCodes["insufficient_power"] = 4
BY DEF ExitCodes

LEMMA DecisionType ==
    ASSUME TypeOK, NEW r \in Rules, NEW position
    PROVE  Decision(r, position) \in Statuses
<1>1. policy.insufficient_evidence_status \in Statuses
  BY GateAssumption DEF TypeOK, PolicyType, Statuses
<1>2. Preliminary(r) # None => Preliminary(r) \in Statuses
  BY <1>1 DEF Preliminary, Statuses
<1> QED
  BY <1>2 DEF Decision, Statuses

LEMMA InitInv == Init => IInv
<1> SUFFICES ASSUME Init PROVE IInv
  OBVIOUS
<1>1. TypeOK
  BY GateAssumption, FamilySizeType DEF Init, TypeOK, Sides
<1>2. Adjusted = {}
  BY DEF Init, Adjusted, Remaining, Tested
<1>3. HolmInv
  BY <1>2, GateAssumption DEF Init, HolmInv
<1>4. DecisionInv
  BY DEF Init, DecisionInv
<1> QED
  BY <1>1, <1>3, <1>4 DEF IInv

LEMMA AdjustKeepsInv ==
    ASSUME IInv, NEW r \in Rules, Adjust(r)
    PROVE  IInv'
<1> USE DEF IInv
<1>1. HolmInv'
  BY HolmStep
<1>2. r \in Remaining /\ StepDenominator \in 1..FamilySize
  BY StepDenominatorCounts DEF Adjust
<1>3. TypeOK'
  BY <1>2, AdjustEffect DEF Adjust, TypeOK, inputs
<1>4. DecisionInv'
  BY DEF Adjust, DecisionInv
<1> QED
  BY <1>1, <1>3, <1>4

\* Whoever leaves the inputs and the adjustments alone keeps HolmInv.
LEMMA HolmInvKept ==
    ASSUME HolmInv, UNCHANGED <<inputs, adjusted, denominator, running>>
    PROVE  HolmInv' /\ Remaining' = Remaining
<1>1. Tested' = Tested /\ \A r \in Rules : P(r)' = P(r) /\ (IsRejected(r)' <=> IsRejected(r))
  BY InputsKept
<1>2. \A family \in SUBSET Rules : RejectsIntersection(family)' <=> RejectsIntersection(family)
  BY InputsKept
<1>3. Remaining' = Remaining /\ Adjusted' = Adjusted
  BY <1>1 DEF Remaining, Adjusted
<1>4. Adjusted \subseteq Rules /\ Remaining \subseteq Rules
  BY DEF Adjusted, Remaining, Tested
<1> QED
  BY <1>1, <1>2, <1>3, <1>4 DEF HolmInv, inputs

LEMMA DecideKeepsInv ==
    ASSUME IInv, Decide
    PROVE  IInv'
<1> USE DEF IInv
<1>1. HolmInv' /\ Remaining' = {}
  BY HolmInvKept DEF Decide
<1>2. \A r \in Rules : side'[r] \in Sides
  BY DEF Decide
<1>3. decisions' \in [Rules -> Statuses \cup {None}]
  BY DecisionType DEF Decide
<1>4. TypeOK'
  BY <1>3 DEF Decide, TypeOK, inputs
<1>5. \A r \in Rules : Decision(r, side[r])' = Decision(r, side'[r])
  BY InputsKept DEF Decide, Decision, Decisive, ComputedDenominators, inputs
<1>6. decisions' = [r \in Rules |-> Decision(r, side[r])']
  BY <1>5 DEF Decide
<1>7. pc' = "aggregate" /\ exit' = None
  BY DEF Decide, DecisionInv
<1>8. DecisionInv'
  BY <1>1, <1>6, <1>7 DEF DecisionInv
<1> QED
  BY <1>1, <1>4, <1>8

\* What the last two steps keep of what was decided.
LEMMA DecisionsKept ==
    ASSUME UNCHANGED <<inputs, adjusted, denominator, side, decisions>>,
           decisions = [r \in Rules |-> Decision(r, side[r])]
    PROVE  decisions' = [r \in Rules |-> Decision(r, side[r])']
<1>1. \A r \in Rules : Decision(r, side[r])' = Decision(r, side[r])
  BY InputsKept DEF Decision, Decisive, ComputedDenominators, inputs
<1> QED
  BY <1>1

LEMMA AggregateKeepsInv ==
    ASSUME IInv, Aggregate
    PROVE  IInv'
<1> USE DEF IInv
<1>1. HolmInv' /\ Remaining' = {}
  BY HolmInvKept DEF Aggregate, DecisionInv
<1>2. decisions' = [r \in Rules |-> Decision(r, side[r])']
  BY DecisionsKept DEF Aggregate, DecisionInv
<1>3. \A r \in Rules : decisions[r] \in Statuses
  BY DecisionType DEF Aggregate, DecisionInv
<1>4. status' \in Statuses
  BY <1>3 DEF Aggregate, Statuses
<1>5. TypeOK'
  BY <1>4 DEF Aggregate, TypeOK, inputs
<1>6. pc' = "report" /\ exit' = None
  BY DEF Aggregate, DecisionInv
<1>7. (IF critical /\ policy.block_on_any_critical_failure
         THEN status = "block"
         ELSE \E r \in Rules :
                /\ \A other \in Rules : Severity[decisions[other]] <= Severity[decisions[r]]
                /\ status = decisions[r])'
  BY DEF Aggregate, inputs
<1>8. DecisionInv'
  BY <1>1, <1>2, <1>6, <1>7 DEF DecisionInv
<1> QED
  BY <1>1, <1>5, <1>8

LEMMA ReportKeepsInv ==
    ASSUME IInv, Report
    PROVE  IInv'
<1> USE DEF IInv
<1>1. HolmInv' /\ Remaining' = {}
  BY HolmInvKept DEF Report, DecisionInv
<1>2. decisions' = [r \in Rules |-> Decision(r, side[r])']
  BY DecisionsKept DEF Report, DecisionInv
<1>3. \A r \in Rules : decisions[r] \in Statuses
  BY DecisionType DEF Report, DecisionInv
<1>4. status \in Statuses
  BY <1>3 DEF Report, DecisionInv, Statuses
<1>5. exit' \in {0, 2, 3, 4}
  BY <1>4, ExitCodeValues DEF Report, Statuses
<1>6. TypeOK'
  BY <1>5 DEF Report, TypeOK, inputs
<1>7. pc' = "done" /\ exit' = IF Allowed' THEN 0 ELSE ExitCodes[status']
  BY DEF Report, Allowed, inputs
<1>8. (IF critical /\ policy.block_on_any_critical_failure
         THEN status = "block"
         ELSE \E r \in Rules :
                /\ \A other \in Rules : Severity[decisions[other]] <= Severity[decisions[r]]
                /\ status = decisions[r])'
  BY DEF Report, DecisionInv, inputs
<1>9. DecisionInv'
  BY <1>1, <1>2, <1>7, <1>8 DEF DecisionInv
<1> QED
  BY <1>1, <1>6, <1>9

\* The inductive invariant holds in every reachable state.
THEOREM Invariance == Spec => []IInv
<1>1. Init => IInv
  BY InitInv
<1>2. ASSUME IInv, [Next]_vars PROVE IInv'
  <2>1. CASE \E r \in Rules : Adjust(r)
    BY <1>2, <2>1, AdjustKeepsInv
  <2>2. CASE Decide
    BY <1>2, <2>2, DecideKeepsInv
  <2>3. CASE Aggregate
    BY <1>2, <2>3, AggregateKeepsInv
  <2>4. CASE Report
    BY <1>2, <2>4, ReportKeepsInv
  <2>5. CASE UNCHANGED vars
    <3>1. HolmInv' /\ Remaining' = Remaining
      BY <1>2, <2>5, HolmInvKept DEF vars, IInv
    <3>2. TypeOK'
      BY <1>2, <2>5 DEF vars, inputs, IInv, TypeOK
    <3>3. pc # "adjust" => decisions' = [r \in Rules |-> Decision(r, side[r])']
      BY <1>2, <2>5, DecisionsKept DEF vars, IInv, DecisionInv
    <3>4. DecisionInv'
      BY <1>2, <2>5, <3>1, <3>3 DEF vars, inputs, IInv, DecisionInv, Allowed
    <3> QED
      BY <3>1, <3>2, <3>4 DEF IInv
  <2> QED
    BY <1>2, <2>1, <2>2, <2>3, <2>4, <2>5 DEF Next
<1> QED
  BY <1>1, <1>2, PTL DEF Spec

\* Every reachable state of the gate is well typed: no adjusted p-value exceeds
\* one and no step alpha is divided by zero.
THEOREM TypeCorrect == Spec => []TypeOK
BY Invariance, PTL DEF IInv

-----------------------------------------------------------------------------
(* What the decisions rest on *)

\* For every family of rules and every evidence, a rule is decisive exactly when
\* the closed test over the whole declared family rejects its hypothesis.
THEOREM ClosedTesting == Spec => []HolmIsClosedTesting
<1>1. ASSUME IInv PROVE HolmIsClosedTesting
  BY <1>1 DEF IInv, HolmInv, Adjusted, Remaining, HolmIsClosedTesting
<1> QED
  BY <1>1, Invariance, PTL

\* A rule that was screened without objection is judged by its interval and by
\* the closed test.
LEMMA JudgedByInterval ==
    ASSUME IInv, pc # "adjust", NEW r \in Rules, Preliminary(r) = None
    PROVE  /\ decisions[r] = "pass" => IsConclusive(r, "passes")
           /\ decisions[r] = "block" =>
                IsConclusive(r, "violates") /\ policy.block_on_violation[r]
           /\ IsConclusive(r, "violates") /\ policy.block_on_violation[r] => decisions[r] = "block"
           /\ decisions[r] \in {"pass", "block", "warn"}
<1> USE DEF IInv
<1>1. decisions[r] = Decision(r, side[r]) /\ Remaining = {}
  BY DEF DecisionInv
<1>2. denominator[r] \in ComputedDenominators
  BY FamilySizeType DEF ComputedDenominators, TypeOK, HolmInv
<1>3. Decisive(r) <=> (policy.method = Holm => IsRejected(r))
  <2>1. CASE policy.method = Holm
    <3>1. r \in Adjusted
      BY <1>1, <2>1 DEF Adjusted, Tested
    <3> QED
      BY <2>1, <3>1 DEF HolmInv, Decisive
  <2>2. CASE policy.method # Holm
    BY <2>2 DEF Decisive
  <2> QED
    BY <2>1, <2>2
<1> QED
  BY <1>1, <1>2, <1>3 DEF Decision, IsConclusive

\* What screening objects to.
LEMMA Screened ==
    ASSUME TypeOK, NEW r \in Rules
    PROVE  /\ evidence[r] = None => Preliminary(r) = "error"
           /\ (evidence[r] # None /\ evidence[r].few_pairs) =>
                Preliminary(r) = policy.insufficient_evidence_status
           /\ (evidence[r] # None /\ ~evidence[r].few_pairs /\ evidence[r].coarse) =>
                Preliminary(r) = "insufficient_power"
           /\ (evidence[r] # None /\ ~evidence[r].few_pairs /\ ~evidence[r].coarse) =>
                /\ Preliminary(r) \in {"error", None}
                /\ (policy.method = Holm /\ evidence[r].test = NoTest) => Preliminary(r) = "error"
           /\ policy.insufficient_evidence_status \in {"insufficient_power", "warn", "error"}
           /\ {"insufficient_power", "warn", "error"} \cap {None} = {}
<1>1. policy.insufficient_evidence_status \in {"insufficient_power", "warn", "error"}
  BY GateAssumption DEF TypeOK, PolicyType
<1>2. {"insufficient_power", "warn", "error"} \cap {None} = {}
  BY NoneAssumption DEF Statuses
<1> QED
  BY <1>1, <1>2 DEF Preliminary

\* A decision made in screening stands.
LEMMA ScreenedStands ==
    ASSUME IInv, pc # "adjust", NEW r \in Rules, Preliminary(r) # None
    PROVE  decisions[r] = Preliminary(r)
BY DEF IInv, DecisionInv, Decision

\* The interval of whatever level the gate selects has been computed, whatever
\* the number of rules and however they rank.
THEOREM SelectedInterval == Spec => []SelectedIntervalExists
<1>1. ASSUME IInv PROVE SelectedIntervalExists
  <2> SUFFICES ASSUME NEW r \in Rules, decisions[r] = "error"
               PROVE  Preliminary(r) = "error"
    BY DEF SelectedIntervalExists
  <2>1. "error" # None
    BY NoneAssumption DEF Statuses
  <2>2. pc # "adjust"
    BY <1>1, <2>1 DEF IInv, DecisionInv
  <2>3. Preliminary(r) # None
    BY <1>1, <2>2, JudgedByInterval
  <2> QED
    BY <1>1, <2>2, <2>3, ScreenedStands
<1> QED
  BY <1>1, Invariance, PTL

\* A run of the command that exits did so on a status of a rule or of a critical
\* failure.
LEMMA ExitStatus ==
    ASSUME IInv, exit # None
    PROVE  /\ pc = "done" /\ status \in Statuses
           /\ exit = 0 <=> Allowed
           /\ exit = 2 => status = "block"
<1> USE DEF IInv
<1>1. pc = "done"
  BY DEF TypeOK, DecisionInv
<1>2. \A r \in Rules : decisions[r] \in Statuses
  BY <1>1, DecisionType DEF DecisionInv
<1>3. status \in Statuses
  BY <1>1, <1>2 DEF DecisionInv, Statuses
<1>4. exit = IF Allowed THEN 0 ELSE ExitCodes[status]
  BY <1>1 DEF DecisionInv
<1>5. ExitCodes[status] \in {2, 3, 4} /\ (ExitCodes[status] = 2 => status = "block")
  BY <1>3, ExitCodeValues DEF Statuses
<1> QED
  BY <1>1, <1>3, <1>4, <1>5

\* No rule of an allowed release was decided worse than WARN, nor worse than the
\* status.
LEMMA AllowedDecisions ==
    ASSUME IInv, exit = 0, NEW r \in Rules
    PROVE  /\ pc # "adjust"
           /\ ~(critical /\ policy.block_on_any_critical_failure)
           /\ decisions[r] = "pass" \/ (decisions[r] = "warn" /\ policy.allow_warn)
<1>1. exit # None
  BY NoneAssumption
<1>2. pc = "done" /\ Allowed
  BY <1>1, ExitStatus
<1>3. status \in {"pass", "warn"} /\ (status = "warn" => policy.allow_warn)
  BY <1>2 DEF Allowed
<1>4. ~(critical /\ policy.block_on_any_critical_failure)
  BY <1>2, <1>3 DEF IInv, DecisionInv
<1>5. PICK s \in Rules : /\ \A other \in Rules : Severity[decisions[other]] <= Severity[decisions[s]]
                         /\ status = decisions[s]
  BY <1>2, <1>4 DEF IInv, DecisionInv
<1>6. decisions[r] \in Statuses
  BY <1>2, DecisionType DEF IInv, DecisionInv
<1>7. Severity[decisions[r]] <= Severity[status]
  BY <1>5
<1>8. CASE status = "pass"
  BY <1>2, <1>4, <1>6, <1>7, <1>8, SeverityValues DEF Statuses
<1>9. CASE status = "warn"
  BY <1>2, <1>3, <1>4, <1>6, <1>7, <1>9, SeverityValues DEF Statuses
<1> QED
  BY <1>3, <1>8, <1>9

\* The exit code 0 is justified, for every policy, family and evidence: no rule
\* lacks evidence, a test or power, and none that blocks is violated.
THEOREM AllowedJustified == Spec => []AllowedIsJustified
<1>1. ASSUME IInv PROVE AllowedIsJustified
  <2> SUFFICES ASSUME exit = 0
               PROVE  /\ ~(critical /\ policy.block_on_any_critical_failure)
                      /\ \A r \in Rules :
                           /\ evidence[r] # None
                           /\ IF evidence[r].few_pairs
                                THEN policy.insufficient_evidence_status = "warn" /\ policy.allow_warn
                                ELSE /\ ~evidence[r].coarse
                                     /\ policy.method = Holm => evidence[r].test # NoTest
                                     /\ ~(IsConclusive(r, "violates") /\ policy.block_on_violation[r])
                                     /\ IsConclusive(r, "passes") \/ policy.allow_warn
    BY DEF AllowedIsJustified
  <2>1. \A r \in Rules : /\ pc # "adjust"
                         /\ decisions[r] = "pass" \/ (decisions[r] = "warn" /\ policy.allow_warn)
    BY <1>1, AllowedDecisions
  <2>2. ~(critical /\ policy.block_on_any_critical_failure)
    BY <1>1, AllowedDecisions, GateAssumption
  <2>3. ASSUME NEW r \in Rules
        PROVE  /\ evidence[r] # None
               /\ IF evidence[r].few_pairs
                    THEN policy.insufficient_evidence_status = "warn" /\ policy.allow_warn
                    ELSE /\ ~evidence[r].coarse
                         /\ policy.method = Holm => evidence[r].test # NoTest
                         /\ ~(IsConclusive(r, "violates") /\ policy.block_on_violation[r])
                         /\ IsConclusive(r, "passes") \/ policy.allow_warn
    <3>1. TypeOK
      BY <1>1 DEF IInv
    <3>2. CASE Preliminary(r) = None
      <4>1. /\ decisions[r] = "pass" => IsConclusive(r, "passes")
            /\ IsConclusive(r, "violates") /\ policy.block_on_violation[r] => decisions[r] = "block"
        BY <1>1, <2>1, <3>2, JudgedByInterval
      <4> QED
        BY <2>1, <3>1, <3>2, <4>1, Screened
    <3>3. CASE Preliminary(r) # None
      <4>1. decisions[r] = Preliminary(r)
        BY <1>1, <2>1, <3>3, ScreenedStands
      <4> QED
        BY <2>1, <3>1, <3>3, <4>1, Screened
    <3> QED
      BY <3>2, <3>3
  <2> QED
    BY <2>2, <2>3
<1> QED
  BY <1>1, Invariance, PTL

\* The exit code 2 is justified likewise: a release is blocked for a critical
\* failure or for a conclusive violation, never for lack of evidence.
THEOREM BlockJustified == Spec => []BlockIsJustified
<1>1. ASSUME IInv PROVE BlockIsJustified
  <2> SUFFICES ASSUME exit = 2, ~(critical /\ policy.block_on_any_critical_failure)
               PROVE  \E r \in Rules : IsConclusive(r, "violates") /\ policy.block_on_violation[r]
    BY DEF BlockIsJustified
  <2>1. exit # None
    BY NoneAssumption
  <2>2. pc = "done" /\ status = "block"
    BY <1>1, <2>1, ExitStatus
  <2>3. PICK r \in Rules : decisions[r] = "block"
    BY <1>1, <2>2 DEF IInv, DecisionInv
  <2>4. TypeOK
    BY <1>1 DEF IInv
  <2>5. Preliminary(r) = None
    <3>1. SUFFICES ASSUME Preliminary(r) # None PROVE FALSE
      OBVIOUS
    <3>2. decisions[r] = Preliminary(r)
      BY <1>1, <2>2, <3>1, ScreenedStands
    <3> QED
      BY <2>3, <2>4, <3>1, <3>2, Screened
  <2>6. IsConclusive(r, "violates") /\ policy.block_on_violation[r]
    BY <1>1, <2>2, <2>3, <2>5, JudgedByInterval
  <2> QED
    BY <2>6
<1> QED
  BY <1>1, Invariance, PTL

-----------------------------------------------------------------------------
(* Sums and powers *)

\* A nonempty set of natural numbers has a least element.
LEMMA LeastNatural ==
    ASSUME NEW S, S \subseteq Nat, S # {}
    PROVE  \E m \in S : \A x \in S : m <= x
<1> DEFINE Below == {0..x : x \in S}
<1>1. Below \in SUBSET FiniteSubsetsOf(Nat) /\ Below # {}
  <2>1. ASSUME NEW x \in S PROVE 0..x \in FiniteSubsetsOf(Nat)
    BY FS_Interval DEF FiniteSubsetsOf
  <2> QED
    BY <2>1
<1>2. PICK B \in Below : \A C \in Below : <<C, B>> \notin StrictSubsetOrdering(Nat)
  <2> HIDE DEF Below
  <2> QED
    BY <1>1, FS_StrictSubsetOrderingWellFounded, WFMin
<1>3. PICK m \in S : B = 0..m
  OBVIOUS
<1>4. ASSUME NEW x \in S PROVE m <= x
  <2> SUFFICES ASSUME x < m PROVE FALSE
    OBVIOUS
  <2>1. 0..x \subseteq 0..m /\ 0..x # 0..m
    OBVIOUS
  <2>2. <<0..x, B>> \in StrictSubsetOrdering(Nat)
    BY <1>3, <2>1 DEF StrictSubsetOrdering
  <2> QED
    BY <1>2, <2>2
<1> QED
  BY <1>4

\* Up to a number everything holds that holds at zero and at the next number.
LEMMA UpTo ==
    ASSUME NEW m \in Nat, NEW S, 0 \in S, \A i \in 0..m : i \in S /\ i < m => i + 1 \in S
    PROVE  \A i \in 0..m : i \in S
<1> SUFFICES ASSUME NEW j \in 0..m, j \notin S PROVE FALSE
  OBVIOUS
<1> DEFINE Bad == {i \in 0..m : i \notin S}
<1>1. PICK k \in Bad : \A x \in Bad : k <= x
  <2>1. Bad \subseteq Nat /\ Bad # {}
    OBVIOUS
  <2> HIDE DEF Bad
  <2> QED
    BY <2>1, LeastNatural
<1>2. k \in 1..m
  BY <1>1
<1>3. k - 1 \in 0..m /\ k - 1 \in S /\ k - 1 < m
  BY <1>1, <1>2
<1>4. (k - 1) + 1 \in S /\ (k - 1) + 1 = k
  BY <1>2, <1>3
<1> QED
  BY <1>1, <1>4

\* The recursion of Sum has a solution, and what it yields are integers.
IsSumUpTo(F, s, m) == F = [i \in 0..m |-> IF i = 0 THEN 0 ELSE F[i - 1] + s[i]]

LEMMA SumsExist ==
    ASSUME NEW m \in Nat, NEW s \in [1..m -> Int]
    PROVE  \E F : IsSumUpTo(F, s, m)
<1> DEFINE S == {k \in 0..m : \E F : IsSumUpTo(F, s, k)}
<1>1. 0 \in S
  <2> DEFINE F == [i \in 0..0 |-> 0]
  <2>1. F = [i \in 0..0 |-> IF i = 0 THEN 0 ELSE F[i - 1] + s[i]]
    OBVIOUS
  <2> HIDE DEF F
  <2>2. IsSumUpTo(F, s, 0)
    BY <2>1 DEF IsSumUpTo
  <2> QED
    BY <2>2
<1>2. ASSUME NEW k \in 0..m, k \in S, k < m PROVE k + 1 \in S
  <2>1. PICK F : F = [i \in 0..k |-> IF i = 0 THEN 0 ELSE F[i - 1] + s[i]]
    BY <1>2 DEF IsSumUpTo
  <2> DEFINE G == [i \in 0..(k + 1) |-> IF i <= k THEN F[i] ELSE F[k] + s[k + 1]]
  <2>2. ASSUME NEW i \in 0..(k + 1)
        PROVE  G[i] = IF i = 0 THEN 0 ELSE G[i - 1] + s[i]
    <3>1. CASE i <= k
      <4>1. i \in 0..k /\ F[i] = IF i = 0 THEN 0 ELSE F[i - 1] + s[i]
        BY <2>1, <3>1
      <4>2. i # 0 => G[i - 1] = F[i - 1]
        BY <3>1
      <4> QED
        BY <3>1, <4>1, <4>2
    <3>2. CASE i = k + 1
      BY <3>2
    <3> QED
      BY <3>1, <3>2
  <2>3. G = [i \in 0..(k + 1) |-> IF i = 0 THEN 0 ELSE G[i - 1] + s[i]]
    BY <2>2
  <2> HIDE DEF G
  <2>4. IsSumUpTo(G, s, k + 1)
    BY <2>3 DEF IsSumUpTo
  <2> QED
    BY <1>2, <2>4
<1> HIDE DEF S
<1>3. \A k \in 0..m : k \in S
  BY <1>1, <1>2, UpTo
<1> QED
  BY <1>3 DEF S

LEMMA SumIsSum ==
    ASSUME NEW m \in Nat, NEW s \in [1..m -> Int]
    PROVE  \E F \in [0..m -> Int] :
              /\ F[0] = 0 /\ \A i \in 1..m : F[i] = F[i - 1] + s[i]
              /\ Sum(s) = F[m]
<1> DEFINE F == CHOOSE F : F = [i \in 0..m |-> IF i = 0 THEN 0 ELSE F[i - 1] + s[i]]
<1>1. Len(s) = m
  OBVIOUS
<1>2. F = [i \in 0..m |-> IF i = 0 THEN 0 ELSE F[i - 1] + s[i]]
  BY SumsExist DEF IsSumUpTo
<1>3. Sum(s) = F[m]
  BY <1>1 DEF Sum
<1> HIDE DEF F
<1>4. F[0] = 0 /\ \A i \in 1..m : F[i] = F[i - 1] + s[i]
  BY <1>2
<1>5. \A i \in 0..m : i \in {k \in 0..m : F[k] \in Int}
  <2> DEFINE S == {k \in 0..m : F[k] \in Int}
  <2>1. 0 \in S
    BY <1>4
  <2>2. ASSUME NEW i \in 0..m, i \in S, i < m PROVE i + 1 \in S
    <3>1. i + 1 \in 1..m /\ (i + 1) - 1 = i
      BY <2>2
    <3>2. F[i + 1] = F[i] + s[i + 1]
      BY <1>4, <3>1
    <3> QED
      BY <2>2, <3>1, <3>2
  <2> HIDE DEF S
  <2>3. \A i \in 0..m : i \in S
    BY <2>1, <2>2, UpTo
  <2> QED
    BY <2>3 DEF S
<1>6. F \in [0..m -> Int]
  BY <1>2, <1>5
<1> QED
  BY <1>3, <1>4, <1>6

LEMMA SumIsInteger ==
    ASSUME NEW m \in Nat, NEW s \in [1..m -> Int] PROVE Sum(s) \in Int
  BY SumIsSum

-----------------------------------------------------------------------------
(* The percentile bootstrap *)

\* The recursion of Drawn has a solution, and what it yields are sets of integers.
IsDrawing(F, m) == F = [j \in 0..m |-> IF j = 0 THEN {0} ELSE DrawnAfter(F[j - 1])]

LEMMA DrawingsExist ==
    ASSUME NEW m \in Nat PROVE \E F : IsDrawing(F, m)
<1> DEFINE S == {k \in 0..m : \E F : IsDrawing(F, k)}
<1>1. 0 \in S
  <2> DEFINE F == [j \in 0..0 |-> {0}]
  <2>1. F = [j \in 0..0 |-> IF j = 0 THEN {0} ELSE DrawnAfter(F[j - 1])]
    OBVIOUS
  <2> HIDE DEF F
  <2>2. IsDrawing(F, 0)
    BY <2>1 DEF IsDrawing
  <2> QED
    BY <2>2
<1>2. ASSUME NEW k \in 0..m, k \in S, k < m PROVE k + 1 \in S
  <2>1. PICK F : IsDrawing(F, k)
    BY <1>2
  <2>2. /\ k \in Nat
        /\ \A j \in 0..k : F[j] = IF j = 0 THEN {0} ELSE DrawnAfter(F[j - 1])
    <3>1. F = [j \in 0..k |-> IF j = 0 THEN {0} ELSE DrawnAfter(F[j - 1])]
      BY <2>1 DEF IsDrawing
    <3>2. ASSUME NEW j \in 0..k PROVE F[j] = IF j = 0 THEN {0} ELSE DrawnAfter(F[j - 1])
      BY <3>1, Zenon
    <3> QED
      BY <3>2
  <2> DEFINE G == [j \in 0..(k + 1) |-> IF j <= k THEN F[j] ELSE DrawnAfter(F[k])]
  <2>3. ASSUME NEW j \in 0..(k + 1)
        PROVE  G[j] = IF j = 0 THEN {0} ELSE DrawnAfter(G[j - 1])
    <3>1. CASE j <= k
      <4>1. j \in 0..k /\ G[j] = F[j]
        BY <2>2, <3>1
      <4>2. j # 0 => G[j - 1] = F[j - 1]
        BY <2>2, <3>1
      <4> HIDE DEF G
      <4> QED
        BY <2>2, <4>1, <4>2
    <3>2. CASE j = k + 1
      BY <2>2, <3>2
    <3> QED
      BY <2>2, <3>1, <3>2
  <2>4. G = [j \in 0..(k + 1) |-> IF j = 0 THEN {0} ELSE DrawnAfter(G[j - 1])]
    BY <2>3
  <2> HIDE DEF G
  <2>5. IsDrawing(G, k + 1)
    BY <2>4 DEF IsDrawing
  <2> QED
    BY <1>2, <2>5
<1> HIDE DEF S
<1>3. \A k \in 0..m : k \in S
  BY <1>1, <1>2, UpTo
<1> QED
  BY <1>3 DEF S

LEMMA DrawnAreIntegers ==
    ASSUME n \in Nat, differences \in [1..n -> Int] PROVE Drawn \subseteq Int
<1> DEFINE F == CHOOSE F : F = [k \in 0..n |-> IF k = 0 THEN {0} ELSE DrawnAfter(F[k - 1])]
<1>1. IsDrawing(F, n)
  BY DrawingsExist DEF IsDrawing
<1>2. Drawn = F[n]
  BY DEF Drawn
<1> HIDE DEF F
<1>3. F = [j \in 0..n |-> IF j = 0 THEN {0} ELSE DrawnAfter(F[j - 1])]
  BY <1>1 DEF IsDrawing
<1> DEFINE S == {k \in 0..n : F[k] \subseteq Int}
<1>4. 0 \in S
  <2>1. F[0] = {0}
    BY <1>3
  <2> QED
    BY <2>1
<1>5. ASSUME NEW k \in 0..n, k \in S, k < n PROVE k + 1 \in S
  <2>1. k + 1 \in 0..n /\ k + 1 # 0 /\ (k + 1) - 1 = k
    BY <1>5
  <2>2. F[k + 1] = DrawnAfter(F[k])
    BY <1>3, <2>1
  <2>3. DrawnAfter(F[k]) \subseteq Int
    BY <1>5 DEF DrawnAfter
  <2> QED
    BY <2>1, <2>2, <2>3
<1> HIDE DEF S
<1>6. \A k \in 0..n : k \in S
  BY <1>4, <1>5, UpTo
<1> QED
  BY <1>2, <1>6 DEF S

\* A sequence in which neighbours are ordered is ordered.
IsSorted(s) == \A i \in 1..Resamples, j \in 1..Resamples : i <= j => s[i] <= s[j]

LEMMA NeighboursSort ==
    ASSUME NEW s \in [1..Resamples -> Int], \A i \in 1..(Resamples - 1) : s[i] <= s[i + 1]
    PROVE  IsSorted(s)
<1>1. Resamples \in Nat
  BY StatisticsAssumption
<1> SUFFICES ASSUME NEW i \in 1..Resamples, NEW j \in 1..Resamples, i <= j PROVE s[i] <= s[j]
  BY DEF IsSorted
<1> DEFINE S == {k \in 0..(Resamples - i) : s[i] <= s[i + k]}
<1>2. 0 \in S
  BY <1>1
<1>3. ASSUME NEW k \in 0..(Resamples - i), k \in S, k < Resamples - i PROVE k + 1 \in S
  <2>1. i + k \in 1..(Resamples - 1) /\ k + 1 \in 0..(Resamples - i)
    BY <1>1, <1>3
  <2>2. /\ i + k \in 1..Resamples /\ (i + k) + 1 \in 1..Resamples
        /\ s[i + k] <= s[(i + k) + 1] /\ (i + k) + 1 = i + (k + 1)
    BY <1>1, <2>1
  <2> QED
    BY <1>3, <2>1, <2>2
<1>4. Resamples - i \in Nat /\ j - i \in 0..(Resamples - i) /\ i + (j - i) = j
  BY <1>1
<1> HIDE DEF S
<1>5. j - i \in S
  BY <1>2, <1>3, <1>4, UpTo
<1> QED
  BY <1>4, <1>5 DEF S

\* Where a quantile lies: at weight out of t between two neighbours.
Lower(a, t)  == ((Resamples - 1) * a) \div t
Weight(a, t) == ((Resamples - 1) * a) % t

\* The gap to the next of the sequence; nothing comes after the last.
Gap(s, k) == IF k + 1 < Resamples THEN s[k + 2] - s[k + 1] ELSE 0

LEMMA QuantilePosition ==
    ASSUME NEW t \in Nat \ {0}, NEW a \in 0..t
    PROVE  /\ Lower(a, t) \in 0..(Resamples - 1) /\ Weight(a, t) \in 0..(t - 1)
           /\ (Resamples - 1) * a = t * Lower(a, t) + Weight(a, t)
           /\ Lower(a, t) = Resamples - 1 => Weight(a, t) = 0
<1> DEFINE position == (Resamples - 1) * a
           lower    == position \div t
           weight   == position % t
<1>1. Resamples \in Nat \ {0}
  BY StatisticsAssumption
<1>2. position \in Nat /\ position <= (Resamples - 1) * t
  BY <1>1
<1>3. lower = Lower(a, t) /\ weight = Weight(a, t) /\ position = (Resamples - 1) * a
  BY DEF Lower, Weight
<1> HIDE DEF position
<1>4. lower \in Nat /\ weight \in 0..(t - 1) /\ position = t * lower + weight
  BY <1>2
<1> HIDE DEF lower, weight
<1>5. lower <= Resamples - 1
  <2> SUFFICES ASSUME lower >= Resamples PROVE FALSE
    BY <1>1, <1>4
  <2>1. t * lower >= t * Resamples
    BY <1>1, <1>4
  <2>2. t * Resamples = (Resamples - 1) * t + t
    BY <1>1
  <2>3. t * lower \in Int /\ t * Resamples \in Int /\ (Resamples - 1) * t \in Int
    BY <1>1, <1>4
  <2> DEFINE x == t * lower  y == t * Resamples  z == (Resamples - 1) * t
  <2>4. x \in Int /\ y \in Int /\ z \in Int /\ x >= y /\ y = z + t /\ position <= z /\ position = x + weight
    BY <1>2, <1>4, <2>1, <2>2, <2>3
  <2> HIDE DEF x, y, z
  <2> QED
    BY <1>2, <1>4, <2>4
<1>6. lower = Resamples - 1 => weight = 0
  <2> SUFFICES ASSUME lower = Resamples - 1 PROVE weight <= 0
    BY <1>4
  <2> DEFINE z == (Resamples - 1) * t
  <2>1. z \in Int /\ position <= z /\ position = z + weight
    BY <1>1, <1>2, <1>4
  <2> HIDE DEF z
  <2> QED
    BY <1>2, <1>4, <2>1
<1> QED
  BY <1>1, <1>3, <1>4, <1>5, <1>6

LEMMA QuantileValue ==
    ASSUME NEW s \in [1..Resamples -> Int], IsSorted(s), NEW t \in Nat \ {0}, NEW a \in 0..t
    PROVE  /\ Gap(s, Lower(a, t)) \in Nat /\ s[Lower(a, t) + 1] \in Int
           /\ Quantile(s, a, t) = t * s[Lower(a, t) + 1] + Weight(a, t) * Gap(s, Lower(a, t))
<1> DEFINE lower == Lower(a, t)  weight == Weight(a, t)
<1>1. Resamples \in Nat \ {0} /\ Len(s) = Resamples
  BY StatisticsAssumption
<1>2. /\ lower \in 0..(Resamples - 1) /\ weight \in 0..(t - 1)
      /\ lower = Resamples - 1 => weight = 0
  BY QuantilePosition
<1>3. Quantile(s, a, t) =
          IF weight = 0 THEN t * s[lower + 1]
          ELSE s[lower + 1] * (t - weight) + s[lower + 2] * weight
  BY <1>1 DEF Quantile, Lower, Weight
<1> HIDE DEF lower, weight
<1>4. s[lower + 1] \in Int
  BY <1>1, <1>2
<1>5. CASE lower = Resamples - 1
  <2>1. Gap(s, lower) = 0 /\ weight = 0
    BY <1>1, <1>2, <1>5 DEF Gap
  <2>2. Quantile(s, a, t) = t * s[lower + 1] + weight * Gap(s, lower)
    BY <1>3, <1>4, <2>1
  <2> QED
    BY <1>4, <2>1, <2>2 DEF lower, weight
<1>6. CASE lower # Resamples - 1
  <2>1. lower + 1 \in 1..Resamples /\ lower + 2 \in 1..Resamples /\ lower + 1 <= lower + 2
        /\ lower + 1 < Resamples
    BY <1>1, <1>2, <1>6
  <2> DEFINE x == s[lower + 1]  y == s[lower + 2]
  <2>2. x \in Int /\ y \in Int /\ x <= y /\ Gap(s, lower) = y - x
    BY <2>1 DEF IsSorted, Gap
  <2>3. Quantile(s, a, t) = IF weight = 0 THEN t * x ELSE x * (t - weight) + y * weight
    BY <1>3
  <2> HIDE DEF x, y
  <2>4. weight \in Int /\ x * (t - weight) + y * weight = t * x + weight * (y - x)
    BY <1>2, <2>2
  <2>5. Quantile(s, a, t) = t * x + weight * Gap(s, lower) /\ Gap(s, lower) \in Nat
    BY <1>2, <2>2, <2>3, <2>4
  <2> QED
    BY <1>4, <2>5 DEF x, lower, weight
<1> QED
  BY <1>5, <1>6

\* What multiplication keeps.
LEMMA ProductsGrow ==
    /\ \A a, b \in Int : \A c \in Nat : a <= b => a * c <= b * c
    /\ \A a, b \in Int : \A c \in Nat \ {0} : a * c <= b * c => a <= b
    /\ \A a, b \in Nat : a * b \in Nat
    /\ \A a, b \in Nat \ {0} : a * b \in Nat \ {0}
<1>1. \A a, b \in Int : \A c \in Nat : a <= b => a * c <= b * c
  OBVIOUS
<1>2. \A a, b \in Int : \A c \in Nat \ {0} : a * c <= b * c => a <= b
  <2> SUFFICES ASSUME NEW a \in Int, NEW b \in Int, NEW c \in Nat \ {0}, b + 1 <= a
               PROVE  b * c < a * c
    OBVIOUS
  <2>1. (b + 1) * c <= a * c
    BY <1>1
  <2>2. (b + 1) * c = b * c + c
    OBVIOUS
  <2>3. b * c \in Int /\ a * c \in Int
    OBVIOUS
  <2> QED
    BY <2>1, <2>2, <2>3
<1>3. \A a, b \in Nat : a * b \in Nat
  OBVIOUS
<1>4. \A a, b \in Nat \ {0} : a * b \in Nat \ {0}
  OBVIOUS
<1> QED
  BY <1>1, <1>2, <1>3, <1>4

LEMMA GapsRise ==
    ASSUME NEW s \in [1..Resamples -> Int], IsSorted(s),
           NEW k \in 0..(Resamples - 1), NEW l \in 0..(Resamples - 1), k < l
    PROVE  s[k + 1] + Gap(s, k) <= s[l + 1]
<1>1. /\ k + 1 < Resamples /\ k + 2 <= l + 1
      /\ k + 1 \in 1..Resamples /\ k + 2 \in 1..Resamples /\ l + 1 \in 1..Resamples
  BY StatisticsAssumption
<1>2. s[k + 2] <= s[l + 1] /\ s[k + 2] \in Int /\ s[k + 1] \in Int /\ s[l + 1] \in Int
  BY <1>1 DEF IsSorted
<1>3. Gap(s, k) = s[k + 2] - s[k + 1]
  BY <1>1 DEF Gap
<1> QED
  BY <1>2, <1>3

\* A greater part of the same sequence has a greater quantile.
LEMMA QuantilesGrow ==
    ASSUME NEW s \in [1..Resamples -> Int], IsSorted(s),
           NEW t \in Nat \ {0}, NEW a \in 0..t, NEW u \in Nat \ {0}, NEW b \in 0..u,
           a * u <= b * t
    PROVE  /\ Quantile(s, a, t) \in Int /\ Quantile(s, b, u) \in Int
           /\ Quantile(s, a, t) * u <= Quantile(s, b, u) * t
<1> DEFINE R == Resamples - 1
           k == Lower(a, t)  v == Weight(a, t)  x == s[k + 1]  g == Gap(s, k)
           l == Lower(b, u)  w == Weight(b, u)  y == s[l + 1]  h == Gap(s, l)
           p == Quantile(s, a, t)  q == Quantile(s, b, u)
<1>1. R \in Nat
  BY StatisticsAssumption
<1>2. /\ k \in 0..R /\ v \in 0..(t - 1) /\ R * a = t * k + v
      /\ l \in 0..R /\ w \in 0..(u - 1) /\ R * b = u * l + w
  BY QuantilePosition
<1>3. g \in Nat /\ x \in Int /\ p = t * x + v * g /\ h \in Nat /\ y \in Int /\ q = u * y + w * h
  BY QuantileValue
<1>4. k < l => x + g <= y
  BY <1>2, GapsRise
<1>5. k = l => x = y /\ g = h
  OBVIOUS
<1> HIDE DEF R, k, v, x, g, l, w, y, h, p, q
<1>6. (R * a) * u <= (R * b) * t
  <2>1. (a * u) * R <= (b * t) * R
    BY <1>1, ProductsGrow
  <2>2. (R * a) * u = (a * u) * R /\ (R * b) * t = (b * t) * R
    BY <1>1
  <2> QED
    BY <2>1, <2>2
<1>7. (t * u) * k + v * u <= (t * u) * l + w * t
  <2>1. (R * a) * u = (t * u) * k + v * u /\ (R * b) * t = (t * u) * l + w * t
    BY <1>2
  <2> QED
    BY <1>6, <2>1
<1>8. v * u \in Nat /\ w * t \in Nat /\ w * t < t * u /\ v * u <= t * u /\ t * u \in Nat \ {0}
  <2>1. w * t \in Nat /\ (w + 1) * t <= u * t /\ (w + 1) * t = w * t + t /\ u * t = t * u /\ t * u \in Nat \ {0}
    BY <1>2, ProductsGrow
  <2>2. v * u \in Nat /\ v * u <= t * u
    BY <1>2, ProductsGrow
  <2> QED
    BY <2>1, <2>2
<1>9. k <= l
  <2> SUFFICES ASSUME l + 1 <= k PROVE FALSE
    BY <1>2
  <2>1. (l + 1) * (t * u) <= k * (t * u)
    BY <1>2, <1>8, ProductsGrow
  <2>2. (l + 1) * (t * u) = (t * u) * l + t * u /\ k * (t * u) = (t * u) * k
    BY <1>2
  <2>3. (t * u) * l \in Int /\ (t * u) * k \in Int
    BY <1>2
  <2> QED
    BY <1>7, <1>8, <2>1, <2>2, <2>3
<1>10. /\ p \in Int /\ q \in Int
       /\ p * u = (t * u) * x + (v * u) * g /\ q * t = (t * u) * y + (w * t) * h
       /\ (t * u) * x \in Int /\ (v * u) * g \in Nat /\ (t * u) * y \in Int /\ (w * t) * h \in Nat
  <2>1. p \in Int /\ q \in Int
    BY <1>2, <1>3
  <2>2. p * u = (t * u) * x + (v * u) * g /\ q * t = (t * u) * y + (w * t) * h
    BY <1>2, <1>3
  <2>3. (t * u) * x \in Int /\ (v * u) * g \in Nat /\ (t * u) * y \in Int /\ (w * t) * h \in Nat
    BY <1>3, <1>8, ProductsGrow
  <2> QED
    BY <2>1, <2>2, <2>3
<1>11. CASE k = l
  <2>1. v * u <= w * t
    <3>1. (t * u) * k \in Int
      BY <1>2, <1>8
    <3> QED
      BY <1>7, <1>8, <1>11, <3>1
  <2>2. (v * u) * g <= (w * t) * g
    <3>1. v * u \in Int /\ w * t \in Int /\ g \in Nat
      BY <1>3, <1>8
    <3> QED
      BY <2>1, <3>1, ProductsGrow, Zenon
  <2>3. p * u <= q * t
    BY <1>5, <1>10, <1>11, <2>2
  <2> QED
    BY <1>10, <2>3 DEF p, q
<1>12. CASE k < l
  <2>1. (v * u) * g <= (t * u) * g
    BY <1>3, <1>8, ProductsGrow
  <2>2. (x + g) * (t * u) <= y * (t * u)
    BY <1>3, <1>4, <1>8, <1>12, ProductsGrow
  <2>3. (x + g) * (t * u) = (t * u) * x + (t * u) * g /\ y * (t * u) = (t * u) * y /\ (t * u) * g \in Int
    BY <1>3
  <2>4. p * u <= q * t
    BY <1>10, <2>1, <2>2, <2>3
  <2> QED
    BY <1>10, <2>4 DEF p, q
<1> QED
  BY <1>2, <1>9, <1>11, <1>12

-----------------------------------------------------------------------------
(* Tango's score test *)

\* What AtMostRoot says without a root: the squares compare.
LEMMA AtMostRootIsSquares ==
    ASSUME NEW x \in Nat \ {0}, NEW m \in Nat \ {0}, NEW square \in Int
    PROVE  AtMostRoot(x, m, square) <=> x * x <= (m * m) * square
<1> DEFINE w == x \div m  p == x % m
           next == (w + 1) * (w + 1) <= square
           here == w * w <= square /\ (square - w * w) * m * m >= 2 * w * p * m + p * p
<1>1. AtMostRoot(x, m, square) <=> next \/ here
  BY DEF AtMostRoot
<1>2. w \in Nat /\ p \in 0..(m - 1) /\ x = m * w + p
  OBVIOUS
<1> HIDE DEF w, p
<1>3. m * m \in Nat \ {0} /\ w * w \in Nat
  BY <1>2, ProductsGrow
<1>4. here <=> w * w <= square /\ x * x <= (m * m) * square
  <2>1. (square - w * w) * m * m = (m * m) * square - (m * m) * (w * w)
    BY <1>2
  <2>2. x * x = (m * m) * (w * w) + (2 * w * p * m + p * p)
    BY <1>2
  <2>3. /\ (m * m) * square \in Int /\ (m * m) * (w * w) \in Int /\ 2 * w * p * m + p * p \in Int
    BY <1>2, <1>3
  <2> QED
    BY <2>1, <2>2, <2>3
<1>5. next => x * x <= (m * m) * square
  <2> SUFFICES ASSUME next PROVE x * x <= (m * m) * square
    OBVIOUS
  <2> DEFINE y == m * (w + 1)
  <2>1. y \in Nat /\ x <= y
    BY <1>2
  <2>2. y * y = ((w + 1) * (w + 1)) * (m * m) /\ (w + 1) * (w + 1) \in Int
    BY <1>2
  <2> HIDE DEF y
  <2>3. x * x <= y * x /\ y * x = x * y /\ x * y <= y * y
    BY <2>1, ProductsGrow
  <2>4. ((w + 1) * (w + 1)) * (m * m) <= square * (m * m)
    BY <1>3, <2>2, ProductsGrow
  <2>5. square * (m * m) = (m * m) * square /\ square * (m * m) \in Int /\ x * x \in Int /\ x * y \in Int /\ y * y \in Int
    BY <1>3, <2>1
  <2> QED
    BY <2>2, <2>3, <2>4, <2>5
<1>6. x * x <= (m * m) * square => w * w <= square
  <2> SUFFICES ASSUME x * x <= (m * m) * square PROVE w * w <= square
    OBVIOUS
  <2> DEFINE z == m * w
  <2>1. z \in Nat /\ z <= x /\ z * z = (w * w) * (m * m)
    BY <1>2
  <2> HIDE DEF z
  <2>2. z * z <= x * z /\ x * z = z * x /\ z * x <= x * x
    BY <2>1, ProductsGrow
  <2>3. square * (m * m) = (m * m) * square /\ square * (m * m) \in Int /\ x * x \in Int /\ x * z \in Int /\ z * z \in Int
    BY <1>3, <2>1
  <2>4. (w * w) * (m * m) <= square * (m * m)
    BY <2>1, <2>2, <2>3
  <2> QED
    BY <1>3, <2>4, ProductsGrow
<1> QED
  BY <1>1, <1>4, <1>5, <1>6

\* A null value that one level accepts is accepted at every higher one: with u
\* twice the square of the numerator, the test is u <= c * (m * root - v).
LEMMA RootOfHigherLevel ==
    ASSUME NEW u \in Nat, NEW v \in Int, NEW m \in Nat \ {0}, NEW square \in Int,
           NEW c \in Nat \ {0}, NEW e \in Nat \ {0}, c <= e,
           AtMostRoot(u + c * v, c * m, square)
    PROVE  AtMostRoot(u + e * v, e * m, square)
<1> DEFINE x == u + c * v  y == u + e * v
<1>1. x \in Int /\ y \in Int /\ c * m \in Nat \ {0} /\ e * m \in Nat \ {0}
  BY ProductsGrow
<1>2. y * c <= x * e
  <2>1. y * c = u * c + (c * e) * v /\ x * e = u * e + (c * e) * v
    OBVIOUS
  <2>2. u * c <= u * e
    <3>1. c * u <= e * u /\ c * u = u * c /\ e * u = u * e
      BY ProductsGrow
    <3> QED
      BY <3>1
  <2>3. u * c \in Int /\ u * e \in Int /\ (c * e) * v \in Int
    OBVIOUS
  <2> QED
    BY <2>1, <2>2, <2>3
<1>3. AtMostRoot(x, c * m, square)
  OBVIOUS
<1> HIDE DEF x, y
<1>4. CASE y <= 0
  BY <1>1, <1>4 DEF AtMostRoot, y
<1>5. CASE y > 0
  <2>1. x > 0
    <3> SUFFICES ASSUME x <= 0 PROVE FALSE
      BY <1>1
    <3>1. x * e <= 0 * e /\ 1 * c <= y * c
      BY <1>1, <1>5, ProductsGrow
    <3>2. x * e \in Int /\ y * c \in Int /\ 0 * e = 0 /\ 1 * c = c
      BY <1>1
    <3> QED
      BY <1>2, <3>1, <3>2
  <2>2. x * x <= ((c * m) * (c * m)) * square
    BY <1>1, <1>3, <2>1, AtMostRootIsSquares
  <2> DEFINE p == y * c  q == x * e  s == ((e * m) * (e * m)) * square
  <2>3. p \in Nat /\ q \in Nat /\ p <= q /\ p * p = (y * y) * (c * c) /\ q * q = (x * x) * (e * e)
    BY <1>1, <1>2, <1>5, <2>1, ProductsGrow
  <2>4. (((c * m) * (c * m)) * square) * (e * e) = s * (c * c)
    OBVIOUS
  <2>5. s \in Int /\ c * c \in Nat \ {0} /\ e * e \in Nat \ {0} /\ y * y \in Int /\ x * x \in Int
        /\ ((c * m) * (c * m)) * square \in Int
    BY <1>1, ProductsGrow
  <2> HIDE DEF p, q, s
  <2>6. p * p <= q * p /\ q * p = p * q /\ p * q <= q * q /\ q * p \in Int /\ p * p \in Int /\ q * q \in Int
    BY <2>3, ProductsGrow
  <2>7. (x * x) * (e * e) <= (((c * m) * (c * m)) * square) * (e * e)
    BY <2>2, <2>5, ProductsGrow
  <2>8. (y * y) * (c * c) <= s * (c * c)
    BY <2>3, <2>4, <2>5, <2>6, <2>7
  <2>9. y * y <= s
    BY <2>5, <2>8, ProductsGrow
  <2> QED
    BY <1>1, <1>5, <2>9, AtMostRootIsSquares DEF s, y
<1> QED
  BY <1>1, <1>4, <1>5

\* The counts of a binary metric, all of them pairs.
CountsOfPairs ==
    /\ n \in Nat \ {0} /\ b_only \in Nat /\ c_only \in Nat /\ b_only + c_only <= n

LEMMA HigherLevelsAccept ==
    ASSUME CountsOfPairs, NEW d \in Int, NEW q \in Nat \ {0},
           NEW k \in Levels, NEW l \in Levels, k.tail <= l.tail, Accepts(d, q, k)
    PROVE  Accepts(d, q, l)
<1> DEFINE numerator == Effect * q - n * d
           u == 2 * numerator * numerator
           v == q * CoefficientB(d, q) - 2 * n * d * (q - d)
           square == Discriminant(d, q)
<1>1. k.critical \in Nat \ {0} /\ l.critical \in Nat \ {0} /\ k.critical <= l.critical
  BY StatisticsAssumption
<1>2. CoefficientB(d, q) \in Int /\ Effect \in Int
  BY DEF CountsOfPairs, CoefficientB, Effect
<1>3. v \in Int /\ square \in Int /\ numerator \in Int
  BY <1>2 DEF CountsOfPairs, Discriminant
<1>4. AtMostRoot(u + k.critical * v, k.critical * q, square)
  BY DEF Accepts
<1>5. Accepts(d, q, l) <=> AtMostRoot(u + l.critical * v, l.critical * q, square)
  BY DEF Accepts
<1> HIDE DEF v, square, numerator
<1>6. u \in Nat
  BY <1>3
<1> HIDE DEF u
<1> QED
  BY <1>1, <1>3, <1>4, <1>5, <1>6, RootOfHigherLevel

-----------------------------------------------------------------------------
(* The inversion of the score test *)

Bounds == {"low", "high"}

Ends == [inside : Int, outside : Int]

\* x is as far from the effect as y, on the side of that bound.
Outward(bound, x, y) == IF bound = "low" THEN x <= y ELSE y <= x

Start(bound) == [inside |-> Effect * 2^Halvings, outside |-> Support(bound)]

HalvedOnce(e, l) ==
    LET middle == (e.inside + e.outside) \div 2
    IN  IF e.inside = e.outside THEN e
        ELSE IF Accepts(middle, Units, l) THEN [inside |-> middle, outside |-> e.outside]
        ELSE [inside |-> e.inside, outside |-> middle]

\* What a level has come to after so many halvings.
Reached(e, l, bound, r) ==
    \E f \in [0..r -> Ends] :
        /\ f[0] = Start(bound) /\ f[r] = e
        /\ \A i \in 0..(r - 1) : f[i + 1] = HalvedOnce(f[i], l)

Settled(e, l, bound) == Reached(e, l, bound, Halvings)

LEMMA IntervalCardinality ==
    ASSUME NEW m \in Nat PROVE IsFiniteSet(1..m) /\ Cardinality(1..m) = m
<1>1. IsFiniteSet(1..m) /\ Cardinality(1..m) = IF 1 > m THEN 0 ELSE m - 1 + 1
  BY FS_Interval
<1> QED
  BY <1>1

\* A power of two is a number of sets.
LEMMA PowersArePositive == \A m \in Nat : 2^m \in Nat \ {0}
<1> SUFFICES ASSUME NEW m \in Nat PROVE 2^m \in Nat \ {0}
  OBVIOUS
<1>1. IsFiniteSet(SUBSET (1..m)) /\ Cardinality(SUBSET (1..m)) = 2^m
  BY IntervalCardinality, FS_SUBSET
<1>2. 2^m \in Nat
  BY <1>1, FS_CardinalityType
<1>3. 2^m # 0
  BY <1>1, FS_EmptySet
<1> QED
  BY <1>2, <1>3

\* Both ends begin on either side of the effect, or together.
LEMMA StartOfInversion ==
    ASSUME CountsOfPairs, NEW bound \in Bounds
    PROVE  /\ Units \in Nat \ {0} /\ Effect * 2^Halvings \in Int
           /\ Start(bound) \in Ends
           /\ Outward(bound, Start(bound).outside, Start(bound).inside)
           /\ IsExtreme(bound) => Support(bound) = Effect * 2^Halvings
<1> DEFINE p == 2^Halvings
<1>1. p \in Nat \ {0}
  BY PowersArePositive, StatisticsAssumption
<1> HIDE DEF p
<1>2. Effect \in Int /\ -n <= Effect /\ Effect <= n /\ n \in Nat \ {0}
  BY DEF CountsOfPairs, Effect
<1>3. (-n) * p <= Effect * p /\ Effect * p <= n * p /\ (-n) * p = -(n * p) /\ n * p \in Nat \ {0}
      /\ Effect * p \in Int
  BY <1>1, <1>2, ProductsGrow
<1>4. Units = n * p
  BY DEF Units, p
<1>5. IsExtreme("low") => Effect = -n
  BY DEF IsExtreme, CountsOfPairs, Effect
<1>6. IsExtreme("high") => Effect = n
  BY DEF IsExtreme, CountsOfPairs, Effect
<1>7. Start(bound) = [inside |-> Effect * p, outside |-> IF bound = "low" THEN -(n * p) ELSE n * p]
  BY <1>4 DEF Start, Support, p
<1>8. IsExtreme(bound) => Support(bound) = Effect * p
  BY <1>3, <1>4, <1>5, <1>6 DEF Support, Bounds
<1>9. Units \in Nat \ {0} /\ Effect * p \in Int /\ Start(bound) \in Ends
      /\ Outward(bound, Start(bound).outside, Start(bound).inside)
  BY <1>3, <1>4, <1>7 DEF Ends, Outward, Bounds
<1> QED
  BY <1>8, <1>9 DEF p

\* A halving leaves the ends between the ends.
LEMMA HalvedBetween ==
    ASSUME NEW bound \in Bounds, NEW e \in Ends, NEW l, Outward(bound, e.outside, e.inside)
    PROVE  /\ HalvedOnce(e, l) \in Ends
           /\ Outward(bound, e.outside, HalvedOnce(e, l).outside)
           /\ Outward(bound, HalvedOnce(e, l).outside, HalvedOnce(e, l).inside)
           /\ Outward(bound, HalvedOnce(e, l).inside, e.inside)
<1> DEFINE middle == (e.inside + e.outside) \div 2
<1>1. /\ e.inside \in Int /\ e.outside \in Int /\ middle \in Int
      /\ Outward(bound, e.outside, middle) /\ Outward(bound, middle, e.inside)
      /\ Outward(bound, e.inside, e.inside) /\ Outward(bound, e.outside, e.outside)
  BY DEF Ends, Outward, Bounds
<1>2. HalvedOnce(e, l) \in {e, [inside |-> middle, outside |-> e.outside],
                            [inside |-> e.inside, outside |-> middle]}
  BY DEF HalvedOnce
<1> HIDE DEF middle
<1>3. CASE HalvedOnce(e, l) = e
  BY <1>1, <1>3
<1>4. CASE HalvedOnce(e, l) = [inside |-> middle, outside |-> e.outside]
  BY <1>1, <1>4 DEF Ends
<1>5. CASE HalvedOnce(e, l) = [inside |-> e.inside, outside |-> middle]
  BY <1>1, <1>5 DEF Ends
<1> QED
  BY <1>2, <1>3, <1>4, <1>5

LEMMA ReachedFirst ==
    ASSUME CountsOfPairs, NEW l, NEW bound \in Bounds PROVE Reached(Start(bound), l, bound, 0)
<1> DEFINE f == [i \in 0..0 |-> Start(bound)]
<1>1. f \in [0..0 -> Ends] /\ f[0] = Start(bound) /\ 0..(0 - 1) = {}
  BY StartOfInversion
<1> HIDE DEF f
<1> QED
  BY <1>1 DEF Reached

LEMMA ReachedNext ==
    ASSUME NEW l, NEW bound \in Bounds, NEW r \in Nat, NEW e, Reached(e, l, bound, r),
           HalvedOnce(e, l) \in Ends
    PROVE  Reached(HalvedOnce(e, l), l, bound, r + 1)
<1>1. PICK f \in [0..r -> Ends] :
          /\ f[0] = Start(bound) /\ f[r] = e
          /\ \A i \in 0..(r - 1) : f[i + 1] = HalvedOnce(f[i], l)
  BY DEF Reached
<1> DEFINE g == [i \in 0..(r + 1) |-> IF i <= r THEN f[i] ELSE HalvedOnce(e, l)]
<1>2. g \in [0..(r + 1) -> Ends] /\ g[0] = f[0] /\ g[r] = f[r] /\ g[r + 1] = HalvedOnce(e, l)
      /\ \A i \in 0..r : g[i] = f[i]
  BY <1>1
<1> HIDE DEF g
<1>3. ASSUME NEW i \in 0..((r + 1) - 1) PROVE g[i + 1] = HalvedOnce(g[i], l)
  <2>1. CASE i = r
    BY <1>1, <1>2, <2>1
  <2>2. CASE i # r
    <3>1. i \in 0..(r - 1) /\ i \in 0..r /\ i + 1 \in 0..r
      BY <2>2
    <3>2. g[i] = f[i] /\ g[i + 1] = f[i + 1]
      BY <1>2, <3>1
    <3> QED
      BY <1>1, <3>1, <3>2
  <2> QED
    BY <2>1, <2>2
<1> QED
  BY <1>1, <1>2, <1>3 DEF Reached

\* Ends that met stay, so that what is solved is what all halvings come to.
LEMMA SolvedIsSettled ==
    ASSUME NEW l, NEW bound \in Bounds, NEW r \in 0..Halvings, NEW e \in Ends,
           Reached(e, l, bound, r), r = Halvings \/ e.inside = e.outside
    PROVE  Settled(e, l, bound)
<1>1. Halvings \in Nat
  BY StatisticsAssumption
<1>2. CASE r = Halvings
  BY <1>2 DEF Settled
<1>3. CASE e.inside = e.outside
  <2> DEFINE S == {j \in 0..(Halvings - r) : Reached(e, l, bound, r + j)}
  <2>1. HalvedOnce(e, l) = e
    BY <1>3 DEF HalvedOnce
  <2>2. 0 \in S
    BY <1>1
  <2>3. ASSUME NEW j \in 0..(Halvings - r), j \in S, j < Halvings - r PROVE j + 1 \in S
    <3>1. r + j \in Nat /\ (r + j) + 1 = r + (j + 1) /\ j + 1 \in 0..(Halvings - r)
      BY <1>1, <2>3
    <3>2. Reached(HalvedOnce(e, l), l, bound, (r + j) + 1)
      BY <2>1, <2>3, <3>1, ReachedNext
    <3> QED
      BY <2>1, <3>1, <3>2
  <2>4. Halvings - r \in Nat /\ r + (Halvings - r) = Halvings
    BY <1>1
  <2> HIDE DEF S
  <2>5. \A j \in 0..(Halvings - r) : j \in S
    BY <2>2, <2>3, <2>4, UpTo
  <2>6. Halvings - r \in S
    BY <2>4, <2>5
  <2> QED
    BY <2>4, <2>6 DEF S, Settled
<1> QED
  BY <1>2, <1>3

\* The ends stay on their side of the effect.
LEMMA ReachedBetween ==
    ASSUME CountsOfPairs, NEW l, NEW bound \in Bounds, NEW r \in Nat, NEW e,
           Reached(e, l, bound, r)
    PROVE  /\ e \in Ends /\ Outward(bound, e.outside, e.inside)
           /\ Outward(bound, e.inside, Effect * 2^Halvings)
<1> DEFINE effect == Effect * 2^Halvings
<1>1. PICK f \in [0..r -> Ends] :
          /\ f[0] = Start(bound) /\ f[r] = e
          /\ \A i \in 0..(r - 1) : f[i + 1] = HalvedOnce(f[i], l)
  BY DEF Reached
<1>2. effect \in Int /\ Outward(bound, Start(bound).outside, Start(bound).inside)
      /\ Start(bound).inside = effect
  BY StartOfInversion DEF Start
<1> HIDE DEF effect
<1> DEFINE S == {i \in 0..r : Outward(bound, f[i].outside, f[i].inside) /\ Outward(bound, f[i].inside, effect)}
<1>3. 0 \in S
  BY <1>1, <1>2 DEF Outward, Bounds
<1>4. ASSUME NEW i \in 0..r, i \in S, i < r PROVE i + 1 \in S
  <2>1. f[i] \in Ends /\ f[i + 1] = HalvedOnce(f[i], l) /\ i + 1 \in 0..r /\ f[i + 1] \in Ends
    BY <1>1, <1>4
  <2>2. Outward(bound, f[i + 1].outside, f[i + 1].inside) /\ Outward(bound, f[i + 1].inside, f[i].inside)
    BY <1>4, <2>1, HalvedBetween
  <2>3. Outward(bound, f[i].inside, effect)
    BY <1>4
  <2>4. Outward(bound, f[i + 1].inside, effect)
    BY <1>2, <2>1, <2>2, <2>3 DEF Outward, Ends
  <2> QED
    BY <2>1, <2>2, <2>4
<1> HIDE DEF S
<1>5. \A i \in 0..r : i \in S
  BY <1>3, <1>4, UpTo
<1> QED
  BY <1>1, <1>5 DEF S, effect

\* Halving the same ends, or ends apart, two levels get the same ends, or ends
\* apart: the higher level is the one further out.
LEMMA HalvedApart ==
    ASSUME CountsOfPairs, NEW bound \in Bounds, NEW k \in Levels, NEW l \in Levels, k.tail <= l.tail,
           NEW e \in Ends, NEW g \in Ends,
           Outward(bound, e.outside, e.inside), Outward(bound, g.outside, g.inside),
           e = g \/ Outward(bound, g.inside, e.outside)
    PROVE  \/ HalvedOnce(e, k) = HalvedOnce(g, l)
           \/ Outward(bound, HalvedOnce(g, l).inside, HalvedOnce(e, k).outside)
<1>1. CASE Outward(bound, g.inside, e.outside)
  <2> DEFINE x == HalvedOnce(e, k)  y == HalvedOnce(g, l)
  <2>1. x \in Ends /\ y \in Ends /\ Outward(bound, e.outside, x.outside) /\ Outward(bound, y.inside, g.inside)
    BY HalvedBetween
  <2> HIDE DEF x, y
  <2>2. Outward(bound, y.inside, x.outside)
    BY <1>1, <2>1 DEF Ends, Outward
  <2> QED
    BY <2>2 DEF x, y
<1>2. CASE e = g
  <2> DEFINE middle == (e.inside + e.outside) \div 2
  <2>1. CASE e.inside = e.outside
    BY <1>2, <2>1 DEF HalvedOnce
  <2>2. CASE e.inside # e.outside
    <3>1. middle \in Int /\ Units \in Nat \ {0}
      BY StartOfInversion DEF Ends
    <3>2. Accepts(middle, Units, k) => Accepts(middle, Units, l)
      BY <3>1, HigherLevelsAccept
    <3>3. HalvedOnce(e, k) = IF Accepts(middle, Units, k) THEN [inside |-> middle, outside |-> e.outside]
                             ELSE [inside |-> e.inside, outside |-> middle]
      BY <2>2 DEF HalvedOnce
    <3>4. HalvedOnce(g, l) = IF Accepts(middle, Units, l) THEN [inside |-> middle, outside |-> e.outside]
                             ELSE [inside |-> e.inside, outside |-> middle]
      BY <1>2, <2>2 DEF HalvedOnce
    <3> HIDE DEF middle
    <3>5. Outward(bound, middle, middle)
      BY <3>1 DEF Outward
    <3> QED
      BY <3>2, <3>3, <3>4, <3>5
  <2> QED
    BY <2>1, <2>2
<1> QED
  BY <1>1, <1>2

LEMMA ReachedApart ==
    ASSUME CountsOfPairs, NEW bound \in Bounds, NEW k \in Levels, NEW l \in Levels, k.tail <= l.tail,
           NEW r \in Nat, NEW e, NEW g, Reached(e, k, bound, r), Reached(g, l, bound, r)
    PROVE  e = g \/ Outward(bound, g.inside, e.outside)
<1>1. PICK x \in [0..r -> Ends] :
          /\ x[0] = Start(bound) /\ x[r] = e
          /\ \A i \in 0..(r - 1) : x[i + 1] = HalvedOnce(x[i], k)
  BY DEF Reached
<1>2. PICK y \in [0..r -> Ends] :
          /\ y[0] = Start(bound) /\ y[r] = g
          /\ \A i \in 0..(r - 1) : y[i + 1] = HalvedOnce(y[i], l)
  BY DEF Reached
<1> DEFINE S == {i \in 0..r : /\ Outward(bound, x[i].outside, x[i].inside)
                              /\ Outward(bound, y[i].outside, y[i].inside)
                              /\ x[i] = y[i] \/ Outward(bound, y[i].inside, x[i].outside)}
<1>3. 0 \in S
  BY <1>1, <1>2, StartOfInversion
<1>4. ASSUME NEW i \in 0..r, i \in S, i < r PROVE i + 1 \in S
  <2>1. i + 1 \in 0..r /\ x[i] \in Ends /\ y[i] \in Ends
        /\ x[i + 1] = HalvedOnce(x[i], k) /\ y[i + 1] = HalvedOnce(y[i], l)
    BY <1>1, <1>2, <1>4
  <2>2. /\ Outward(bound, x[i].outside, x[i].inside) /\ Outward(bound, y[i].outside, y[i].inside)
        /\ x[i] = y[i] \/ Outward(bound, y[i].inside, x[i].outside)
    BY <1>4
  <2>3. Outward(bound, x[i + 1].outside, x[i + 1].inside) /\ Outward(bound, y[i + 1].outside, y[i + 1].inside)
    BY <2>1, <2>2, HalvedBetween
  <2>4. x[i + 1] = y[i + 1] \/ Outward(bound, y[i + 1].inside, x[i + 1].outside)
    BY <2>1, <2>2, HalvedApart
  <2> QED
    BY <2>1, <2>3, <2>4
<1> HIDE DEF S
<1>5. \A i \in 0..r : i \in S
  BY <1>3, <1>4, UpTo
<1> QED
  BY <1>1, <1>2, <1>5 DEF S

-----------------------------------------------------------------------------
(* The inductive invariant *)

\* A bound that the inversion has found, in place of that of the bootstrap.
IsFound(e) == "den" \notin DOMAIN e

InputInv ==
    /\ n \in Nat \ {0} /\ differences \in [1..n -> Int]
    /\ flips # NoValue => flips \in Flips /\ differences = Outcomes(flips)
    /\ threshold \in Thresholds

\* Every path through the phases ends with the intervals it is meant for.
IntervalInv ==
    /\ phase \in {"resample", "invert", "test", "done"}
    /\ phase = "invert" => IsTango
    /\ phase = "test" => ~IsTango /\ threshold # NoValue
    /\ ~IsTango /\ phase # "resample" =>
          \E s \in [1..Resamples -> Int] :
              IsSorted(s) /\ interval = [l \in Levels |-> IntervalAt(l, s)]
    /\ IsTango /\ phase # "resample" =>
          /\ interval = [l \in Levels |-> [low |-> interval[l].low, high |-> interval[l].high]]
          /\ \A l \in Levels :
                /\ IsFound(interval[l].low) => Settled(interval[l].low, l, "low")
                /\ IsFound(interval[l].high) => Settled(interval[l].high, l, "high")
    /\ IsTango /\ phase = "done" =>
          \A l \in Levels : IsFound(interval[l].low) /\ IsFound(interval[l].high)

\* Levels are inverted one after the other, the lower ones first.
SolvingInv ==
    /\ phase = "resample" => solving = NoValue
    /\ phase = "invert" /\ solving = NoValue =>
          \A k \in Levels : IsFound(interval[k].low) => IsFound(interval[k].high)
    /\ phase = "invert" /\ solving # NoValue =>
          /\ solving \in [level : Levels, bound : Bounds]
          /\ round \in 0..Halvings
          /\ Reached([inside |-> inside, outside |-> outside], solving.level, solving.bound, round)
          /\ solving.bound = "high" => IsFound(interval[solving.level].low)
          /\ \A k \in Levels :
                /\ k.tail < solving.level.tail =>
                      IsFound(interval[k].low) /\ IsFound(interval[k].high)
                /\ k # solving.level =>
                      (IsFound(interval[k].low) => IsFound(interval[k].high))

IsProper(p) == p.num \in Nat /\ p.den \in Nat /\ 0 < p.num /\ p.num <= p.den

\* The levels of which the score test does not reject the margin.
ScoreTest ==
    [method |-> "tango", accepted |-> {k \in Levels : Accepts(threshold.num, threshold.den, k)}]

TestInv ==
    /\ phase # "done" => test = NoValue
    /\ phase = "done" /\ IsTango => test = ScoreTest
    /\ test # NoValue /\ "p" \in DOMAIN test =>
          /\ flips = NoValue => IsProper(test.p)
          /\ flips # NoValue => test.p = McNemar(b_only, c_only)

StatisticsInv == InputInv /\ IntervalInv /\ SolvingInv /\ TestInv

\* What follows from the inputs stays with them.
LEMMA InputsStay ==
    ASSUME UNCHANGED metricInputs
    PROVE  /\ n' = n /\ IsTango' = IsTango
           /\ InputInv => InputInv'
           /\ b_only' = b_only /\ c_only' = c_only /\ ScoreTest' = ScoreTest
           /\ \A e, l, bound, r : Reached(e, l, bound, r)' = Reached(e, l, bound, r)
           /\ \A e, l, bound : Settled(e, l, bound)' = Settled(e, l, bound)
<1>1. flips' = flips /\ differences' = differences /\ threshold' = threshold
  BY DEF metricInputs
<1>2. n' = n /\ IsTango' = IsTango /\ b_only' = b_only /\ c_only' = c_only
  BY <1>1 DEF n, IsTango, b_only, c_only
<1>3. InputInv => InputInv'
  BY <1>1, <1>2 DEF InputInv
<1>4. Units' = Units /\ Effect' = Effect
  BY <1>2 DEF Units, Effect
<1>5. \A d, q : CoefficientB(d, q)' = CoefficientB(d, q)
  BY <1>2 DEF CoefficientB
<1>6. \A d, q : Discriminant(d, q)' = Discriminant(d, q)
  BY <1>2, <1>5 DEF Discriminant
<1>7. \A d, q, l : Accepts(d, q, l)' = Accepts(d, q, l)
  BY <1>2, <1>4, <1>5, <1>6 DEF Accepts
<1>8. \A bound : Start(bound)' = Start(bound)
  BY <1>4 DEF Start, Support
<1>9. \A e, l : HalvedOnce(e, l)' = HalvedOnce(e, l)
  BY <1>4, <1>7 DEF HalvedOnce
<1>10. \A e, l, bound, r : Reached(e, l, bound, r)' = Reached(e, l, bound, r)
  BY <1>8, <1>9 DEF Reached
<1>11. \A e, l, bound : Settled(e, l, bound)' = Settled(e, l, bound)
  BY <1>10 DEF Settled
<1>12. ScoreTest' = ScoreTest
  BY <1>1, <1>7 DEF ScoreTest
<1> QED
  BY <1>2, <1>3, <1>10, <1>11, <1>12

LEMMA PairsAreCounted ==
    ASSUME InputInv, flips # NoValue PROVE CountsOfPairs
<1>1. flips \in Flips /\ differences = Outcomes(flips)
  BY DEF InputInv
<1> DEFINE total == flips.both_pass + flips.baseline_only + flips.candidate_only + flips.both_fail
<1>2. /\ flips.both_pass \in Nat /\ flips.baseline_only \in Nat
      /\ flips.candidate_only \in Nat /\ flips.both_fail \in Nat
  BY <1>1, StatisticsAssumption DEF Flips
<1>3. n = total
  BY <1>1, <1>2 DEF Outcomes, n
<1> QED
  BY <1>2, <1>3 DEF InputInv, CountsOfPairs, b_only, c_only

LEMMA StatisticsInitially == StatisticsInit => StatisticsInv
<1> SUFFICES ASSUME StatisticsInit PROVE StatisticsInv
  OBVIOUS
<1>1. CASE \E f \in Flips : f.both_fail = 0 /\ flips = f /\ differences = Outcomes(f)
  <2>1. flips \in Flips /\ differences = Outcomes(flips)
    BY <1>1
  <2> DEFINE total == flips.both_pass + flips.baseline_only + flips.candidate_only + flips.both_fail
  <2>2. /\ flips.both_pass \in Nat /\ flips.baseline_only \in Nat
        /\ flips.candidate_only \in Nat /\ flips.both_fail \in Nat /\ total \in Nat \ {0}
    BY <2>1, StatisticsAssumption DEF Flips
  <2>3. differences \in [1..total -> Int] /\ Len(differences) = total
    BY <2>1, <2>2 DEF Outcomes
  <2>4. InputInv
    BY <2>1, <2>2, <2>3 DEF InputInv, n, StatisticsInit
  <2> QED
    BY <2>4 DEF StatisticsInv, StatisticsInit, IntervalInv, SolvingInv, TestInv
<1>2. CASE flips = NoValue /\ \E k \in 1..NumericPairs : differences \in [1..k -> Differences]
  <2>1. PICK k \in 1..NumericPairs : differences \in [1..k -> Differences]
    BY <1>2
  <2>2. k \in Nat \ {0} /\ differences \in [1..k -> Int]
    <3>1. Differences \subseteq Int /\ NumericPairs \in Nat
      BY StatisticsAssumption
    <3>2. k \in Nat \ {0}
      BY <3>1
    <3>3. differences \in [1..k -> Int]
      BY <2>1, <3>1, Zenon
    <3> QED
      BY <3>2, <3>3
  <2>4. Len(differences) = k
    BY <2>2
  <2>3. InputInv
    BY <1>2, <2>2, <2>4 DEF InputInv, n, StatisticsInit
  <2> QED
    BY <2>3 DEF StatisticsInv, StatisticsInit, IntervalInv, SolvingInv, TestInv
<1> QED
  BY <1>1, <1>2 DEF StatisticsInit

\* Nothing but the value of the test changes what was said of tests.
LEMMA BootstrapStep == StatisticsInv /\ Bootstrap => StatisticsInv'
<1> SUFFICES ASSUME StatisticsInv, Bootstrap PROVE StatisticsInv'
  OBVIOUS
<1>1. InputInv' /\ IsTango' = IsTango /\ n' = n /\ flips' = flips /\ threshold' = threshold
  <2>1. UNCHANGED metricInputs
    BY DEF Bootstrap
  <2>2. flips' = flips /\ threshold' = threshold
    BY <2>1 DEF metricInputs
  <2> QED
    BY <2>1, <2>2, InputsStay DEF StatisticsInv
<1>2. PICK s \in [1..Resamples -> Drawn] :
          /\ \A i \in 1..(Resamples - 1) : s[i] <= s[i + 1]
          /\ interval' = [l \in Levels |-> IntervalAt(l, s)]
  BY DEF Bootstrap
<1>3. s \in [1..Resamples -> Int]
  BY DrawnAreIntegers DEF StatisticsInv, InputInv
<1>4. IsSorted(s)
  BY <1>2, <1>3, NeighboursSort
<1>5. \A l : IntervalAt(l, s)' = IntervalAt(l, s)
  BY <1>1 DEF IntervalAt
<1>6. ASSUME NEW l \in Levels
      PROVE  /\ interval'[l] = [low |-> interval'[l].low, high |-> interval'[l].high]
             /\ ~IsFound(interval'[l].low) /\ ~IsFound(interval'[l].high)
  BY <1>2 DEF IntervalAt, IsFound
<1>7. phase' = IF threshold = NoValue THEN "done" ELSE IF IsTango THEN "invert" ELSE "test"
  BY DEF Bootstrap
<1>8. test' = NoValue /\ solving' = solving
  BY DEF Bootstrap, StatisticsInv, TestInv, inversion
<1>9. IntervalInv'
  <2>1. IsTango => threshold # NoValue
    BY DEF IsTango
  <2>2. phase' = "done" => ~IsTango
    BY <1>7, <2>1
  <2>3. \E t \in [1..Resamples -> Int] : IsSorted(t) /\ interval' = [l \in Levels |-> IntervalAt(l, t)']
    BY <1>2, <1>3, <1>4, <1>5
  <2>4. interval' = [l \in Levels |-> [low |-> interval'[l].low, high |-> interval'[l].high]]
    BY <1>2, <1>6
  <2> QED
    BY <1>1, <1>6, <1>7, <2>1, <2>2, <2>3, <2>4 DEF IntervalInv
<1>10. solving = NoValue
  BY DEF StatisticsInv, SolvingInv, Bootstrap
<1>11. phase' = "done" => ~IsTango
  BY <1>7 DEF IsTango
<1> QED
  BY <1>1, <1>6, <1>7, <1>8, <1>9, <1>10, <1>11 DEF StatisticsInv, SolvingInv, TestInv

LEMMA SignsAreProper ==
    ASSUME n \in Nat, NEW c \in [1..n -> Int], NEW p \in SignRandomization(c) PROVE IsProper(p)
<1>1. CASE n <= ExactLimit
  <2> DEFINE X == Exceedances(c)
  <2>1. p = [num |-> Cardinality(X), den |-> 2^n]
    BY <1>1 DEF SignRandomization
  <2>2. IsFiniteSet(SUBSET (1..n)) /\ Cardinality(SUBSET (1..n)) = 2^n
    BY FS_SUBSET, IntervalCardinality
  <2>3. X \in SUBSET (SUBSET (1..n))
    BY DEF Exceedances
  <2>4. 1..n \in X
    <3>1. [i \in 1..n |-> IF i \in 1..n THEN c[i] ELSE -c[i]] = c
      OBVIOUS
    <3>2. Abs(Sum(c)) >= Abs(Sum(c))
      BY SumIsInteger DEF Abs
    <3> QED
      BY <3>1, <3>2 DEF Exceedances
  <2> HIDE DEF X
  <2>5. IsFiniteSet(X) /\ Cardinality(X) <= 2^n
    <3> DEFINE W == SUBSET (1..n)
    <3>1. IsFiniteSet(W) /\ Cardinality(W) = 2^n /\ X \in SUBSET W
      BY <2>2, <2>3
    <3> HIDE DEF W
    <3> QED
      BY <3>1, FS_Subset
  <2>6. Cardinality(X) \in Nat /\ Cardinality(X) # 0
    BY <2>4, <2>5, FS_CardinalityType, FS_EmptySet
  <2> QED
    BY <2>1, <2>5, <2>6, PowersArePositive DEF IsProper
<1>2. CASE ~(n <= ExactLimit)
  <2>1. PICK k \in 0..Resamples : p = [num |-> k + 1, den |-> Resamples + 1]
    BY <1>2 DEF SignRandomization, Simulated
  <2> QED
    BY <2>1, StatisticsAssumption DEF IsProper
<1> QED
  BY <1>1, <1>2

\* Some choice there always is: that of nothing.
LEMMA ChoicesArePositive ==
    ASSUME NEW m \in Nat, NEW k \in Nat PROVE Choices(m, k) \in Nat \ {0}
<1> DEFINE X == {A \in SUBSET (1..m) : Cardinality(A) <= k}
<1>1. IsFiniteSet(SUBSET (1..m))
  BY IntervalCardinality, FS_SUBSET
<1>2. X \in SUBSET (SUBSET (1..m)) /\ {} \in X
  BY FS_EmptySet
<1>3. Choices(m, k) = Cardinality(X)
  BY DEF Choices
<1> HIDE DEF X
<1>4. IsFiniteSet(X)
  BY <1>1, <1>2, FS_Subset, Zenon
<1>5. Cardinality(X) \in Nat
  BY <1>4, FS_CardinalityType, Zenon
<1>6. Cardinality(X) # 0
  BY <1>2, <1>4, FS_EmptySet, Zenon
<1> QED
  BY <1>3, <1>5, <1>6, Zenon

LEMMA McNemarIsProper ==
    ASSUME NEW b \in Nat, NEW c \in Nat PROVE IsProper(McNemar(b, c))
<1>1. CASE b + c = 0
  BY <1>1 DEF McNemar, IsProper
<1>2. CASE b + c # 0
  <2> DEFINE m == b + c  s == IF b < c THEN b ELSE c  tail == Choices(m, s)  whole == 2^m
  <2>1. McNemar(b, c) = [num |-> IF 2 * tail > whole THEN whole ELSE 2 * tail, den |-> whole]
    BY <1>2 DEF McNemar
  <2>2. m \in Nat /\ s \in Nat
    OBVIOUS
  <2>3. tail \in Nat \ {0}
    BY <2>2, ChoicesArePositive
  <2>4. whole \in Nat \ {0}
    BY <2>2, PowersArePositive
  <2> HIDE DEF tail, whole
  <2> QED
    BY <2>1, <2>3, <2>4 DEF IsProper
<1> QED
  BY <1>1, <1>2

LEMMA TestStep == StatisticsInv /\ Test => StatisticsInv'
<1> SUFFICES ASSUME StatisticsInv, Test PROVE StatisticsInv'
  OBVIOUS
<1>1. UNCHANGED metricInputs /\ phase = "test" /\ phase' = "done" /\ interval' = interval
  BY DEF Test
<1>2. InputInv' /\ IsTango' = IsTango /\ n' = n /\ b_only' = b_only /\ c_only' = c_only
  BY <1>1, InputsStay DEF StatisticsInv
<1>3. flips' = flips
  BY <1>1 DEF metricInputs
<1>4. ~IsTango /\ threshold # NoValue
  BY <1>1 DEF StatisticsInv, IntervalInv
<1>5. TestInv'
  <2>1. CASE flips = NoValue
    <3>1. PICK p \in SignRandomization(Centered(threshold)) :
              test' = [method |-> "paired-sign-randomization", p |-> p]
      BY <2>1 DEF Test
    <3>2. threshold \in Fraction /\ n \in Nat /\ differences \in [1..n -> Int]
      BY <1>4, StatisticsAssumption DEF StatisticsInv, InputInv
    <3>3. Centered(threshold) \in [1..n -> Int]
      BY <3>2 DEF Centered, Fraction
    <3>4. IsProper(p)
      BY <3>2, <3>3, SignsAreProper
    <3> QED
      BY <1>1, <1>2, <1>3, <1>4, <2>1, <3>1, <3>4 DEF TestInv
  <2>2. CASE flips # NoValue
    <3>1. test' \in {NoValue, [method |-> "exact-mcnemar", p |-> McNemar(b_only, c_only)]}
      BY <2>2 DEF Test, b_only, c_only
    <3> QED
      BY <1>1, <1>2, <1>3, <1>4, <2>2, <3>1 DEF TestInv
  <2> QED
    BY <2>1, <2>2
<1>6. IntervalInv'
  <2>1. PICK s \in [1..Resamples -> Int] :
            IsSorted(s) /\ interval = [l \in Levels |-> IntervalAt(l, s)]
    BY <1>1, <1>4 DEF StatisticsInv, IntervalInv
  <2>2. \A l : IntervalAt(l, s)' = IntervalAt(l, s)
    BY <1>2 DEF IntervalAt
  <2> QED
    BY <1>1, <1>2, <1>4, <2>1, <2>2 DEF IntervalInv
<1>7. SolvingInv'
  BY <1>1 DEF SolvingInv
<1> QED
  BY <1>2, <1>5, <1>6, <1>7 DEF StatisticsInv

\* The facts about a metric whose score test is inverted.
LEMMA Inverting ==
    ASSUME StatisticsInv, phase = "invert", UNCHANGED metricInputs
    PROVE  /\ CountsOfPairs /\ IsTango /\ IsTango' /\ InputInv' /\ ScoreTest' = ScoreTest
           /\ interval = [l \in Levels |-> [low |-> interval[l].low, high |-> interval[l].high]]
           /\ \A e, l, bound, r : Reached(e, l, bound, r)' = Reached(e, l, bound, r)
           /\ \A e, l, bound : Settled(e, l, bound)' = Settled(e, l, bound)
<1>1. IsTango /\ flips # NoValue
  BY DEF StatisticsInv, IntervalInv, IsTango
<1>2. interval = [l \in Levels |-> [low |-> interval[l].low, high |-> interval[l].high]]
  BY <1>1 DEF StatisticsInv, IntervalInv
<1> QED
  BY <1>1, <1>2, InputsStay, PairsAreCounted DEF StatisticsInv

\* A step within an inversion that leaves the intervals alone.
LEMMA IntervalsStay ==
    ASSUME StatisticsInv, phase = "invert", phase' = "invert", interval' = interval, test' = test,
           UNCHANGED metricInputs
    PROVE  InputInv' /\ IntervalInv' /\ TestInv'
<1>1. /\ IsTango /\ IsTango' /\ InputInv'
      /\ \A e, l, bound : Settled(e, l, bound)' = Settled(e, l, bound)
  BY Inverting
<1>2. IntervalInv'
  BY <1>1 DEF StatisticsInv, IntervalInv
<1>3. TestInv'
  BY DEF StatisticsInv, TestInv
<1> QED
  BY <1>1, <1>2, <1>3

LEMMA StartInversionStep == StatisticsInv /\ StartInversion => StatisticsInv'
<1> SUFFICES ASSUME StatisticsInv, StartInversion PROVE StatisticsInv'
  OBVIOUS
<1>1. /\ UNCHANGED metricInputs /\ phase = "invert" /\ phase' = "invert"
      /\ interval' = interval /\ test' = test /\ solving = NoValue
  BY DEF StartInversion
<1>2. InputInv' /\ IntervalInv' /\ TestInv'
  BY <1>1, IntervalsStay
<1>3. /\ CountsOfPairs
      /\ \A e, l, bound, r : Reached(e, l, bound, r)' = Reached(e, l, bound, r)
  BY <1>1, Inverting
<1>4. PICK l \in Levels :
          /\ \A k \in Levels : k.tail < l.tail => IsFound(interval[k].low)
          /\ solving' = [level |-> l, bound |-> "low"]
  BY DEF StartInversion, IsFound
<1>5. [inside |-> inside', outside |-> outside'] = Start("low") /\ round' = 0
  <2>1. IsExtreme("low") => Support("low") = Effect * 2^Halvings
    BY <1>3, StartOfInversion DEF Bounds
  <2> QED
    BY <2>1 DEF StartInversion, Start
<1>6. Reached([inside |-> inside', outside |-> outside'], l, "low", 0)
  BY <1>3, <1>5, ReachedFirst DEF Bounds
<1>7. \A k \in Levels : IsFound(interval[k].low) => IsFound(interval[k].high)
  BY <1>1 DEF StatisticsInv, SolvingInv
<1>8. solving' \in [level : Levels, bound : Bounds] /\ solving'.level = l /\ solving'.bound = "low"
  BY <1>4 DEF Bounds
<1>9. 0 \in 0..Halvings
  BY StatisticsAssumption
<1>10. Reached([inside |-> inside, outside |-> outside], solving.level, solving.bound, round)'
  BY <1>3, <1>5, <1>6, <1>8
<1>11. SolvingInv'
  BY <1>1, <1>4, <1>5, <1>7, <1>8, <1>9, <1>10 DEF SolvingInv
<1> QED
  BY <1>2, <1>11 DEF StatisticsInv

LEMMA HalveStep == StatisticsInv /\ Halve => StatisticsInv'
<1> SUFFICES ASSUME StatisticsInv, Halve PROVE StatisticsInv'
  OBVIOUS
<1>1. /\ UNCHANGED metricInputs /\ phase = "invert" /\ phase' = "invert"
      /\ interval' = interval /\ test' = test /\ solving # NoValue /\ solving' = solving
      /\ round < Halvings /\ inside # outside /\ round' = round + 1
  BY DEF Halve
<1>2. InputInv' /\ IntervalInv' /\ TestInv'
  BY <1>1, IntervalsStay
<1>3. /\ CountsOfPairs
      /\ \A e, l, bound, r : Reached(e, l, bound, r)' = Reached(e, l, bound, r)
  BY <1>1, Inverting
<1> DEFINE l == solving.level  b == solving.bound
           e == [inside |-> inside, outside |-> outside]
           h == [inside |-> inside', outside |-> outside']
<1>4. /\ solving \in [level : Levels, bound : Bounds] /\ round \in 0..Halvings
      /\ Reached(e, l, b, round)
  BY <1>1 DEF StatisticsInv, SolvingInv
<1>5. l \in Levels /\ b \in Bounds /\ round \in Nat /\ round + 1 \in 0..Halvings
  BY <1>1, <1>4, StatisticsAssumption
<1>6. h = HalvedOnce(e, l)
  BY <1>1 DEF Halve, HalvedOnce, Midpoint
<1>7. e \in Ends /\ Outward(b, e.outside, e.inside)
  BY <1>3, <1>4, <1>5, ReachedBetween
<1>8. Reached(h, l, b, round + 1)
  <2> HIDE DEF h, e, l, b
  <2>1. HalvedOnce(e, l) \in Ends
    BY <1>5, <1>7, HalvedBetween
  <2> QED
    BY <1>4, <1>5, <1>6, <2>1, ReachedNext
<1>9. Reached([inside |-> inside, outside |-> outside], solving.level, solving.bound, round)'
  BY <1>1, <1>3, <1>8
<1>10. SolvingInv'
  BY <1>1, <1>5, <1>9 DEF StatisticsInv, SolvingInv
<1> QED
  BY <1>2, <1>10 DEF StatisticsInv

\* Levels of one tail are one level.
LEMMA LevelsAreOrdered ==
    ASSUME NEW k \in Levels, NEW l \in Levels, k.tail = l.tail PROVE k = l
<1>1. /\ k \in [critical : Nat \ {0}, tail : Nat \ {0, 1}] /\ l \in [critical : Nat \ {0}, tail : Nat \ {0, 1}]
      /\ (k.critical < l.critical) <=> (k.tail < l.tail)
      /\ (l.critical < k.critical) <=> (l.tail < k.tail)
  BY StatisticsAssumption
<1>2. k.critical = l.critical
  BY <1>1
<1> QED
  BY <1>1, <1>2

LEMMA EndInversionStep == StatisticsInv /\ EndInversion => StatisticsInv'
<1> SUFFICES ASSUME StatisticsInv, EndInversion PROVE StatisticsInv'
  OBVIOUS
<1> DEFINE l == solving.level
           found == [inside |-> inside, outside |-> outside]
<1>1. /\ UNCHANGED metricInputs /\ phase = "invert" /\ solving # NoValue
      /\ round = Halvings \/ inside = outside
  BY DEF EndInversion, Solved
<1>2. /\ CountsOfPairs /\ IsTango /\ IsTango' /\ InputInv' /\ ScoreTest' = ScoreTest
      /\ interval = [k \in Levels |-> [low |-> interval[k].low, high |-> interval[k].high]]
      /\ \A e, k, bound, r : Reached(e, k, bound, r)' = Reached(e, k, bound, r)
      /\ \A e, k, bound : Settled(e, k, bound)' = Settled(e, k, bound)
  BY <1>1, Inverting
<1>3. /\ solving \in [level : Levels, bound : Bounds] /\ round \in 0..Halvings
      /\ Reached(found, l, solving.bound, round)
      /\ solving.bound = "high" => IsFound(interval[l].low)
      /\ \A k \in Levels : /\ k.tail < l.tail => IsFound(interval[k].low) /\ IsFound(interval[k].high)
                           /\ k # l => (IsFound(interval[k].low) => IsFound(interval[k].high))
  BY <1>1 DEF StatisticsInv, SolvingInv
<1>4. l \in Levels /\ solving.bound \in Bounds /\ round \in Nat
  BY <1>3, StatisticsAssumption
<1>5. found \in Ends
  BY <1>2, <1>3, <1>4, ReachedBetween
<1>6. Settled(found, l, solving.bound)
  BY <1>1, <1>3, <1>4, <1>5, SolvedIsSettled
<1>7. IsFound(found)
  BY DEF IsFound
<1>8. \A k \in Levels :
          /\ IsFound(interval[k].low) => Settled(interval[k].low, k, "low")
          /\ IsFound(interval[k].high) => Settled(interval[k].high, k, "high")
  BY <1>1, <1>2 DEF StatisticsInv, IntervalInv
<1>9. test = NoValue
  BY <1>1 DEF StatisticsInv, TestInv
<1> HIDE DEF found
<1>10. CASE solving.bound = "low"
  <2>1. /\ interval' = [interval EXCEPT ![l].low = found]
        /\ solving' = [level |-> l, bound |-> "high"]
        /\ inside' = IF IsExtreme("high") THEN Support("high") ELSE Effect * 2^Halvings
        /\ outside' = Support("high") /\ round' = 0 /\ phase' = phase /\ test' = test
    BY <1>10 DEF EndInversion, found
  <2>2. ASSUME NEW k \in Levels
        PROVE  interval'[k] = [low |-> IF k = l THEN found ELSE interval[k].low,
                               high |-> interval[k].high]
    BY <1>2, <1>4, <2>1
  <2>3. interval' = [k \in Levels |-> [low |-> interval'[k].low, high |-> interval'[k].high]]
    <3>1. interval' = [k \in Levels |-> interval'[k]]
      BY <1>2, <2>1
    <3>2. ASSUME NEW k \in Levels
          PROVE  interval'[k] = [low |-> interval'[k].low, high |-> interval'[k].high]
      <4> DEFINE x == IF k = l THEN found ELSE interval[k].low  y == interval[k].high
      <4>1. interval'[k] = [low |-> x, high |-> y]
        BY <2>2
      <4> HIDE DEF x, y
      <4> QED
        BY <4>1
    <3> QED
      BY <3>1, <3>2
  <2>4. \A k \in Levels :
            /\ interval'[k].low = IF k = l THEN found ELSE interval[k].low
            /\ interval'[k].high = interval[k].high
    <3>1. ASSUME NEW k \in Levels
          PROVE  /\ interval'[k].low = IF k = l THEN found ELSE interval[k].low
                 /\ interval'[k].high = interval[k].high
      <4> DEFINE x == IF k = l THEN found ELSE interval[k].low  y == interval[k].high
      <4>1. interval'[k] = [low |-> x, high |-> y]
        BY <2>2
      <4> HIDE DEF x, y
      <4>2. interval'[k].low = x /\ interval'[k].high = y
        BY <4>1
      <4> QED
        BY <4>2 DEF x, y
    <3> QED
      BY <3>1
  <2>5. IntervalInv'
    <3>1. \A k \in Levels :
              /\ IsFound(interval'[k].low) => Settled(interval'[k].low, k, "low")
              /\ IsFound(interval'[k].high) => Settled(interval'[k].high, k, "high")
      BY <1>6, <1>8, <1>10, <2>4
    <3> QED
      BY <1>1, <1>2, <2>1, <2>3, <3>1 DEF IntervalInv
  <2>6. [inside |-> inside', outside |-> outside'] = Start("high")
    <3>1. IsExtreme("high") => Support("high") = Effect * 2^Halvings
      BY <1>2, StartOfInversion DEF Bounds
    <3> QED
      BY <2>1, <3>1 DEF Start
  <2>7. Reached([inside |-> inside', outside |-> outside'], l, "high", 0)
    BY <1>2, <2>6, ReachedFirst DEF Bounds
  <2>8. solving' \in [level : Levels, bound : Bounds] /\ solving'.level = l /\ solving'.bound = "high"
    BY <1>4, <2>1 DEF Bounds
  <2>9. Reached([inside |-> inside, outside |-> outside], solving.level, solving.bound, round)'
    BY <1>2, <2>1, <2>7, <2>8
  <2>10. \A k \in Levels :
             /\ k.tail < l.tail => IsFound(interval'[k].low) /\ IsFound(interval'[k].high)
             /\ k # l => (IsFound(interval'[k].low) => IsFound(interval'[k].high))
    BY <1>3, <1>7, <2>4
  <2>11. SolvingInv'
    <3>1. 0 \in 0..Halvings
      BY StatisticsAssumption
    <3>2. solving' # NoValue
      BY <2>8, StatisticsAssumption DEF Bounds
    <3>3. IsFound(interval'[l].low)
      BY <1>4, <1>7, <2>4
    <3> QED
      BY <1>1, <2>1, <2>8, <2>9, <2>10, <3>1, <3>2, <3>3 DEF SolvingInv
  <2>12. TestInv'
    BY <1>1, <1>9, <2>1 DEF TestInv
  <2> QED
    BY <1>2, <2>5, <2>11, <2>12 DEF StatisticsInv
<1>11. CASE solving.bound = "high"
  <2>1. /\ interval' = [interval EXCEPT ![l].high = found]
        /\ solving' = NoValue
        /\ IF \E k \in Levels : k.tail > l.tail
           THEN phase' = phase /\ test' = test
           ELSE test' = ScoreTest /\ phase' = "done"
    BY <1>11 DEF EndInversion, found, ScoreTest
  <2>2. ASSUME NEW k \in Levels
        PROVE  interval'[k] = [low |-> interval[k].low,
                               high |-> IF k = l THEN found ELSE interval[k].high]
    BY <1>2, <1>4, <2>1
  <2>3. interval' = [k \in Levels |-> [low |-> interval'[k].low, high |-> interval'[k].high]]
    <3>1. interval' = [k \in Levels |-> interval'[k]]
      BY <1>2, <2>1
    <3>2. ASSUME NEW k \in Levels
          PROVE  interval'[k] = [low |-> interval'[k].low, high |-> interval'[k].high]
      <4> DEFINE x == interval[k].low  y == IF k = l THEN found ELSE interval[k].high
      <4>1. interval'[k] = [low |-> x, high |-> y]
        BY <2>2
      <4> HIDE DEF x, y
      <4> QED
        BY <4>1
    <3> QED
      BY <3>1, <3>2
  <2>4. \A k \in Levels :
            /\ interval'[k].low = interval[k].low
            /\ interval'[k].high = IF k = l THEN found ELSE interval[k].high
    <3>1. ASSUME NEW k \in Levels
          PROVE  /\ interval'[k].low = interval[k].low
                 /\ interval'[k].high = IF k = l THEN found ELSE interval[k].high
      <4> DEFINE x == interval[k].low  y == IF k = l THEN found ELSE interval[k].high
      <4>1. interval'[k] = [low |-> x, high |-> y]
        BY <2>2
      <4> HIDE DEF x, y
      <4>2. interval'[k].low = x /\ interval'[k].high = y
        BY <4>1
      <4> QED
        BY <4>2 DEF x, y
    <3> QED
      BY <3>1
  <2>5. \A k \in Levels : IsFound(interval'[k].low) => IsFound(interval'[k].high)
    BY <1>3, <1>7, <2>4
  <2>6. ~(\E k \in Levels : k.tail > l.tail) =>
            \A k \in Levels : IsFound(interval'[k].low) /\ IsFound(interval'[k].high)
    <3> SUFFICES ASSUME ~(\E k \in Levels : k.tail > l.tail), NEW k \in Levels
                 PROVE  IsFound(interval'[k].low) /\ IsFound(interval'[k].high)
      OBVIOUS
    <3>1. k.tail \in Nat /\ l.tail \in Nat /\ ~(k.tail > l.tail)
      BY <1>4, StatisticsAssumption
    <3>2. CASE k.tail < l.tail
      BY <1>3, <1>7, <2>4, <3>2
    <3>3. CASE k.tail = l.tail
      <4>1. k = l
        BY <1>4, <3>3, LevelsAreOrdered
      <4> QED
        BY <1>3, <1>7, <1>11, <2>4, <4>1
    <3> QED
      BY <3>1, <3>2, <3>3
  <2>7. phase' \in {"invert", "done"}
        /\ (phase' = "done" => ~(\E k \in Levels : k.tail > l.tail))
    BY <1>1, <2>1
  <2>8. IntervalInv'
    <3>1. \A k \in Levels :
              /\ IsFound(interval'[k].low) => Settled(interval'[k].low, k, "low")
              /\ IsFound(interval'[k].high) => Settled(interval'[k].high, k, "high")
      BY <1>6, <1>8, <1>11, <2>4
    <3> QED
      BY <1>2, <2>3, <2>6, <2>7, <3>1 DEF IntervalInv
  <2>9. SolvingInv'
    BY <2>1, <2>5, <2>7 DEF SolvingInv
  <2>10. TestInv'
    <3>1. "p" \notin DOMAIN ScoreTest
      BY DEF ScoreTest
    <3> HIDE DEF l
    <3>2. CASE phase' = phase /\ test' = test
      BY <1>1, <1>9, <3>2 DEF TestInv
    <3>3. CASE phase' = "done" /\ test' = ScoreTest
      BY <1>2, <2>7, <3>1, <3>3 DEF TestInv
    <3> QED
      BY <2>1, <3>2, <3>3
  <2> QED
    BY <1>2, <2>8, <2>9, <2>10 DEF StatisticsInv
<1> QED
  BY <1>4, <1>10, <1>11 DEF Bounds

\* No step leaves the invariant, for any number of pairs, levels and halvings.
THEOREM StatisticsInvariance == StatisticsSpec => []StatisticsInv
<1>1. StatisticsInit => StatisticsInv
  BY StatisticsInitially
<1>2. StatisticsInv /\ [StatisticsNext]_statisticsVars => StatisticsInv'
  <2> SUFFICES ASSUME StatisticsInv, [StatisticsNext]_statisticsVars PROVE StatisticsInv'
    OBVIOUS
  <2>1. CASE StatisticsNext
    BY <2>1, BootstrapStep, TestStep, StartInversionStep, HalveStep, EndInversionStep DEF StatisticsNext
  <2>2. CASE UNCHANGED statisticsVars
    <3>1. /\ UNCHANGED metricInputs /\ phase' = phase /\ interval' = interval /\ test' = test
          /\ UNCHANGED inversion
      BY <2>2 DEF statisticsVars
    <3>2. solving' = solving /\ inside' = inside /\ outside' = outside /\ round' = round
      BY <3>1 DEF inversion
    <3>3. flips' = flips /\ threshold' = threshold
      BY <3>1 DEF metricInputs
    <3>4. /\ n' = n /\ IsTango' = IsTango /\ InputInv'
          /\ b_only' = b_only /\ c_only' = c_only /\ ScoreTest' = ScoreTest
          /\ \A e, l, bound, r : Reached(e, l, bound, r)' = Reached(e, l, bound, r)
          /\ \A e, l, bound : Settled(e, l, bound)' = Settled(e, l, bound)
      BY <3>1, InputsStay DEF StatisticsInv
    <3>5. \A l, s : IntervalAt(l, s)' = IntervalAt(l, s)
      BY <3>4 DEF IntervalAt
    <3>6. IntervalInv'
      BY <3>1, <3>3, <3>4, <3>5 DEF StatisticsInv, IntervalInv
    <3>7. SolvingInv'
      BY <3>1, <3>2, <3>4 DEF StatisticsInv, SolvingInv
    <3>8. TestInv'
      BY <3>1, <3>3, <3>4 DEF StatisticsInv, TestInv
    <3> QED
      BY <3>4, <3>6, <3>7, <3>8 DEF StatisticsInv
  <2> QED
    BY <2>1, <2>2
<1> QED
  BY <1>1, <1>2, PTL DEF StatisticsSpec

-----------------------------------------------------------------------------
(* What the evidence of a metric says *)

LEMMA QuantilesNest ==
    ASSUME n \in Nat \ {0}, NEW s \in [1..Resamples -> Int], IsSorted(s), NEW k \in Levels, NEW l \in Levels
    PROVE  LET K == IntervalAt(k, s)
               L == IntervalAt(l, s)
           IN  /\ AtMost(K.low, K.high)
               /\ k.tail < l.tail => AtMost(L.low, K.low) /\ AtMost(K.high, L.high)
<1> DEFINE t == k.tail  u == l.tail
<1>1. t \in Nat \ {0, 1} /\ u \in Nat \ {0, 1} /\ n \in Nat
  BY StatisticsAssumption
<1>2. IntervalAt(k, s) = [low |-> [num |-> Quantile(s, 1, t), den |-> t * n],
                          high |-> [num |-> Quantile(s, t - 1, t), den |-> t * n]]
  BY DEF IntervalAt
<1>3. IntervalAt(l, s) = [low |-> [num |-> Quantile(s, 1, u), den |-> u * n],
                          high |-> [num |-> Quantile(s, u - 1, u), den |-> u * n]]
  BY DEF IntervalAt
<1> HIDE DEF t, u
\* Fractions over t * n and u * n compare like those over t and u.
<1>4. ASSUME NEW v \in Nat \ {0, 1}, NEW w \in Nat \ {0, 1}, NEW a \in 0..v, NEW b \in 0..w, a * w <= b * v
      PROVE  Quantile(s, a, v) * (w * n) <= Quantile(s, b, w) * (v * n)
  <2> DEFINE x == Quantile(s, a, v)  y == Quantile(s, b, w)
  <2>1. x \in Int /\ y \in Int /\ x * w <= y * v
    BY <1>4, QuantilesGrow
  <2> HIDE DEF x, y
  <2>2. (x * w) * n <= (y * v) * n
    <3>1. x * w \in Int /\ y * v \in Int
      BY <1>4, <2>1
    <3> QED
      BY <1>1, <2>1, <3>1, ProductsGrow
  <2>3. (x * w) * n = x * (w * n) /\ (y * v) * n = y * (v * n)
    BY <1>1, <1>4, <2>1
  <2> QED
    BY <2>2, <2>3 DEF x, y
<1>5. AtMost(IntervalAt(k, s).low, IntervalAt(k, s).high)
  <2>1. 1 \in 0..t /\ t - 1 \in 0..t /\ 1 * t <= (t - 1) * t
    BY <1>1
  <2> QED
    BY <1>1, <1>2, <1>4, <2>1 DEF AtMost
<1>6. t < u => AtMost(IntervalAt(l, s).low, IntervalAt(k, s).low)
  <2> SUFFICES ASSUME t < u PROVE AtMost(IntervalAt(l, s).low, IntervalAt(k, s).low)
    OBVIOUS
  <2>1. 1 \in 0..t /\ 1 \in 0..u /\ 1 * t <= 1 * u
    BY <1>1
  <2> QED
    BY <1>1, <1>2, <1>3, <1>4, <2>1 DEF AtMost
<1>7. t < u => AtMost(IntervalAt(k, s).high, IntervalAt(l, s).high)
  <2> SUFFICES ASSUME t < u PROVE AtMost(IntervalAt(k, s).high, IntervalAt(l, s).high)
    OBVIOUS
  <2>1. t - 1 \in 0..t /\ u - 1 \in 0..u
    BY <1>1
  <2>2. (t - 1) * u = t * u - u /\ (u - 1) * t = t * u - t /\ t * u \in Int
    BY <1>1
  <2>3. (t - 1) * u <= (u - 1) * t
    BY <1>1, <2>2
  <2> QED
    BY <1>1, <1>2, <1>3, <1>4, <2>1, <2>3 DEF AtMost
<1> QED
  BY <1>5, <1>6, <1>7 DEF t, u

LEMMA InversionsNest ==
    ASSUME CountsOfPairs, NEW k \in Levels, NEW l \in Levels, NEW K, NEW L,
           Settled(K.low, k, "low"), Settled(K.high, k, "high"), IsFound(K.low), IsFound(K.high),
           Settled(L.low, l, "low"), Settled(L.high, l, "high"), IsFound(L.low), IsFound(L.high)
    PROVE  /\ AtMost(Bound(K.low), Bound(K.high))
           /\ k.tail < l.tail => AtMost(Bound(L.low), Bound(K.low)) /\ AtMost(Bound(K.high), Bound(L.high))
<1> DEFINE effect == Effect * 2^Halvings  d == 2 * Units
<1>1. Halvings \in Nat /\ "low" \in Bounds /\ "high" \in Bounds
  BY StatisticsAssumption DEF Bounds
<1>2. effect \in Int /\ d \in Nat
  BY <1>1, StartOfInversion
<1>3. /\ K.low \in Ends /\ K.low.outside <= K.low.inside /\ K.low.inside <= effect
      /\ L.low \in Ends /\ L.low.outside <= L.low.inside
      /\ K.high \in Ends /\ K.high.inside <= K.high.outside /\ effect <= K.high.inside
      /\ L.high \in Ends /\ L.high.inside <= L.high.outside
  BY <1>1, ReachedBetween DEF Settled, Outward
<1>4. /\ Bound(K.low) = [num |-> K.low.inside + K.low.outside, den |-> d]
      /\ Bound(K.high) = [num |-> K.high.inside + K.high.outside, den |-> d]
      /\ Bound(L.low) = [num |-> L.low.inside + L.low.outside, den |-> d]
      /\ Bound(L.high) = [num |-> L.high.inside + L.high.outside, den |-> d]
  BY DEF Bound, IsFound
<1>5. k.tail < l.tail => /\ K.low = L.low \/ L.low.inside <= K.low.outside
                         /\ K.high = L.high \/ K.high.outside <= L.high.inside
  <2> SUFFICES ASSUME k.tail < l.tail
               PROVE  /\ K.low = L.low \/ L.low.inside <= K.low.outside
                      /\ K.high = L.high \/ K.high.outside <= L.high.inside
    OBVIOUS
  <2>1. k.tail <= l.tail
    BY StatisticsAssumption
  <2>2. K.low = L.low \/ Outward("low", L.low.inside, K.low.outside)
    BY <1>1, <2>1, ReachedApart DEF Settled
  <2>3. K.high = L.high \/ Outward("high", L.high.inside, K.high.outside)
    BY <1>1, <2>1, ReachedApart DEF Settled
  <2> QED
    BY <2>2, <2>3 DEF Outward
<1> HIDE DEF effect, d
<1>6. AtMost(Bound(K.low), Bound(K.high))
  <2>1. K.low.inside + K.low.outside <= K.high.inside + K.high.outside
    BY <1>2, <1>3 DEF Ends
  <2> QED
    BY <1>2, <1>3, <1>4, <2>1, ProductsGrow DEF AtMost, Ends
<1>7. ASSUME k.tail < l.tail PROVE AtMost(Bound(L.low), Bound(K.low))
  <2>1. L.low.inside + L.low.outside <= K.low.inside + K.low.outside
    BY <1>3, <1>5, <1>7 DEF Ends
  <2> QED
    BY <1>2, <1>3, <1>4, <2>1, ProductsGrow DEF AtMost, Ends
<1>8. ASSUME k.tail < l.tail PROVE AtMost(Bound(K.high), Bound(L.high))
  <2>1. K.high.inside + K.high.outside <= L.high.inside + L.high.outside
    BY <1>3, <1>5, <1>8 DEF Ends
  <2> QED
    BY <1>2, <1>3, <1>4, <2>1, ProductsGrow DEF AtMost, Ends
<1> QED
  BY <1>6, <1>7, <1>8

\* A p-value is positive and at most one, bounds are ordered and the intervals of
\* the levels nested (binary_paired_evidence, paired_bootstrap), whatever the
\* pairs, the resamples, the levels and the number of halvings.
THEOREM EvidenceCoheres == StatisticsSpec => []EvidenceIsCoherent
<1>1. StatisticsInv => EvidenceIsCoherent
  <2> SUFFICES ASSUME StatisticsInv, phase = "done"
               PROVE  /\ (test # NoValue /\ "p" \in DOMAIN test) =>
                             0 < test.p.num /\ test.p.num <= test.p.den
                      /\ \A k, l \in Levels :
                            /\ AtMost(Bound(interval[k].low), Bound(interval[k].high))
                            /\ k.tail < l.tail =>
                                  /\ AtMost(Bound(interval[l].low), Bound(interval[k].low))
                                  /\ AtMost(Bound(interval[k].high), Bound(interval[l].high))
    BY Zenon DEF EvidenceIsCoherent
  <2>1. ASSUME test # NoValue, "p" \in DOMAIN test PROVE 0 < test.p.num /\ test.p.num <= test.p.den
    <3>1. CASE flips = NoValue
      BY <2>1, <3>1 DEF StatisticsInv, TestInv, IsProper
    <3>2. CASE flips # NoValue
      <4>1. test.p = McNemar(b_only, c_only) /\ b_only \in Nat /\ c_only \in Nat
        BY <2>1, <3>2, PairsAreCounted DEF StatisticsInv, TestInv, CountsOfPairs
      <4> QED
        BY <4>1, McNemarIsProper DEF IsProper
    <3> QED
      BY <3>1, <3>2
  <2>2. ASSUME NEW k \in Levels, NEW l \in Levels
        PROVE  /\ AtMost(Bound(interval[k].low), Bound(interval[k].high))
               /\ k.tail < l.tail =>
                     /\ AtMost(Bound(interval[l].low), Bound(interval[k].low))
                     /\ AtMost(Bound(interval[k].high), Bound(interval[l].high))
    <3>1. CASE IsTango
      <4>1. CountsOfPairs
        BY <3>1, PairsAreCounted DEF StatisticsInv, IsTango
      <4>2. \A j \in Levels :
                /\ IsFound(interval[j].low) /\ Settled(interval[j].low, j, "low")
                /\ IsFound(interval[j].high) /\ Settled(interval[j].high, j, "high")
        BY <3>1 DEF StatisticsInv, IntervalInv
      <4> QED
        BY <4>1, <4>2, InversionsNest
    <3>2. CASE ~IsTango
      <4>1. PICK s \in [1..Resamples -> Int] :
                IsSorted(s) /\ interval = [j \in Levels |-> IntervalAt(j, s)]
        BY <3>2 DEF StatisticsInv, IntervalInv
      <4>2. /\ interval[k] = IntervalAt(k, s) /\ interval[l] = IntervalAt(l, s)
            /\ Bound(interval[k].low) = interval[k].low /\ Bound(interval[k].high) = interval[k].high
            /\ Bound(interval[l].low) = interval[l].low /\ Bound(interval[l].high) = interval[l].high
        BY <4>1 DEF Bound, IntervalAt
      <4>3. n \in Nat \ {0}
        BY DEF StatisticsInv, InputInv
      <4> QED
        BY <4>1, <4>2, <4>3, QuantilesNest
    <3> QED
      BY <3>1, <3>2
  <2> QED
    BY <2>1, <2>2
<1> QED
  BY <1>1, StatisticsInvariance, PTL

-----------------------------------------------------------------------------
(* McNemar's test and the randomization of signs *)

\* The number of ones among the first k of a sequence.
Ones(e, k) == {i \in 1..k : e[i] = 1}

\* A sum of m signs and nothing else is what the ones are more than the others.
LEMMA SumOfSigns ==
    ASSUME NEW m \in Nat, NEW o \in Nat, NEW e \in [1..(m + o) -> Int],
           \A i \in 1..m : e[i] \in {-1, 1}, \A i \in 1..(m + o) : i > m => e[i] = 0
    PROVE  /\ IsFiniteSet(Ones(e, m)) /\ Cardinality(Ones(e, m)) \in 0..m
           /\ Sum(e) = 2 * Cardinality(Ones(e, m)) - m
<1>1. PICK F \in [0..(m + o) -> Int] :
          /\ F[0] = 0 /\ \A i \in 1..(m + o) : F[i] = F[i - 1] + e[i]
          /\ Sum(e) = F[m + o]
  <2> DEFINE t == m + o
  <2>1. t \in Nat /\ e \in [1..t -> Int]
    OBVIOUS
  <2> HIDE DEF t
  <2>2. \E F \in [0..t -> Int] :
            /\ F[0] = 0 /\ \A i \in 1..t : F[i] = F[i - 1] + e[i]
            /\ Sum(e) = F[t]
    BY <2>1, SumIsSum
  <2> QED
    BY <2>2 DEF t
<1> DEFINE S == {k \in 0..m : /\ IsFiniteSet(Ones(e, k)) /\ Cardinality(Ones(e, k)) \in 0..k
                              /\ F[k] = 2 * Cardinality(Ones(e, k)) - k}
<1>2. 0 \in S
  <2>1. Ones(e, 0) = {}
    BY DEF Ones
  <2>2. IsFiniteSet(Ones(e, 0)) /\ Cardinality(Ones(e, 0)) = 0
    BY <2>1, FS_EmptySet
  <2> QED
    BY <1>1, <2>2
<1>3. ASSUME NEW k \in 0..m, k \in S, k < m PROVE k + 1 \in S
  <2>1. /\ k + 1 \in 1..m /\ k + 1 \in 1..(m + o) /\ (k + 1) - 1 = k /\ k + 1 \in 0..m
    BY <1>3
  <2>2. F[k + 1] = F[k] + e[k + 1] /\ e[k + 1] \in {-1, 1}
    BY <1>1, <2>1
  <2>3. /\ IsFiniteSet(Ones(e, k)) /\ Cardinality(Ones(e, k)) \in 0..k
        /\ F[k] = 2 * Cardinality(Ones(e, k)) - k
    BY <1>3
  <2>4. CASE e[k + 1] = 1
    <3>1. Ones(e, k + 1) = Ones(e, k) \cup {k + 1} /\ k + 1 \notin Ones(e, k)
      BY <2>4 DEF Ones
    <3>2. IsFiniteSet(Ones(e, k + 1)) /\ Cardinality(Ones(e, k + 1)) = Cardinality(Ones(e, k)) + 1
      <4> DEFINE X == Ones(e, k)
      <4>1. IsFiniteSet(X) /\ k + 1 \notin X
        BY <2>3, <3>1
      <4> HIDE DEF X
      <4>2. /\ IsFiniteSet(X \cup {k + 1})
            /\ Cardinality(X \cup {k + 1}) = IF k + 1 \in X THEN Cardinality(X) ELSE Cardinality(X) + 1
        BY <4>1, FS_AddElement
      <4> QED
        BY <3>1, <4>1, <4>2 DEF X
    <3> DEFINE x == Cardinality(Ones(e, k))  y == Cardinality(Ones(e, k + 1))
    <3>3. x \in 0..k /\ F[k] = 2 * x - k /\ y = x + 1 /\ F[k + 1] = F[k] + 1
      BY <2>2, <2>3, <2>4, <3>2
    <3> HIDE DEF x, y
    <3>4. y \in 0..(k + 1) /\ F[k + 1] = 2 * y - (k + 1)
      BY <3>3
    <3> QED
      BY <2>1, <3>2, <3>4 DEF y
  <2>5. CASE e[k + 1] = -1
    <3>1. Ones(e, k + 1) = Ones(e, k)
      BY <2>5 DEF Ones
    <3> DEFINE x == Cardinality(Ones(e, k))
    <3>2. x \in 0..k /\ F[k] = 2 * x - k /\ F[k + 1] = F[k] + (-1)
      BY <2>2, <2>3, <2>5
    <3> HIDE DEF x
    <3>3. x \in 0..(k + 1) /\ F[k + 1] = 2 * x - (k + 1)
      BY <3>2
    <3> QED
      BY <2>1, <2>3, <3>1, <3>3 DEF x
  <2> QED
    BY <2>2, <2>4, <2>5
<1> HIDE DEF S
<1>4. \A k \in 0..m : k \in S
  BY <1>2, <1>3, UpTo
<1>5. /\ IsFiniteSet(Ones(e, m)) /\ Cardinality(Ones(e, m)) \in 0..m
      /\ F[m] = 2 * Cardinality(Ones(e, m)) - m
  BY <1>4 DEF S
<1> DEFINE Z == {k \in 0..o : F[m + k] = F[m]}
<1>6. 0 \in Z
  OBVIOUS
<1>7. ASSUME NEW k \in 0..o, k \in Z, k < o PROVE k + 1 \in Z
  <2>1. m + (k + 1) \in 1..(m + o) /\ (m + (k + 1)) - 1 = m + k /\ m + (k + 1) > m /\ k + 1 \in 0..o
    BY <1>7
  <2>2. F[m + (k + 1)] = F[m + k] + 0
    BY <1>1, <2>1
  <2> QED
    BY <1>1, <1>7, <2>1, <2>2
<1> HIDE DEF Z
<1>8. \A k \in 0..o : k \in Z
  BY <1>6, <1>7, UpTo
<1>9. F[m + o] = F[m]
  BY <1>8 DEF Z
<1> QED
  BY <1>1, <1>5, <1>9

\* The discordant pairs that favour the candidate once their signs are chosen: of
\* the c that did those in the mask, of the b that did not those outside it.
Favouring(mask, b, c) == (mask \cap ((b + 1)..(b + c))) \cup ((1..b) \ mask)

\* The signs of these and o more pairs for which that is a set of K.
SignsFor(K, b, c, o) == {mask \in SUBSET (1..((b + c) + o)) : Favouring(mask, b, c) \in K}

\* A choice of signs is a choice of the discordant pairs that favour the
\* candidate, and of signs for the others.
LEMMA SignsAreChoices ==
    ASSUME NEW b \in Nat, NEW c \in Nat, NEW o \in Nat, NEW K \in SUBSET (SUBSET (1..(b + c)))
    PROVE  IsFiniteSet(K) /\ Cardinality(SignsFor(K, b, c, o)) = Cardinality(K) * 2^o
<1> USE DEF Favouring, SignsFor
<1> DEFINE m == b + c
           Rest == (m + 1)..(m + o)
           Chosen == SignsFor(K, b, c, o)
           f == [mask \in Chosen |-> <<Favouring(mask, b, c), mask \cap Rest>>]
<1>1. IsFiniteSet(K)
  <2> DEFINE W == SUBSET (1..m)
  <2>1. IsFiniteSet(W) /\ K \in SUBSET W
    <3>1. m \in Nat
      OBVIOUS
    <3>2. IsFiniteSet(1..m)
      BY <3>1, IntervalCardinality
    <3>3. IsFiniteSet(SUBSET (1..m))
      BY <3>2, FS_SUBSET
    <3> QED
      BY <3>3
  <2> HIDE DEF W
  <2> QED
    BY <2>1, FS_Subset
<1>2. IsFiniteSet(SUBSET Rest) /\ Cardinality(SUBSET Rest) = 2^o
  <2>1. IsFiniteSet(Rest) /\ Cardinality(Rest) = o
    <3>1. /\ IsFiniteSet((m + 1)..(m + o))
          /\ Cardinality((m + 1)..(m + o)) = IF m + 1 > m + o THEN 0 ELSE (m + o) - (m + 1) + 1
      BY FS_Interval
    <3> QED
      BY <3>1
  <2> QED
    BY <2>1, FS_SUBSET
<1>3. f \in [Chosen -> K \X (SUBSET Rest)]
  OBVIOUS
<1>4. ASSUME NEW x \in Chosen, NEW y \in Chosen, f[x] = f[y] PROVE x = y
  <2>1. Favouring(x, b, c) = Favouring(y, b, c) /\ x \cap Rest = y \cap Rest
    BY <1>4
  <2>2. x \subseteq 1..(m + o) /\ y \subseteq 1..(m + o)
    OBVIOUS
  <2>3. ASSUME NEW i \in 1..(m + o) PROVE i \in x <=> i \in y
    <3>1. CASE i \in Rest
      BY <2>1, <3>1
    <3>2. CASE i \in (b + 1)..m
      <4>1. i \notin 1..b
        BY <3>2
      <4>2. i \in Favouring(x, b, c) <=> i \in Favouring(y, b, c)
        BY <2>1
      <4> QED
        BY <3>2, <4>1, <4>2
    <3>3. CASE i \in 1..b
      <4>1. i \notin (b + 1)..m
        BY <3>3
      <4>2. i \in Favouring(x, b, c) <=> i \in Favouring(y, b, c)
        BY <2>1
      <4> QED
        BY <3>3, <4>1, <4>2
    <3> QED
      BY <3>1, <3>2, <3>3
  <2> QED
    BY <2>2, <2>3
<1>5. ASSUME NEW A \in K, NEW R \in SUBSET Rest PROVE \E x \in Chosen : f[x] = <<A, R>>
  <2> DEFINE x == (A \cap ((b + 1)..m)) \cup ((1..b) \ A) \cup R
  <2>1. A \subseteq 1..m /\ R \subseteq Rest
    OBVIOUS
  <2>2. x \in SUBSET (1..(m + o))
    BY <2>1
  <2>3. x \cap Rest = R
    <3>1. ASSUME NEW i \in Rest PROVE i \in x <=> i \in R
      <4>1. i \notin 1..b /\ i \notin (b + 1)..m
        OBVIOUS
      <4> QED
        BY <4>1
    <3> QED
      BY <2>1, <3>1
  <2>4. Favouring(x, b, c) = A
    <3>1. ASSUME NEW i \in 1..m PROVE i \in Favouring(x, b, c) <=> i \in A
      <4>1. i \notin R
        BY <2>1
      <4>2. CASE i \in 1..b
        <5>1. i \notin (b + 1)..m
          BY <4>2
        <5> QED
          BY <4>1, <4>2, <5>1
      <4>3. CASE i \in (b + 1)..m
        <5>1. i \notin 1..b
          BY <4>3
        <5> QED
          BY <4>1, <4>3, <5>1
      <4> QED
        BY <4>2, <4>3
    <3>2. Favouring(x, b, c) \subseteq 1..m
      OBVIOUS
    <3> QED
      BY <2>1, <3>1, <3>2
  <2> HIDE DEF x
  <2>5. x \in Chosen
    BY <2>2, <2>4
  <2>6. f[x] = <<A, R>>
    BY <2>3, <2>4, <2>5
  <2> QED
    BY <2>5, <2>6
<1>6. IsFiniteSet(K \X (SUBSET Rest)) /\ Cardinality(K \X (SUBSET Rest)) = Cardinality(K) * 2^o
  <2> DEFINE W == SUBSET Rest
  <2>1. IsFiniteSet(W) /\ Cardinality(W) = 2^o
    BY <1>2
  <2> HIDE DEF W
  <2>2. IsFiniteSet(K \X W) /\ Cardinality(K \X W) = Cardinality(K) * Cardinality(W)
    BY <1>1, <2>1, FS_Product
  <2> QED
    BY <2>1, <2>2 DEF W
<1>7. \A y \in K \X (SUBSET Rest) : \E x \in Chosen : f[x] = y
  <2> HIDE DEF f, Chosen, Rest, SignsFor, Favouring
  <2> QED
    BY <1>5
<1>8. IsFiniteSet(Chosen)
  <2> DEFINE W == SUBSET (1..(m + o))
  <2>1. IsFiniteSet(W) /\ Chosen \in SUBSET W
    <3>1. m + o \in Nat
      OBVIOUS
    <3>2. IsFiniteSet(1..(m + o))
      BY <3>1, IntervalCardinality
    <3>3. IsFiniteSet(SUBSET (1..(m + o)))
      BY <3>2, FS_SUBSET
    <3> QED
      BY <3>3
  <2> HIDE DEF W, Chosen, SignsFor, Favouring
  <2> QED
    BY <2>1, FS_Subset
<1> DEFINE T == K \X (SUBSET Rest)
<1>9. f \in Bijection(Chosen, T)
  <2>1. f \in [Chosen -> T] /\ \A y \in T : \E x \in Chosen : f[x] = y
    BY <1>3, <1>7
  <2> HIDE DEF f, Chosen, T, SignsFor, Favouring
  <2> QED
    BY <1>4, <2>1 DEF Bijection, Injection, Surjection, IsInjective
<1>10. Cardinality(T) = Cardinality(Chosen)
  <2> HIDE DEF f, Chosen, T, SignsFor, Favouring
  <2> QED
    BY <1>8, <1>9, FS_Bijection DEF ExistsBijection
<1> QED
  BY <1>1, <1>6, <1>8, <1>10

\* Both tails together are twice one of them, or everything.
LEMMA BothTails ==
    ASSUME NEW b \in Nat, NEW c \in Nat
    PROVE  LET m == b + c
               s == IF b < c THEN b ELSE c
               K == {A \in SUBSET (1..m) : Cardinality(A) <= s \/ Cardinality(A) >= m - s}
           IN  Cardinality(K) * McNemar(b, c).den = McNemar(b, c).num * 2^m
<1> DEFINE m == b + c
           s == IF b < c THEN b ELSE c
           W == SUBSET (1..m)
           Low == {A \in W : Cardinality(A) <= s}
           High == {A \in W : Cardinality(A) >= m - s}
           K == {A \in W : Cardinality(A) <= s \/ Cardinality(A) >= m - s}
           f == [A \in Low |-> (1..m) \ A]
<1>1. m \in Nat /\ s \in Nat /\ 2 * s <= m
  OBVIOUS
<1>2. IsFiniteSet(1..m) /\ Cardinality(1..m) = m
  BY <1>1, IntervalCardinality
<1>3. IsFiniteSet(W) /\ Cardinality(W) = 2^m
  BY <1>2, FS_SUBSET
<1>4. 2^m \in Nat \ {0}
  BY <1>1, PowersArePositive
<1>5. ASSUME NEW A \in W
      PROVE  /\ (1..m) \ A \in W /\ (1..m) \ ((1..m) \ A) = A
             /\ Cardinality(A) \in Nat /\ Cardinality((1..m) \ A) = m - Cardinality(A)
  <2> DEFINE X == 1..m
  <2>1. IsFiniteSet(X) /\ Cardinality(X) = m /\ A \in SUBSET X /\ X \cap A = A
    BY <1>2
  <2> HIDE DEF X
  <2>2. IsFiniteSet(A) /\ Cardinality(X \ A) = Cardinality(X) - Cardinality(X \cap A)
    BY <2>1, FS_Subset, FS_Difference
  <2>3. Cardinality(A) \in Nat
    BY <2>2, FS_CardinalityType
  <2>4. (1..m) \ A \in W /\ (1..m) \ ((1..m) \ A) = A
    OBVIOUS
  <2> QED
    BY <2>1, <2>2, <2>3, <2>4 DEF X
<1>6. K = Low \cup High /\ Low \in SUBSET W /\ High \in SUBSET W /\ K \in SUBSET W
  OBVIOUS
<1>7. f \in Bijection(Low, High)
  <2>1. \A A \in Low : Cardinality((1..m) \ A) >= m - s /\ (1..m) \ A \in W
    BY <1>1, <1>5
  <2>2. f \in [Low -> High]
    BY <2>1
  <2>3. ASSUME NEW A \in Low, NEW B \in Low, f[A] = f[B] PROVE A = B
    BY <1>5, <2>3
  <2>4. ASSUME NEW B \in High PROVE \E A \in Low : f[A] = B
    <3> DEFINE A == (1..m) \ B
    <3>1. A \in W /\ (1..m) \ A = B /\ Cardinality(B) \in Nat /\ Cardinality(A) = m - Cardinality(B)
          /\ Cardinality(B) >= m - s
      BY <1>5
    <3>2. A \in Low
      BY <1>1, <3>1
    <3> QED
      BY <3>1, <3>2
  <2> HIDE DEF f, Low, High
  <2> QED
    BY <2>2, <2>3, <2>4 DEF Bijection, Injection, Surjection, IsInjective
<1>8. Choices(m, s) = Cardinality(Low)
  BY DEF Choices
<1>9. \A A \in Low \cap High : Cardinality(A) \in Nat /\ Cardinality(A) <= s /\ Cardinality(A) >= m - s
  BY <1>5
<1>10. 2 * s = m => \A A \in W : A \in K
  <2>1. ASSUME 2 * s = m, NEW A \in W PROVE A \in K
    <3>1. Cardinality(A) \in Nat
      BY <1>5, <2>1
    <3>2. \A k \in Nat : k <= s \/ k >= m - s
      <4> HIDE DEF m, s
      <4> QED
        BY <1>1, <2>1
    <3> QED
      BY <2>1, <3>1, <3>2
  <2> QED
    BY <2>1
<1>11. m = 0 => K = {{}} /\ 2^m = 1
  <2> SUFFICES ASSUME m = 0 PROVE K = {{}} /\ 2^m = 1
    OBVIOUS
  <2>1. 1..m = {} /\ s = 0
    OBVIOUS
  <2>2. W = {{}}
    BY <2>1
  <2>3. K = {{}}
    BY <2>1, <2>2, FS_EmptySet
  <2>4. Cardinality(W) = 1
    BY <2>2, FS_Singleton
  <2> QED
    BY <1>3, <2>3, <2>4
<1> HIDE DEF Low, High, K, W, f
<1>12. IsFiniteSet(Low) /\ IsFiniteSet(High) /\ IsFiniteSet(K) /\ Cardinality(K) <= 2^m
  BY <1>3, <1>6, FS_Subset
<1>13. Cardinality(High) = Cardinality(Low)
  BY <1>7, <1>12, FS_Bijection DEF ExistsBijection
<1>14. Cardinality(K) = Cardinality(Low) + Cardinality(High) - Cardinality(Low \cap High)
  BY <1>6, <1>12, FS_Union
<1>15. /\ Cardinality(Low) \in Nat /\ Cardinality(K) \in Nat /\ IsFiniteSet(Low \cap High)
       /\ Cardinality(Low \cap High) \in Nat
  BY <1>12, FS_CardinalityType, FS_Intersection
<1>16. CASE m = 0
  <2>1. Cardinality(K) = 1 /\ 2^m = 1
    BY <1>11, <1>16, FS_Singleton
  <2>2. McNemar(b, c) = [num |-> 1, den |-> 1]
    BY <1>16 DEF McNemar
  <2> QED
    BY <2>1, <2>2 DEF K, W
<1>17. CASE m # 0
  <2> DEFINE tail == Choices(m, s)  whole == 2^m
  <2>1. McNemar(b, c) = [num |-> IF 2 * tail > whole THEN whole ELSE 2 * tail, den |-> whole]
    BY <1>17 DEF McNemar
  <2>2. tail = Cardinality(Low) /\ whole \in Nat \ {0}
    BY <1>4, <1>8
  <2>3. CASE 2 * s = m
    <3>1. K = W
      BY <1>6, <1>10, <2>3
    <3>2. Cardinality(K) = whole
      BY <1>3, <3>1
    <3>3. 2 * tail >= whole
      BY <1>13, <1>14, <1>15, <2>2, <3>2
    <3> HIDE DEF tail, whole
    <3>4. McNemar(b, c).num = whole /\ McNemar(b, c).den = whole
      BY <1>15, <2>1, <2>2, <3>3
    <3> QED
      BY <3>2, <3>4 DEF whole, K, W
  <2>4. CASE 2 * s # m
    <3>1. Low \cap High = {}
      BY <1>1, <1>9, <2>4
    <3>2. Cardinality(K) = 2 * tail
      BY <1>13, <1>14, <1>15, <2>2, <3>1, FS_EmptySet
    <3>3. 2 * tail <= whole
      BY <1>12, <3>2
    <3> HIDE DEF tail, whole
    <3>4. McNemar(b, c).num = 2 * tail /\ McNemar(b, c).den = whole
      BY <1>15, <2>1, <2>2, <3>3
    <3> QED
      BY <3>2, <3>4 DEF whole, K, W
  <2> QED
    BY <2>3, <2>4
<1> QED
  BY <1>16, <1>17 DEF K, W

\* Signs are as extreme as those observed when the pairs that favour the candidate
\* are few, or all but a few.
LEMMA ExtremeSigns ==
    ASSUME InputInv, flips # NoValue, NEW mask \in SUBSET (1..n)
    PROVE  LET m == b_only + c_only
               s == IF b_only < c_only THEN b_only ELSE c_only
               A == Favouring(mask, b_only, c_only)
           IN  mask \in Exceedances(differences) <=> Cardinality(A) <= s \/ Cardinality(A) >= m - s
<1> DEFINE b == b_only  c == c_only  m == b + c  o == n - m
           s == IF b < c THEN b ELSE c
           A == Favouring(mask, b, c)
           d == differences
           e == [i \in 1..n |-> IF i \in mask THEN d[i] ELSE -d[i]]
<1>1. b \in Nat /\ c \in Nat /\ m \in Nat /\ o \in Nat /\ n \in Nat /\ m + o = n
  BY PairsAreCounted DEF CountsOfPairs
<1>2. \A i \in 1..n : d[i] = IF i <= b THEN -1 ELSE IF i <= m THEN 1 ELSE 0
  <2>1. flips \in Flips /\ differences = Outcomes(flips) /\ differences \in [1..n -> Int]
    BY DEF InputInv
  <2>2. DOMAIN Outcomes(flips) = 1..n
    BY <2>1
  <2> QED
    BY <2>1, <2>2 DEF Outcomes, b_only, c_only
<1>3. d \in [1..n -> Int]
  BY DEF InputInv
<1> HIDE DEF b, c, d
<1> USE DEF Favouring
<1>4. e \in [1..n -> Int]
  BY <1>3
<1>5. /\ \A i \in 1..m : e[i] \in {-1, 1} /\ d[i] \in {-1, 1}
      /\ \A i \in 1..n : i > m => e[i] = 0 /\ d[i] = 0
  BY <1>1, <1>2
<1>6. Ones(e, m) = A
  <2>1. ASSUME NEW i \in 1..m PROVE i \in Ones(e, m) <=> i \in A
    <3>1. i \in 1..n /\ e[i] = IF i \in mask THEN d[i] ELSE -d[i]
      BY <1>1
    <3>2. CASE i \in 1..b
      <4>1. d[i] = -1 /\ i \notin (b + 1)..m
        BY <1>1, <1>2, <3>1, <3>2
      <4> QED
        BY <3>1, <3>2, <4>1 DEF Ones
    <3>3. CASE i \in (b + 1)..m
      <4>1. d[i] = 1 /\ i \notin 1..b
        BY <1>1, <1>2, <3>1, <3>3
      <4> QED
        BY <3>1, <3>3, <4>1 DEF Ones
    <3> QED
      BY <1>1, <3>2, <3>3
  <2>2. A \subseteq 1..m /\ Ones(e, m) \subseteq 1..m
    BY <1>1 DEF Ones
  <2> QED
    BY <2>1, <2>2
<1>7. Ones(d, m) = (b + 1)..m
  <2>1. ASSUME NEW i \in 1..m PROVE d[i] = 1 <=> i \in (b + 1)..m
    BY <1>1, <1>2
  <2> QED
    BY <1>1, <2>1 DEF Ones
<1>8. Cardinality((b + 1)..m) = c
  <2>1. Cardinality((b + 1)..m) = IF b + 1 > m THEN 0 ELSE m - (b + 1) + 1
    BY <1>1, FS_Interval
  <2> QED
    BY <1>1, <2>1
<1> DEFINE x == Cardinality(A)
<1>9. Sum(d) = 2 * c - m
  <2>1. d \in [1..(m + o) -> Int] /\ (\A i \in 1..m : d[i] \in {-1, 1})
        /\ (\A i \in 1..(m + o) : i > m => d[i] = 0)
    BY <1>1, <1>3, <1>5
  <2> HIDE DEF m, o
  <2> QED
    BY <1>1, <1>7, <1>8, <2>1, SumOfSigns
<1>10. Sum(e) = 2 * x - m /\ x \in 0..m
  <2>1. e \in [1..(m + o) -> Int] /\ (\A i \in 1..m : e[i] \in {-1, 1})
        /\ (\A i \in 1..(m + o) : i > m => e[i] = 0)
    BY <1>1, <1>4, <1>5
  <2> HIDE DEF m, o, e, A
  <2> QED
    BY <1>1, <1>6, <2>1, SumOfSigns
<1>11. mask \in Exceedances(d) <=> Abs(Sum(e)) >= Abs(Sum(d))
  BY DEF Exceedances
<1> HIDE DEF A, e, x, Favouring
<1>12. Abs(Sum(e)) >= Abs(Sum(d)) <=> x <= s \/ x >= m - s
  BY <1>1, <1>9, <1>10 DEF Abs
<1> QED
  BY <1>11, <1>12 DEF x, A, b, c, d

\* The exact McNemar test counts the signs of the randomization at a margin of
\* zero (_exact_mcnemar_p_value), for any number of pairs.
THEOREM McNemarIsSigns == StatisticsSpec => []McNemarIsSignTest
<1>1. StatisticsInv => McNemarIsSignTest
  <2> SUFFICES ASSUME StatisticsInv, test # NoValue, flips # NoValue, "p" \in DOMAIN test
               PROVE  test.p.num * 2^n
                          = Cardinality(Exceedances(Centered([num |-> 0, den |-> 1]))) * test.p.den
    BY DEF McNemarIsSignTest
  <2> DEFINE b == b_only  c == c_only  m == b + c  o == n - m
             s == IF b < c THEN b ELSE c
             K == {A \in SUBSET (1..m) : Cardinality(A) <= s \/ Cardinality(A) >= m - s}
             p == McNemar(b, c)
             Signs(X) == SignsFor(X, b, c, o)
  <2>1. test.p = p
    BY DEF StatisticsInv, TestInv
  <2>2. InputInv /\ differences \in [1..n -> Int]
    BY DEF StatisticsInv, InputInv
  <2>3. b \in Nat /\ c \in Nat /\ m \in Nat /\ o \in Nat /\ n \in Nat /\ m + o = n
    BY <2>2, PairsAreCounted DEF CountsOfPairs
  <2>4. Centered([num |-> 0, den |-> 1]) = differences
    BY <2>2 DEF Centered
  <2>5. Exceedances(differences) = Signs(K)
    <3>1. ASSUME NEW mask \in SUBSET (1..n)
          PROVE  mask \in Exceedances(differences) <=> Favouring(mask, b, c) \in K
      <4>1. mask \in Exceedances(differences)
                <=> Cardinality(Favouring(mask, b, c)) <= s \/ Cardinality(Favouring(mask, b, c)) >= m - s
        BY <2>2, ExtremeSigns
      <4>2. Favouring(mask, b, c) \in SUBSET (1..m)
        BY <2>3 DEF Favouring
      <4> QED
        BY <4>1, <4>2
    <3>2. Exceedances(differences) \subseteq SUBSET (1..n)
      BY DEF Exceedances
    <3> QED
      BY <2>3, <3>1, <3>2 DEF SignsFor
  <2> HIDE DEF b, c
  <2>6. /\ IsFiniteSet(K) /\ Cardinality(Signs(K)) = Cardinality(K) * 2^o
    <3>1. K \in SUBSET (SUBSET (1..(b + c)))
      OBVIOUS
    <3> HIDE DEF K
    <3> QED
      BY <2>3, <3>1, SignsAreChoices
  <2>7. 2^n = 2^m * 2^o
    <3> DEFINE W == SUBSET (1..(b + c))
    <3>1. /\ W \in SUBSET (SUBSET (1..(b + c)))
          /\ Signs(W) = SUBSET (1..(m + o))
      <4>1. ASSUME NEW mask \in SUBSET (1..(m + o)) PROVE Favouring(mask, b, c) \in W
        BY <2>3 DEF Favouring
      <4> QED
        BY <4>1 DEF SignsFor
    <3>2. Cardinality(W) = 2^m /\ Cardinality(SUBSET (1..(m + o))) = 2^(m + o)
      <4>1. IsFiniteSet(1..m) /\ Cardinality(1..m) = m
        BY <2>3, IntervalCardinality
      <4>2. IsFiniteSet(1..(m + o)) /\ Cardinality(1..(m + o)) = m + o
        BY <2>3, IntervalCardinality
      <4> QED
        BY <4>1, <4>2, FS_SUBSET
    <3>3. Cardinality(Signs(W)) = Cardinality(W) * 2^o
      <4> HIDE DEF W
      <4> QED
        BY <2>3, <3>1, SignsAreChoices
    <3> QED
      BY <2>3, <3>1, <3>2, <3>3
  <2>8. Cardinality(K) * p.den = p.num * 2^m
    BY <2>3, BothTails
  <2>9. IsProper(p)
    BY <2>3, McNemarIsProper
  <2> DEFINE x == Cardinality(K)  y == 2^m  z == 2^o  num == p.num  den == p.den
  <2>10. x \in Nat /\ y \in Nat /\ z \in Nat /\ num \in Nat /\ den \in Nat /\ x * den = num * y
    BY <2>3, <2>6, <2>8, <2>9, FS_CardinalityType, PowersArePositive DEF IsProper
  <2>11. num * (y * z) = (x * z) * den
    <3> HIDE DEF x, y, z, num, den
    <3>1. num * (y * z) = (num * y) * z /\ (x * z) * den = (x * den) * z
      BY <2>10
    <3> QED
      BY <2>10, <3>1
  <2> QED
    BY <2>1, <2>4, <2>5, <2>6, <2>7, <2>11
<1> QED
  BY <1>1, StatisticsInvariance, PTL

-----------------------------------------------------------------------------
(* What the score test accepts is one interval *)

\* Two products that rise with x, one of them faster than x, pass whatever is
\* proportional to x only once.
LEMMA RiseTogether ==
    ASSUME NEW x \in Nat \ {0}, NEW y \in Nat \ {0}, x <= y,
           NEW u \in Int, NEW v \in Int, y * u <= x * v, 0 < u,
           NEW z \in Int, NEW w \in Int, z <= w, NEW t \in Nat, t * x < u * z
    PROVE  0 < v /\ t * y < v * w
<1>1. 0 <= t * x /\ t * x \in Int /\ u * z \in Int
  BY ProductsGrow
<1>2. z > 0
  <2> SUFFICES ASSUME z <= 0 PROVE FALSE
    OBVIOUS
  <2>1. u \in Nat /\ z * u <= 0 * u /\ z * u = u * z /\ 0 * u = 0
    BY ProductsGrow
  <2> QED
    BY <1>1, <2>1
<1>3. y * u \in Nat \ {0} /\ x * v \in Nat \ {0}
  <2>1. y * u \in Nat \ {0}
    BY ProductsGrow
  <2> QED
    BY <2>1
<1>4. 0 < v
  <2> SUFFICES ASSUME v <= 0 PROVE FALSE
    OBVIOUS
  <2>1. v * x <= 0 * x /\ v * x = x * v /\ 0 * x = 0
    BY ProductsGrow
  <2> QED
    BY <1>3, <2>1
<1>5. (y * u) * z <= (y * u) * w /\ (y * u) * w <= (x * v) * w
  <2>1. z * (y * u) <= w * (y * u) /\ z * (y * u) = (y * u) * z /\ w * (y * u) = (y * u) * w
    <3> DEFINE p == y * u
    <3>1. p \in Nat
      BY <1>3
    <3> HIDE DEF p
    <3>2. z * p <= w * p /\ z * p = p * z /\ w * p = p * w
      BY <3>1, ProductsGrow
    <3> QED
      BY <3>2 DEF p
  <2>2. (y * u) * w <= (x * v) * w
    BY <1>2, <1>3, ProductsGrow
  <2> QED
    BY <2>1, <2>2
<1>6. (y * u) * z = (u * z) * y /\ (x * v) * w = (v * w) * x /\ (t * y) * x = (t * x) * y
  OBVIOUS
<1>7. (t * x + 1) * y <= (u * z) * y /\ (t * x + 1) * y = (t * x) * y + y
  BY <1>1, ProductsGrow
<1>8. ~(v * w <= t * y)
  <2> SUFFICES ASSUME v * w <= t * y PROVE FALSE
    OBVIOUS
  <2>1. (v * w) * x <= (t * y) * x
    BY ProductsGrow
  <2>2. (t * x) * y \in Int /\ (u * z) * y \in Int /\ (v * w) * x \in Int /\ (y * u) * w \in Int
    OBVIOUS
  <2> QED
    BY <1>5, <1>6, <1>7, <2>1, <2>2
<1> QED
  BY <1>4, <1>8

\* A square less something constant, with a linear term, rises faster than x.
LEMMA RisesFaster ==
    ASSUME NEW x \in Nat \ {0}, NEW y \in Nat \ {0}, x <= y, NEW m \in Nat \ {0},
           NEW g \in Nat, NEW h \in Int, NEW r \in Nat, NEW u \in Int, NEW v \in Int,
           m * u = g * (x * x) + h * x - r, m * v = g * (y * y) + h * y - r
    PROVE  y * u <= x * v
<1> DEFINE p == g * (x * y) + r
<1>1. p \in Nat
  BY ProductsGrow
<1>2. (y * u) * m = y * (m * u) /\ (x * v) * m = x * (m * v)
  OBVIOUS
<1>3. x * (g * (y * y) + h * y - r) = y * (g * (x * x) + h * x - r) + (y * p - x * p)
  OBVIOUS
<1> HIDE DEF p
<1>4. x * p <= y * p
  BY <1>1, ProductsGrow
<1>5. x * p \in Int /\ y * p \in Int /\ y * (m * u) \in Int /\ x * (m * v) \in Int
  BY <1>1
<1>6. (y * u) * m <= (x * v) * m
  BY <1>2, <1>3, <1>4, <1>5
<1> QED
  BY <1>6, ProductsGrow

\* The null value d/q in units of 1/(m * q), counted from the effect.
Lead(m, b, c, d, q) == m * d - (c - b) * q

\* The square of the gap, less or more the critical value times the variance
\* that the null value has when the smaller of the two counts is not expected.
Above(m, b, c, k, d, q) == Lead(m, b, c, d, q) * Lead(m, b, c, d, q) - k * (m * d * (q - d))
Below(m, b, c, k, d, q) == Lead(m, b, c, d, q) * Lead(m, b, c, d, q) + k * (m * d * (q + d))

Slope(m, b, c, d, q) == -(b + c) * q + (2 * m - c + b) * d

\* The two sides of the test, and a quarter of the difference of their squares.
Side(m, b, c, k, d, q) == 2 * Above(m, b, c, k, d, q) + k * q * Slope(m, b, c, d, q)
Excess(m, b, c, k, d, q) ==
    Above(m, b, c, k, d, q) * (Above(m, b, c, k, d, q) + k * q * Slope(m, b, c, d, q))
    - 2 * (k * q) * (k * q) * b * (m * d * (q - d))

\* What rises with the gap, and what is proportional to it.
Push(m, b, c, k, d, q) == (m + k) * Lead(m, b, c, d, q) + k * (m + c - b) * q
Toll(m, b, k, q) == 2 * b * k * m * q * q
Balance(m, b, c, k, d, q) ==
    Above(m, b, c, k, d, q) * Push(m, b, c, k, d, q) - Toll(m, b, k, q) * Lead(m, b, c, d, q)

Refuses(m, b, c, k, d, q) == 0 < Side(m, b, c, k, d, q) /\ 0 < Excess(m, b, c, k, d, q)

LEMMA TestTypes ==
    ASSUME NEW m \in Nat \ {0}, NEW b \in Nat, NEW c \in Nat, NEW k \in Nat \ {0},
           NEW d \in Int, NEW q \in Nat \ {0}
    PROVE  /\ Lead(m, b, c, d, q) \in Int /\ Above(m, b, c, k, d, q) \in Int
           /\ Below(m, b, c, k, d, q) \in Int /\ Slope(m, b, c, d, q) \in Int
           /\ Side(m, b, c, k, d, q) \in Int /\ Excess(m, b, c, k, d, q) \in Int
           /\ Push(m, b, c, k, d, q) \in Int /\ Toll(m, b, k, q) \in Nat
           /\ Balance(m, b, c, k, d, q) \in Int
<1>1. Lead(m, b, c, d, q) \in Int
  BY DEF Lead
<1>2. Above(m, b, c, k, d, q) \in Int /\ Below(m, b, c, k, d, q) \in Int
  BY <1>1 DEF Above, Below
<1>3. Slope(m, b, c, d, q) \in Int
  BY DEF Slope
<1>4. Side(m, b, c, k, d, q) \in Int
  BY <1>2, <1>3 DEF Side
<1>5. Excess(m, b, c, k, d, q) \in Int
  BY <1>2, <1>3 DEF Excess
<1>6. Push(m, b, c, k, d, q) \in Int
  BY <1>1 DEF Push
<1>7. Toll(m, b, k, q) \in Nat
  <2>1. b * k \in Nat /\ (b * k) * m \in Nat /\ ((b * k) * m) * q \in Nat /\ (((b * k) * m) * q) * q \in Nat
    BY ProductsGrow
  <2>2. Toll(m, b, k, q) = 2 * ((((b * k) * m) * q) * q)
    BY DEF Toll
  <2> HIDE DEF Toll
  <2> QED
    BY <2>1, <2>2
<1>8. Balance(m, b, c, k, d, q) \in Int
  BY <1>1, <1>2, <1>6, <1>7 DEF Balance
<1> QED
  BY <1>1, <1>2, <1>3, <1>4, <1>5, <1>6, <1>7, <1>8

\* Accepting, without roots.
LEMMA AcceptedIsNotRefused ==
    ASSUME CountsOfPairs, NEW d \in Int, NEW q \in Nat \ {0}, NEW l \in Levels
    PROVE  Accepts(d, q, l) <=> ~Refuses(n, b_only, c_only, l.critical, d, q)
<1> DEFINE k == l.critical  x == Side(n, b_only, c_only, k, d, q)
           a == Above(n, b_only, c_only, k, d, q)  s == Slope(n, b_only, c_only, d, q)
           square == Discriminant(d, q)  f == Excess(n, b_only, c_only, k, d, q)
           w == n * d * (q - d)
<1>1. k \in Nat \ {0} /\ n \in Nat \ {0} /\ b_only \in Nat /\ c_only \in Nat
  BY StatisticsAssumption DEF CountsOfPairs
<1>2. x \in Int /\ f \in Int /\ a \in Int /\ s \in Int /\ w \in Int /\ Lead(n, b_only, c_only, d, q) \in Int
  <2>1. w \in Int
    BY <1>1
  <2> HIDE DEF k
  <2>2. x \in Int /\ f \in Int /\ a \in Int /\ s \in Int /\ Lead(n, b_only, c_only, d, q) \in Int
    BY <1>1, TestTypes
  <2> QED
    BY <2>1, <2>2
<1>3. CoefficientB(d, q) = s
  BY <1>1 DEF CoefficientB, Slope
<1>4. square = s * s + 8 * b_only * w
  BY <1>1, <1>2, <1>3 DEF Discriminant
<1>5. Accepts(d, q, l) <=> AtMostRoot(x, k * q, square)
  <2>1. Effect * q - n * d = -Lead(n, b_only, c_only, d, q) /\ Effect \in Int
    BY <1>1 DEF Effect, Lead
  <2> DEFINE g == Lead(n, b_only, c_only, d, q)  h == Effect * q - n * d
  <2>2. 2 * h * h = 2 * (g * g)
    <3>1. h = -g /\ g \in Int
      BY <1>2, <2>1
    <3> HIDE DEF g, h
    <3> QED
      BY <3>1
  <2>3. 2 * h * h + k * (q * CoefficientB(d, q) - 2 * n * d * (q - d)) = x
    <3>1. x = 2 * (g * g - k * w) + k * q * s
      BY DEF Side, Above
    <3>2. 2 * n * d * (q - d) = 2 * w
      BY <1>1
    <3>3. g \in Int /\ h \in Int
      BY <1>1, <1>2, <2>1
    <3> DEFINE v == CoefficientB(d, q)  o == 2 * n * d * (q - d)
    <3>4. v = s /\ o = 2 * w
      BY <1>3, <3>2
    <3> HIDE DEF g, h, w, s, x, k, v, o
    <3>5. 2 * h * h + k * (q * v - o) = x
      BY <1>1, <1>2, <2>2, <3>1, <3>3, <3>4
    <3> QED
      BY <3>5 DEF v, o
  <2> QED
    BY <2>3 DEF Accepts
<1>6. x * x - ((k * q) * (k * q)) * square = 4 * f
  <2>1. x = 2 * a + k * q * s
    BY DEF Side
  <2>2. f = a * (a + k * q * s) - 2 * (k * q) * (k * q) * b_only * w
    BY DEF Excess
  <2> HIDE DEF x, a, s, f, w, square
  <2> DEFINE p == k * q
  <2>3. p \in Int /\ k * q * s = p * s
    BY <1>1
  <2> HIDE DEF p
  <2>4. x = 2 * a + p * s /\ f = a * (a + p * s) - 2 * p * p * b_only * w
    BY <2>1, <2>2, <2>3 DEF p
  <2> QED
    BY <1>1, <1>2, <1>4, <2>3, <2>4 DEF p
<1>7. k * q \in Nat \ {0} /\ square \in Int
  BY <1>1, <1>2, <1>4, ProductsGrow
<1> HIDE DEF x, f, square, k
<1>8. CASE x <= 0
  BY <1>2, <1>5, <1>8 DEF Refuses, AtMostRoot, x, k
<1>9. CASE x > 0
  <2>1. Accepts(d, q, l) <=> x * x <= ((k * q) * (k * q)) * square
    BY <1>2, <1>5, <1>7, <1>9, AtMostRootIsSquares
  <2>2. ((k * q) * (k * q)) * square \in Int /\ x * x \in Int
    BY <1>2, <1>7
  <2>3. Accepts(d, q, l) <=> ~(0 < f)
    BY <1>2, <1>6, <2>1, <2>2
  <2> QED
    BY <1>9, <2>3 DEF Refuses, x, f, k
<1> QED
  BY <1>2, <1>8, <1>9

\* Exchanging the two sides changes the sign of the null value.
MirrorAt(m, b, c, k, d, q) ==
    /\ Lead(m, c, b, -d, q) = -Lead(m, b, c, d, q)
    /\ Above(m, c, b, k, -d, q) = Below(m, b, c, k, d, q)
    /\ Below(m, c, b, k, -d, q) = Above(m, b, c, k, d, q)
    /\ Side(m, c, b, k, -d, q) = Side(m, b, c, k, d, q)
    /\ Excess(m, c, b, k, -d, q) = Excess(m, b, c, k, d, q)

LEMMA Mirrors ==
    ASSUME NEW m \in Nat \ {0}, NEW b \in Nat, NEW c \in Nat, NEW k \in Nat \ {0},
           NEW d \in Int, NEW q \in Nat \ {0}
    PROVE  MirrorAt(m, b, c, k, d, q)
<1> DEFINE g == Lead(m, b, c, d, q)  u == Above(m, b, c, k, d, q)  v == Below(m, b, c, k, d, q)
           s == Slope(m, b, c, d, q)  z == Slope(m, c, b, -d, q)  h == k * q
           w == m * d * (q - d)  y == m * d * (q + d)
<1>1. g \in Int /\ u \in Int /\ v \in Int /\ s \in Int
  BY TestTypes
<1>2. Lead(m, c, b, -d, q) = -g
  BY DEF Lead
<1>3. (-g) * (-g) = g * g
  BY <1>1
<1>4. m * (-d) * (q - (-d)) = -y /\ m * (-d) * (q + (-d)) = -w
  OBVIOUS
<1>5. w \in Int /\ y \in Int /\ h \in Int
  OBVIOUS
<1>6. Above(m, c, b, k, -d, q) = v
  <2>1. Above(m, c, b, k, -d, q) = g * g - k * (m * (-d) * (q - (-d)))
    BY <1>2, <1>3 DEF Above
  <2>2. v = g * g + k * y
    BY DEF Below
  <2>3. k * (-y) = -(k * y) /\ k * y \in Int /\ g * g \in Int
    BY <1>1, <1>5
  <2> HIDE DEF g, v, y
  <2> QED
    BY <1>4, <2>1, <2>2, <2>3
<1>7. Below(m, c, b, k, -d, q) = u
  <2>1. Below(m, c, b, k, -d, q) = g * g + k * (m * (-d) * (q + (-d)))
    BY <1>2, <1>3 DEF Below
  <2>2. u = g * g - k * w
    BY DEF Above
  <2>3. k * (-w) = -(k * w) /\ k * w \in Int /\ g * g \in Int
    BY <1>1, <1>5
  <2> HIDE DEF g, u, w
  <2> QED
    BY <1>4, <2>1, <2>2, <2>3
<1>8. z \in Int /\ z = s - 4 * (m * d)
  BY DEF Slope
<1>9. v = u + 2 * (h * (m * d))
  <2>1. v = g * g + k * y /\ u = g * g - k * w
    BY DEF Below, Above
  <2>2. k * y = 2 * (h * (m * d)) - k * w
    OBVIOUS
  <2>3. k * y \in Int /\ k * w \in Int /\ g * g \in Int /\ h * (m * d) \in Int
    BY <1>1, <1>5
  <2> HIDE DEF g, u, v, w, y, h
  <2> QED
    BY <2>1, <2>2, <2>3
<1>10. h * z = h * s - 4 * (h * (m * d)) /\ h * s \in Int /\ h * (m * d) \in Int
  <2> HIDE DEF z, s, h
  <2> QED
    BY <1>1, <1>5, <1>8
<1>11. Side(m, c, b, k, -d, q) = Side(m, b, c, k, d, q)
  <2>1. Side(m, c, b, k, -d, q) = 2 * v + h * z /\ Side(m, b, c, k, d, q) = 2 * u + h * s
    BY <1>6 DEF Side
  <2> HIDE DEF v, u, h, z, s
  <2> QED
    BY <1>1, <1>9, <1>10, <2>1
<1>12. Excess(m, c, b, k, -d, q) = Excess(m, b, c, k, d, q)
  <2>1. /\ Excess(m, c, b, k, -d, q) = v * (v + h * z) - 2 * h * h * c * (m * (-d) * (q - (-d)))
        /\ Excess(m, b, c, k, d, q) = u * (u + h * s) - 2 * h * h * b * w
    BY <1>6 DEF Excess
  <2> DEFINE t == m * d
  <2>2. s * t - 2 * (t * t) + c * y = -(b * w)
    BY DEF Slope
  <2>3. t \in Int
    OBVIOUS
  <2>4. m * (-d) * (q - (-d)) = -y
    BY <1>4
  <2>5. 2 * h * h * c * (-y) = -(2 * (h * h) * (c * y)) /\ 2 * h * h * b * w = 2 * (h * h) * (b * w)
    <3> HIDE DEF h, y, w
    <3> QED
      BY <1>5
  <2>6. /\ 2 * (h * h) * (s * t) = 2 * ((h * h) * (s * t)) /\ 4 * (h * h) * (t * t) = 4 * ((h * h) * (t * t))
        /\ 2 * (h * h) * (c * y) = 2 * ((h * h) * (c * y)) /\ 2 * (h * h) * (b * w) = 2 * ((h * h) * (b * w))
    <3> HIDE DEF h, s, t, y, w, u
    <3> QED
      BY <1>1, <1>5, <2>3
  <2>7. v * (v + h * z) = u * (u + h * s) + 2 * (h * h) * (s * t) - 4 * (h * h) * (t * t)
    <3>1. v = u + 2 * (h * t) /\ h * z = h * s - 4 * (h * t)
      BY <1>9, <1>10
    <3> DEFINE o == h * t  x == h * s
    <3>2. o \in Int /\ x \in Int /\ o * x = (h * h) * (s * t) /\ o * o = (h * h) * (t * t)
      <4> HIDE DEF h, s, t
      <4> QED
        BY <1>1, <1>5, <2>3
    <3>3. v = u + 2 * o /\ h * z = x - 4 * o
      BY <3>1
    <3> HIDE DEF o, x
    <3>4. v * (v + h * z) = (u + 2 * o) * (u + x - 2 * o)
      <4> HIDE DEF v, u, h, z
      <4> QED
        BY <1>1, <3>2, <3>3
    <3>5. (u + 2 * o) * (u + x - 2 * o) = u * (u + x) + 2 * (o * x) - 4 * (o * o)
      <4> HIDE DEF u
      <4> QED
        BY <1>1, <3>2
    <3>6. u * (u + x) \in Int /\ o * x \in Int /\ o * o \in Int
      BY <1>1, <3>2
    <3>7. h * s = x
      BY DEF x
    <3> HIDE DEF v, u, h, z, s, t
    <3> QED
      BY <2>6, <3>2, <3>4, <3>5, <3>6, <3>7
  <2>8. (h * h) * (s * t) - 2 * ((h * h) * (t * t)) + (h * h) * (c * y) = -((h * h) * (b * w))
    <3> DEFINE i == s * t  j == t * t  e == c * y  f == b * w  p == h * h
    <3>1. i \in Int /\ j \in Int /\ e \in Int /\ f \in Int /\ p \in Int
      BY <1>1, <1>5, <2>3
    <3>2. i - 2 * j + e = -f
      BY <2>2
    <3> HIDE DEF i, j, e, f, p
    <3>3. p * i - 2 * (p * j) + p * e = p * (i - 2 * j + e) /\ p * (-f) = -(p * f)
      BY <3>1
    <3> QED
      BY <3>2, <3>3 DEF i, j, e, f, p
  <2>9. /\ (h * h) * (s * t) \in Int /\ (h * h) * (t * t) \in Int
        /\ (h * h) * (c * y) \in Int /\ (h * h) * (b * w) \in Int /\ u * (u + h * s) \in Int
    <3> HIDE DEF h, s, t, y, w, u
    <3> QED
      BY <1>1, <1>5, <2>3
  <2> DEFINE o == 2 * h * h * c * (m * (-d) * (q - (-d)))
  <2>10. o = -(2 * (h * h) * (c * y))
    BY <2>4, <2>5
  <2> HIDE DEF h, s, t, y, w, u, v, z, o
  <2>11. Excess(m, c, b, k, -d, q) = v * (v + h * z) - o
    BY <2>1 DEF o
  <2> DEFINE i == (h * h) * (s * t)  j == (h * h) * (t * t)  e == (h * h) * (c * y)  f == (h * h) * (b * w)
             x == u * (u + h * s)
  <2>12. i \in Int /\ j \in Int /\ e \in Int /\ f \in Int /\ x \in Int /\ i - 2 * j + e = -f
    BY <2>8, <2>9
  <2>13. v * (v + h * z) = x + 2 * i - 4 * j /\ o = -(2 * e)
    BY <2>6, <2>7, <2>10
  <2>14. Excess(m, b, c, k, d, q) = x - 2 * f
    BY <2>1, <2>5, <2>6
  <2> DEFINE vv == v * (v + h * z)
  <2>15. Excess(m, c, b, k, -d, q) = vv - o /\ vv = x + 2 * i - 4 * j
    BY <2>11, <2>13
  <2> HIDE DEF i, j, e, f, x, vv
  <2> QED
    BY <2>12, <2>13, <2>14, <2>15
<1> QED
  BY <1>2, <1>6, <1>7, <1>11, <1>12 DEF MirrorAt

Balances(m, b, c, k, d, q) ==
    m * Excess(m, b, c, k, d, q) = Lead(m, b, c, d, q) * Balance(m, b, c, k, d, q)

\* The excess is the gap times a difference of two products, and so in one more way.
LEMMA ExcessFactors ==
    ASSUME NEW m \in Nat \ {0}, NEW b \in Nat, NEW c \in Nat, NEW k \in Nat \ {0},
           NEW d \in Int, NEW q \in Nat \ {0}
    PROVE  Balances(m, b, c, k, d, q)
<1> DEFINE g == Lead(m, b, c, d, q)  u == Above(m, b, c, k, d, q)  s == Slope(m, b, c, d, q)
           w == m * d * (q - d)  z == (m + k) * g + k * (m + c - b) * q
           r == m * k * q * q * b  p == k * q  e == (c - b) * q
<1>1. g \in Int /\ u \in Int /\ s \in Int
  BY TestTypes
<1>2. w \in Int /\ z \in Int /\ r \in Int /\ p \in Int /\ e \in Int
  BY <1>1
<1>3. m * d = g + e
  BY DEF Lead
<1>4. m * w = (g + e) * (m * q - (g + e))
  <2> DEFINE t == m * d
  <2>1. m * w = t * (m * q - t)
    OBVIOUS
  <2>2. t = g + e
    BY <1>3
  <2> HIDE DEF t, g, e, w
  <2> QED
    BY <2>1, <2>2
<1>5. m * s = 2 * m * (g + e) - (m * (b + c) * q + (c - b) * (g + e))
  <2>1. m * s = 2 * m * (m * d) - (m * (b + c) * q + (c - b) * (m * d))
    BY DEF Slope
  <2> HIDE DEF g, e, s
  <2> QED
    BY <1>3, <2>1
<1>6. u = g * g - k * w /\ k * w \in Int /\ g * g \in Int
  BY <1>1, <1>2 DEF Above
<1>7. m * u + p * (m * s) + 2 * (m * p * q * b) = g * z
  <2>1. m * u = m * (g * g) - k * ((g + e) * (m * q - (g + e)))
    <3>1. m * u = m * (g * g) - k * (m * w)
      <4> HIDE DEF u, g, w
      <4> QED
        BY <1>1, <1>2, <1>6
    <3> QED
      BY <1>4, <3>1
  <2>2. p * (m * s) = p * (2 * m * (g + e) - (m * (b + c) * q + (c - b) * (g + e)))
    BY <1>5
  <2> HIDE DEF u, s, g
  <2> QED
    BY <1>1, <2>1, <2>2
<1>8. m * Excess(m, b, c, k, d, q) = u * (m * u + p * (m * s)) - 2 * (r * (k * w))
  <2>1. Excess(m, b, c, k, d, q) = u * (u + p * s) - 2 * p * p * b * w
    BY DEF Excess
  <2>2. m * (2 * p * p * b * w) = 2 * (r * (k * w))
    <3> HIDE DEF w
    <3> QED
      BY <1>2
  <2>3. m * (u * (u + p * s)) = u * (m * u + p * (m * s))
    <3> HIDE DEF u, p, s
    <3> QED
      BY <1>1, <1>2
  <2>4. u * (u + p * s) \in Int /\ 2 * p * p * b * w \in Int
    <3> HIDE DEF u, p, s, w
    <3> QED
      BY <1>1, <1>2
  <2> DEFINE x == u * (u + p * s)  y == 2 * p * p * b * w
  <2>5. m * (x - y) = m * x - m * y
    <3> HIDE DEF x, y
    <3> QED
      BY <2>4 DEF x, y
  <2> QED
    BY <2>1, <2>2, <2>3, <2>5
<1>9. r * (k * w) = r * (g * g) - r * u
  <2> DEFINE y == k * w  x == g * g
  <2>1. y = x - u /\ x \in Int
    BY <1>1, <1>6
  <2> HIDE DEF y, x, r, u
  <2>2. r * y = r * x - r * u
    BY <1>1, <1>2, <2>1
  <2> QED
    BY <2>2 DEF y, x
<1>10. m * p * q * b = r
  OBVIOUS
<1>11. m * Excess(m, b, c, k, d, q) = u * (g * z) - 2 * (r * (g * g))
  <2> DEFINE x == m * u + p * (m * s)  y == r * (g * g)
  <2>1. x = g * z - 2 * r /\ x \in Int /\ y \in Int
    <3>1. x + 2 * r = g * z
      BY <1>7, <1>10
    <3>2. x \in Int /\ y \in Int
      <4> HIDE DEF u, p, s, r, g
      <4> QED
        BY <1>1, <1>2
    <3>3. g * z \in Int
      <4> HIDE DEF g, z
      <4> QED
        BY <1>1, <1>2
    <3> HIDE DEF x, y, r, g, z
    <3> QED
      BY <1>2, <3>1, <3>2, <3>3
  <2>2. m * Excess(m, b, c, k, d, q) = u * x - 2 * (y - r * u)
    BY <1>8, <1>9
  <2> DEFINE h == g * z
  <2>3. h \in Int
    <3> HIDE DEF g, z
    <3> QED
      BY <1>1, <1>2
  <2>4. x = h - 2 * r
    BY <2>1
  <2> HIDE DEF x, y, h, u, r
  <2>5. u * x - 2 * (y - r * u) = u * h - 2 * y
    BY <1>1, <1>2, <2>1, <2>3, <2>4
  <2> QED
    BY <2>2, <2>5 DEF h, y
<1>12. u * (g * z) - 2 * (r * (g * g)) = g * (u * z - 2 * r * g)
  <2> HIDE DEF u, g, z, r
  <2> QED
    BY <1>1, <1>2
<1>13. 2 * r = Toll(m, b, k, q)
  BY DEF Toll
<1>14. z = Push(m, b, c, k, d, q)
  BY DEF Push
<1> HIDE DEF g, u, z, r
<1>15. m * Excess(m, b, c, k, d, q) = g * (u * Push(m, b, c, k, d, q) - Toll(m, b, k, q) * g)
  BY <1>11, <1>12, <1>13, <1>14
<1> QED
  BY <1>15 DEF g, u, Balance, Balances

\* The effect, and what is refused on either side of it.
LEMMA NoGapIsAccepted ==
    ASSUME NEW m \in Nat \ {0}, NEW b \in Nat, NEW c \in Nat, NEW k \in Nat \ {0},
           NEW d \in Int, NEW q \in Nat \ {0}, Lead(m, b, c, d, q) = 0
    PROVE  ~Refuses(m, b, c, k, d, q)
<1> DEFINE f == Excess(m, b, c, k, d, q)  x == Balance(m, b, c, k, d, q)
<1>1. f \in Int /\ x \in Int
  BY TestTypes
<1>2. m * f = Lead(m, b, c, d, q) * x
  <2>1. Balances(m, b, c, k, d, q)
    BY ExcessFactors
  <2> QED
    BY <2>1 DEF Balances
<1> HIDE DEF f, x
<1>3. m * f = 0
  BY <1>1, <1>2
<1>4. ~(0 < f)
  BY <1>1, <1>3
<1> QED
  BY <1>4 DEF Refuses, f

\* What is refused above the effect, in the terms that rise with it.
LEMMA ExcessAbove ==
    ASSUME NEW m \in Nat \ {0}, NEW b \in Nat, NEW c \in Nat, NEW k \in Nat \ {0},
           NEW d \in Int, NEW q \in Nat \ {0}, 0 < Lead(m, b, c, d, q)
    PROVE  /\ 0 < Excess(m, b, c, k, d, q) <=> 0 < Balance(m, b, c, k, d, q)
           /\ 0 < Excess(m, b, c, k, d, q) <=> Balance(m, c, b, k, -d, q) < 0
<1> DEFINE g == Lead(m, b, c, d, q)  f == Excess(m, b, c, k, d, q)
           x == Balance(m, b, c, k, d, q)  y == Balance(m, c, b, k, -d, q)
<1>1. -d \in Int
  OBVIOUS
<1>2. g \in Int /\ f \in Int /\ x \in Int /\ y \in Int
  BY <1>1, TestTypes
<1>3. m * f = g * x
  <2>1. Balances(m, b, c, k, d, q)
    BY ExcessFactors
  <2> QED
    BY <2>1 DEF Balances
<1>4. m * f = (-g) * y
  <2>1. Balances(m, c, b, k, -d, q)
    BY <1>1, ExcessFactors
  <2>2. Excess(m, c, b, k, -d, q) = f
    BY Mirrors DEF MirrorAt
  <2>3. Lead(m, c, b, -d, q) = -g
    BY Mirrors DEF MirrorAt
  <2>4. m * Excess(m, c, b, k, -d, q) = Lead(m, c, b, -d, q) * y
    BY <2>1 DEF Balances
  <2> HIDE DEF g, f, y
  <2> QED
    BY <2>2, <2>3, <2>4
<1>5. g \in Nat \ {0}
  BY <1>2
<1> HIDE DEF g, f, x, y
<1>6. ASSUME NEW z \in Int, m * f = g * z PROVE 0 < f <=> 0 < z
  <2>1. 0 < f => 0 < m * f
    BY <1>2
  <2>2. 0 < z => 0 < g * z
    BY <1>5
  <2>3. f <= 0 => m * f <= 0
    BY <1>2
  <2>4. z <= 0 => g * z <= 0
    BY <1>5
  <2>5. m * f \in Int /\ g * z \in Int
    BY <1>2
  <2> QED
    BY <1>2, <1>6, <2>1, <2>2, <2>3, <2>4, <2>5
<1>7. m * f = g * (-y)
  BY <1>2, <1>4
<1>8. 0 < f <=> 0 < x
  BY <1>2, <1>3, <1>6
<1>9. 0 < f <=> 0 < -y
  <2>1. -y \in Int
    BY <1>2
  <2> QED
    BY <1>6, <1>7, <2>1
<1> QED
  BY <1>2, <1>8, <1>9 DEF f, x, y

\* Above and below rise faster than the gap, each where the effect has one sign.
LEMMA AboveRises ==
    ASSUME NEW m \in Nat \ {0}, NEW b \in Nat, NEW c \in Nat, b <= c, c - b <= m, NEW k \in Nat \ {0},
           NEW q \in Nat \ {0}, NEW d \in Int, NEW e \in Int, d <= e, 0 < Lead(m, b, c, d, q)
    PROVE  /\ 0 < Lead(m, b, c, e, q) /\ Lead(m, b, c, d, q) <= Lead(m, b, c, e, q)
           /\ Lead(m, b, c, e, q) * Above(m, b, c, k, d, q) <= Lead(m, b, c, d, q) * Above(m, b, c, k, e, q)
<1> DEFINE x == Lead(m, b, c, d, q)  y == Lead(m, b, c, e, q)  f == c - b
           u == Above(m, b, c, k, d, q)  v == Above(m, b, c, k, e, q)
           h == -(k * ((m - 2 * f) * q))  r == k * (f * (m - f) * (q * q))
<1>1. x \in Int /\ y \in Int /\ u \in Int /\ v \in Int /\ f \in Nat /\ m - f \in Nat
  <2>1. f \in Nat /\ m - f \in Nat
    OBVIOUS
  <2>2. x \in Int /\ y \in Int
    BY DEF Lead
  <2>3. u \in Int /\ v \in Int
    BY TestTypes
  <2> QED
    BY <2>1, <2>2, <2>3
<1>2. x <= y
  <2>1. d * m <= e * m /\ d * m = m * d /\ e * m = m * e
    BY ProductsGrow
  <2>2. x = m * d - f * q /\ y = m * e - f * q /\ f * q \in Int /\ m * d \in Int /\ m * e \in Int
    BY DEF Lead
  <2> HIDE DEF x, y, f
  <2> QED
    BY <2>1, <2>2
<1>3. x \in Nat \ {0} /\ y \in Nat \ {0}
  BY <1>1, <1>2
<1>4. r \in Nat /\ h \in Int
  <2>1. f * (m - f) \in Nat /\ q * q \in Nat
    BY <1>1, ProductsGrow
  <2>2. f * (m - f) * (q * q) \in Nat
    BY <2>1, ProductsGrow
  <2>3. r \in Nat
    BY <2>2, ProductsGrow
  <2> QED
    BY <1>1, <2>3
<1>5. ASSUME NEW i \in Int
      PROVE  m * Above(m, b, c, k, i, q) =
                 (m + k) * (Lead(m, b, c, i, q) * Lead(m, b, c, i, q)) + h * Lead(m, b, c, i, q) - r
  <2> DEFINE z == Lead(m, b, c, i, q)  w == m * i * (q - i)
  <2>1. z \in Int /\ m * i = z + f * q
    BY DEF Lead
  <2>2. m * w = (z + f * q) * (m * q - (z + f * q))
    <3> DEFINE t == m * i
    <3>1. m * w = t * (m * q - t)
      OBVIOUS
    <3>2. t = z + f * q
      BY <2>1
    <3> HIDE DEF t, z, f, w
    <3> QED
      BY <3>1, <3>2
  <2>3. Above(m, b, c, k, i, q) = z * z - k * w
    BY DEF Above
  <2>4. w \in Int
    OBVIOUS
  <2> HIDE DEF z, w, f
  <2>5. m * (z * z - k * w) = m * (z * z) - k * (m * w)
    BY <2>1, <2>4
  <2>6. m * (z * z) - k * ((z + f * q) * (m * q - (z + f * q))) = (m + k) * (z * z) + h * z - r
    BY <1>1, <2>1
  <2>7. m * Above(m, b, c, k, i, q) = (m + k) * (z * z) + h * z - r
    BY <2>2, <2>3, <2>5, <2>6
  <2> QED
    BY <2>7 DEF z
<1>6. m * u = (m + k) * (x * x) + h * x - r /\ m * v = (m + k) * (y * y) + h * y - r
  BY <1>5
<1> HIDE DEF x, y, u, v, h, r
<1>7. m + k \in Nat
  OBVIOUS
<1>8. y * u <= x * v
  BY <1>1, <1>2, <1>3, <1>4, <1>6, <1>7, RisesFaster
<1> QED
  BY <1>2, <1>3, <1>8 DEF x, y, u, v

LEMMA BelowRises ==
    ASSUME NEW m \in Nat \ {0}, NEW b \in Nat, NEW c \in Nat, c <= b, b - c <= m, NEW k \in Nat \ {0},
           NEW q \in Nat \ {0}, NEW d \in Int, NEW e \in Int, d <= e, 0 < Lead(m, b, c, d, q)
    PROVE  /\ 0 < Lead(m, b, c, e, q) /\ Lead(m, b, c, d, q) <= Lead(m, b, c, e, q)
           /\ Lead(m, b, c, e, q) * Below(m, b, c, k, d, q) <= Lead(m, b, c, d, q) * Below(m, b, c, k, e, q)
<1> DEFINE x == Lead(m, b, c, d, q)  y == Lead(m, b, c, e, q)  f == b - c
           u == Below(m, b, c, k, d, q)  v == Below(m, b, c, k, e, q)
           h == k * ((m - 2 * f) * q)  r == k * (f * (m - f) * (q * q))
<1>1. x \in Int /\ y \in Int /\ u \in Int /\ v \in Int /\ f \in Nat /\ m - f \in Nat
  <2>1. f \in Nat /\ m - f \in Nat
    OBVIOUS
  <2>2. x \in Int /\ y \in Int
    BY DEF Lead
  <2>3. u \in Int /\ v \in Int
    BY TestTypes
  <2> QED
    BY <2>1, <2>2, <2>3
<1>2. x <= y
  <2>1. d * m <= e * m /\ d * m = m * d /\ e * m = m * e
    BY ProductsGrow
  <2>2. x = m * d + f * q /\ y = m * e + f * q /\ f * q \in Int /\ m * d \in Int /\ m * e \in Int
    BY DEF Lead
  <2> HIDE DEF x, y, f
  <2> QED
    BY <2>1, <2>2
<1>3. x \in Nat \ {0} /\ y \in Nat \ {0}
  BY <1>1, <1>2
<1>4. r \in Nat /\ h \in Int
  <2>1. f * (m - f) \in Nat /\ q * q \in Nat
    BY <1>1, ProductsGrow
  <2>2. f * (m - f) * (q * q) \in Nat
    BY <2>1, ProductsGrow
  <2>3. r \in Nat
    BY <2>2, ProductsGrow
  <2> QED
    BY <1>1, <2>3
<1>5. ASSUME NEW i \in Int
      PROVE  m * Below(m, b, c, k, i, q) =
                 (m + k) * (Lead(m, b, c, i, q) * Lead(m, b, c, i, q)) + h * Lead(m, b, c, i, q) - r
  <2> DEFINE z == Lead(m, b, c, i, q)  w == m * i * (q + i)
  <2>1. z \in Int /\ m * i = z - f * q
    BY DEF Lead
  <2>2. m * w = (z - f * q) * (m * q + (z - f * q))
    <3> DEFINE t == m * i
    <3>1. m * w = t * (m * q + t)
      OBVIOUS
    <3>2. t = z - f * q
      BY <2>1
    <3> HIDE DEF t, z, f, w
    <3> QED
      BY <3>1, <3>2
  <2>3. Below(m, b, c, k, i, q) = z * z + k * w
    BY DEF Below
  <2>4. w \in Int
    OBVIOUS
  <2> HIDE DEF z, w, f
  <2>5. m * (z * z + k * w) = m * (z * z) + k * (m * w)
    BY <2>1, <2>4
  <2>6. m * (z * z) + k * ((z - f * q) * (m * q + (z - f * q))) = (m + k) * (z * z) + h * z - r
    BY <1>1, <2>1
  <2>7. m * Below(m, b, c, k, i, q) = (m + k) * (z * z) + h * z - r
    BY <2>2, <2>3, <2>5, <2>6
  <2> QED
    BY <2>7 DEF z
<1>6. m * u = (m + k) * (x * x) + h * x - r /\ m * v = (m + k) * (y * y) + h * y - r
  BY <1>5
<1> HIDE DEF x, y, u, v, h, r
<1>7. m + k \in Nat
  OBVIOUS
<1>8. y * u <= x * v
  BY <1>1, <1>2, <1>3, <1>4, <1>6, <1>7, RisesFaster
<1> QED
  BY <1>2, <1>3, <1>8 DEF x, y, u, v

\* On its side of zero the sign of the excess leaves that of the side no choice.
LEMMA SideOfExcess ==
    ASSUME NEW m \in Nat \ {0}, NEW b \in Nat, NEW c \in Nat, NEW k \in Nat \ {0},
           NEW q \in Nat \ {0}, NEW d \in 0..q, 0 < Excess(m, b, c, k, d, q)
    PROVE  /\ 0 < Above(m, b, c, k, d, q) => 0 < Side(m, b, c, k, d, q)
           /\ Above(m, b, c, k, d, q) <= 0 => Side(m, b, c, k, d, q) < 0
<1> DEFINE u == Above(m, b, c, k, d, q)  p == k * q  s == Slope(m, b, c, d, q)
           w == m * d * (q - d)  r == 2 * p * p * b * w  f == Excess(m, b, c, k, d, q)
           o == u + p * s
<1>1. d \in Int /\ q - d \in Nat /\ d \in Nat
  OBVIOUS
<1>2. u \in Int /\ s \in Int /\ f \in Int
  BY <1>1, TestTypes
<1>3. p \in Nat /\ w \in Nat
  <2>1. p \in Nat /\ m * d \in Nat
    BY <1>1, ProductsGrow
  <2> QED
    BY <1>1, <2>1, ProductsGrow
<1>4. r \in Nat
  <2>1. r = 2 * ((p * p) * (b * w))
    <3> HIDE DEF p, w
    <3> QED
      BY <1>3
  <2>2. p * p \in Nat /\ b * w \in Nat
    <3> HIDE DEF p, w
    <3> QED
      BY <1>3, ProductsGrow
  <2>3. (p * p) * (b * w) \in Nat
    BY <2>2, ProductsGrow
  <2> HIDE DEF p, w, r
  <2> QED
    BY <2>1, <2>3
<1>5. o \in Int
  <2> HIDE DEF u, p, s
  <2> QED
    BY <1>2, <1>3
<1>6. f = u * o - r
  BY DEF Excess
<1>7. Side(m, b, c, k, d, q) = u + o
  <2>1. Side(m, b, c, k, d, q) = 2 * u + p * s
    BY DEF Side
  <2> HIDE DEF u, p, s
  <2> QED
    BY <1>2, <1>3, <2>1
<1>8. 0 < f
  OBVIOUS
<1> HIDE DEF u, o, r, f
<1>9. 0 < u * o
  <2>1. u * o \in Int
    BY <1>2, <1>5
  <2> QED
    BY <1>2, <1>4, <1>6, <1>8, <2>1
<1>10. 0 < u => 0 < o
  <2> SUFFICES ASSUME 0 < u, o <= 0 PROVE FALSE
    BY <1>5
  <2>1. o * u <= 0 * u /\ o * u = u * o /\ 0 * u = 0
    BY <1>2, <1>5, ProductsGrow
  <2> QED
    BY <1>2, <1>5, <1>9, <2>1
<1>11. u <= 0 => o < 0
  <2> SUFFICES ASSUME u <= 0, 0 <= o PROVE FALSE
    BY <1>5
  <2>1. u * o <= 0 * o /\ 0 * o = 0
    BY <1>2, <1>5, ProductsGrow
  <2> QED
    BY <1>2, <1>5, <1>9, <2>1
<1>12. 0 < u => 0 < u + o
  BY <1>2, <1>5, <1>10
<1>13. u <= 0 => u + o < 0
  BY <1>2, <1>5, <1>11
<1> QED
  BY <1>7, <1>12, <1>13 DEF u

LEMMA AboveOfExcess ==
    ASSUME NEW m \in Nat \ {0}, NEW b \in Nat, NEW c \in Nat, b <= m, NEW k \in Nat \ {0},
           NEW q \in Nat \ {0}, NEW d \in Int, 0 < Lead(m, b, c, d, q), 0 < Excess(m, b, c, k, d, q)
    PROVE  0 < Above(m, b, c, k, d, q)
<1> DEFINE u == Above(m, b, c, k, d, q)  z == Push(m, b, c, k, d, q)  t == Toll(m, b, k, q)
           g == Lead(m, b, c, d, q)
<1>1. u \in Int /\ z \in Int /\ t \in Nat /\ g \in Nat \ {0}
  <2>1. g \in Int
    BY DEF Lead
  <2>2. u \in Int
    BY TestTypes
  <2>3. z \in Int
    BY TestTypes
  <2>4. t \in Nat
    BY TestTypes
  <2> QED
    BY <2>1, <2>2, <2>3, <2>4
<1>2. t * g < u * z
  <2>1. 0 < Balance(m, b, c, k, d, q)
    BY ExcessAbove
  <2>2. Balance(m, b, c, k, d, q) = u * z - t * g
    BY DEF Balance
  <2> HIDE DEF u, z, t, g
  <2> QED
    BY <1>1, <2>1, <2>2
<1>3. 0 < z
  <2>1. z = (m + k) * g + k * (m + c - b) * q
    BY DEF Push
  <2>2. (m + k) * g \in Nat \ {0}
    <3> HIDE DEF g
    <3> QED
      BY <1>1, ProductsGrow
  <2>3. k * (m + c - b) * q \in Nat
    <3>1. m + c - b \in Nat
      OBVIOUS
    <3>2. k * (m + c - b) \in Nat
      BY <3>1, ProductsGrow
    <3> QED
      BY <3>2, ProductsGrow
  <2> DEFINE i == (m + k) * g  j == k * (m + c - b) * q
  <2> HIDE DEF i, j, z
  <2> QED
    BY <2>1, <2>2, <2>3 DEF i, j
<1> HIDE DEF u, z, t, g
<1>4. 0 <= t * g /\ t * g \in Int
  BY <1>1, ProductsGrow
<1>5. ~(u <= 0)
  <2> SUFFICES ASSUME u <= 0 PROVE FALSE
    OBVIOUS
  <2>1. u * z <= 0 * z /\ 0 * z = 0
    BY <1>1, <1>3, ProductsGrow
  <2> QED
    BY <1>1, <1>2, <1>4, <2>1
<1> QED
  BY <1>1, <1>5 DEF u

\* The steps of a refusal outward, with an effect that is not negative ...
LEMMA RefusedBeyondRise ==
    ASSUME NEW m \in Nat \ {0}, NEW b \in Nat, NEW c \in Nat, b + c <= m, b <= c, NEW k \in Nat \ {0},
           NEW q \in Nat \ {0}, NEW d \in Int, NEW e \in Int, d <= e, e <= q,
           0 < Lead(m, b, c, d, q), Refuses(m, b, c, k, d, q)
    PROVE  Refuses(m, b, c, k, e, q)
<1> DEFINE x == Lead(m, b, c, d, q)  y == Lead(m, b, c, e, q)
           u == Above(m, b, c, k, d, q)  v == Above(m, b, c, k, e, q)
           z == Push(m, b, c, k, d, q)  w == Push(m, b, c, k, e, q)  t == Toll(m, b, k, q)
<1>1. c - b <= m /\ b <= m
  OBVIOUS
<1>2. 0 < y /\ x <= y /\ y * u <= x * v
  BY <1>1, AboveRises
<1>3. u \in Int /\ v \in Int
  BY TestTypes
<1>4. x \in Nat \ {0} /\ y \in Nat \ {0}
  <2>1. x \in Int /\ y \in Int
    BY DEF Lead
  <2> QED
    BY <1>2, <2>1
<1>5. z \in Int /\ w \in Int
  BY TestTypes
<1>6. t \in Nat
  BY TestTypes
<1>7. 0 < u
  BY <1>1, AboveOfExcess DEF Refuses
<1>8. z <= w
  <2>1. z = (m + k) * x + k * (m + c - b) * q /\ w = (m + k) * y + k * (m + c - b) * q
    BY DEF Push
  <2> DEFINE h == k * (m + c - b) * q
  <2>2. h \in Int
    OBVIOUS
  <2> HIDE DEF x, y, z, w, h
  <2>3. x * (m + k) <= y * (m + k) /\ x * (m + k) = (m + k) * x /\ y * (m + k) = (m + k) * y
    BY <1>2, <1>4, ProductsGrow
  <2>4. (m + k) * x \in Int /\ (m + k) * y \in Int
    BY <1>4
  <2> QED
    BY <2>1, <2>2, <2>3, <2>4 DEF h
<1>9. t * x < u * z
  <2>1. 0 < Balance(m, b, c, k, d, q)
    BY ExcessAbove DEF Refuses
  <2>2. Balance(m, b, c, k, d, q) = u * z - t * x
    BY DEF Balance
  <2> HIDE DEF u, z, t, x
  <2> QED
    BY <1>3, <1>4, <1>5, <1>6, <2>1, <2>2
<1>10. 0 < v /\ t * y < v * w
  <2> HIDE DEF x, y, u, v, z, w, t
  <2> QED
    BY <1>2, <1>3, <1>4, <1>5, <1>6, <1>7, <1>8, <1>9, RiseTogether
<1>11. 0 < Excess(m, b, c, k, e, q)
  <2>1. Balance(m, b, c, k, e, q) = v * w - t * y
    BY DEF Balance
  <2> HIDE DEF v, w, t
  <2>2. 0 < Balance(m, b, c, k, e, q)
    <3> HIDE DEF y
    <3> QED
      BY <1>3, <1>4, <1>5, <1>6, <1>10, <2>1
  <2> QED
    BY <1>2, <2>2, ExcessAbove
<1>12. e \in 0..q
  <2>1. 0 < d
    <3>1. x = m * d - (c - b) * q
      BY DEF Lead
    <3>2. (c - b) * q \in Nat
      BY ProductsGrow
    <3>3. d <= 0 => d * m <= 0 * m /\ d * m = m * d /\ 0 * m = 0
      BY ProductsGrow
    <3>4. m * d \in Int
      OBVIOUS
    <3> DEFINE i == (c - b) * q  j == m * d
    <3>5. x = j - i /\ i \in Nat /\ j \in Int
      BY <3>1, <3>2, <3>4
    <3>6. d <= 0 => j <= 0
      BY <3>3
    <3> HIDE DEF x, i, j
    <3> QED
      BY <1>4, <3>5, <3>6
  <2> QED
    BY <2>1
<1>13. 0 < Side(m, b, c, k, e, q)
  BY <1>10, <1>11, <1>12, SideOfExcess
<1> QED
  BY <1>11, <1>13 DEF Refuses

\* ... and with one that is.
LEMMA RefusedBeyondFall ==
    ASSUME NEW m \in Nat \ {0}, NEW b \in Nat, NEW c \in Nat, b + c <= m, c <= b, NEW k \in Nat \ {0},
           NEW q \in Nat \ {0}, NEW d \in Int, NEW e \in Int, -q <= d, d <= e, e <= q,
           0 < Lead(m, b, c, d, q), Refuses(m, b, c, k, d, q)
    PROVE  Refuses(m, b, c, k, e, q)
<1> DEFINE x == Lead(m, b, c, d, q)  y == Lead(m, b, c, e, q)
           u == Below(m, b, c, k, d, q)  v == Below(m, b, c, k, e, q)
           z == -Push(m, c, b, k, -d, q)  w == -Push(m, c, b, k, -e, q)  t == Toll(m, c, k, q)
<1>1. b - c <= m /\ b <= m /\ -d \in Int /\ -e \in Int
  OBVIOUS
<1>2. 0 < y /\ x <= y /\ y * u <= x * v
  BY <1>1, BelowRises
<1>3. u \in Int /\ v \in Int
  BY TestTypes
<1>4. x \in Nat \ {0} /\ y \in Nat \ {0}
  <2>1. x \in Int /\ y \in Int
    BY DEF Lead
  <2> QED
    BY <1>2, <2>1
<1>5. z \in Int /\ w \in Int
  <2> DEFINE f == Push(m, c, b, k, -d, q)  h == Push(m, c, b, k, -e, q)
  <2>1. f \in Int /\ h \in Int
    BY <1>1, TestTypes
  <2> HIDE DEF f, h
  <2>2. -f \in Int /\ -h \in Int
    BY <2>1
  <2> QED
    BY <2>2 DEF f, h
<1>6. t \in Nat
  BY TestTypes
<1>7. ASSUME NEW i \in Int
      PROVE  /\ Lead(m, c, b, -i, q) = -Lead(m, b, c, i, q)
             /\ Above(m, c, b, k, -i, q) = Below(m, b, c, k, i, q)
             /\ Side(m, c, b, k, -i, q) = Side(m, b, c, k, i, q)
             /\ Excess(m, c, b, k, -i, q) = Excess(m, b, c, k, i, q)
  <2>1. MirrorAt(m, b, c, k, i, q)
    BY Mirrors
  <2> QED
    BY <2>1 DEF MirrorAt
<1>8. 0 < u
  <2> SUFFICES ASSUME u <= 0 PROVE FALSE
    BY <1>3
  <2>1. CASE 0 <= d
    <3>1. u = x * x + k * (m * d * (q + d))
      BY DEF Below
    <3>2. m * d \in Nat /\ q + d \in Nat
      BY <2>1, ProductsGrow
    <3>3. m * d * (q + d) \in Nat
      BY <3>2, ProductsGrow
    <3>4. k * (m * d * (q + d)) \in Nat
      BY <3>3, ProductsGrow
    <3>5. x * x \in Nat \ {0}
      <4> HIDE DEF x
      <4> QED
        BY <1>4, ProductsGrow
    <3> DEFINE i == x * x  j == k * (m * d * (q + d))
    <3>6. u = i + j /\ i \in Nat \ {0} /\ j \in Nat
      BY <3>1, <3>4, <3>5
    <3> HIDE DEF u, i, j
    <3> QED
      BY <3>6
  <2>2. CASE d < 0
    <3>1. -d \in 0..q
      BY <2>2
    <3>2. Above(m, c, b, k, -d, q) <= 0 /\ 0 < Excess(m, c, b, k, -d, q) /\ 0 < Side(m, c, b, k, -d, q)
      BY <1>7 DEF Refuses
    <3>3. Side(m, c, b, k, -d, q) < 0
      BY <3>1, <3>2, SideOfExcess
    <3>4. Side(m, c, b, k, -d, q) \in Int
      BY <1>1, TestTypes
    <3> QED
      BY <3>2, <3>3, <3>4
  <2> QED
    BY <2>1, <2>2
<1>9. ASSUME NEW i \in Int
      PROVE  Balance(m, c, b, k, -i, q) =
                 t * Lead(m, b, c, i, q) - Below(m, b, c, k, i, q) * (-Push(m, c, b, k, -i, q))
  <2> DEFINE f == Lead(m, b, c, i, q)  g == Below(m, b, c, k, i, q)  h == Push(m, c, b, k, -i, q)
  <2>1. Balance(m, c, b, k, -i, q) = g * h - t * (-f)
    BY <1>7 DEF Balance
  <2>2. f \in Int /\ g \in Int
    BY TestTypes
  <2>3. h \in Int
    <3>1. -i \in Int
      OBVIOUS
    <3> QED
      BY <3>1, TestTypes
  <2> HIDE DEF f, g, h, t
  <2>4. g * h - t * (-f) = t * f - g * (-h)
    BY <1>6, <2>2, <2>3
  <2> QED
    BY <2>1, <2>4 DEF f, g, h
<1>10. z <= w
  <2>1. /\ Push(m, c, b, k, -d, q) = (m + k) * (-x) + k * (m + b - c) * q
        /\ Push(m, c, b, k, -e, q) = (m + k) * (-y) + k * (m + b - c) * q
    BY <1>7 DEF Push
  <2> DEFINE h == k * (m + b - c) * q  f == Push(m, c, b, k, -d, q)  g == Push(m, c, b, k, -e, q)
  <2>2. h \in Int
    OBVIOUS
  <2>3. f = (m + k) * (-x) + h /\ g = (m + k) * (-y) + h
    BY <2>1
  <2> HIDE DEF x, y, h, f, g
  <2>4. x * (m + k) <= y * (m + k) /\ (m + k) * (-x) = -(x * (m + k)) /\ (m + k) * (-y) = -(y * (m + k))
    BY <1>2, <1>4, ProductsGrow
  <2>5. x * (m + k) \in Int /\ y * (m + k) \in Int
    BY <1>4
  <2>6. -f <= -g
    BY <2>2, <2>3, <2>4, <2>5
  <2> QED
    BY <2>6 DEF f, g
<1>11. t * x < u * z
  <2>1. Balance(m, c, b, k, -d, q) < 0
    BY ExcessAbove DEF Refuses
  <2>2. Balance(m, c, b, k, -d, q) = t * x - u * z
    BY <1>9
  <2> HIDE DEF u, z, t, x
  <2> QED
    BY <1>3, <1>4, <1>5, <1>6, <2>1, <2>2
<1>12. 0 < v /\ t * y < v * w
  <2> HIDE DEF x, y, u, v, z, w, t
  <2> QED
    BY <1>2, <1>3, <1>4, <1>5, <1>6, <1>8, <1>10, <1>11, RiseTogether
<1>13. 0 < Excess(m, b, c, k, e, q)
  <2>1. Balance(m, c, b, k, -e, q) = t * y - v * w
    BY <1>9
  <2>2. Balance(m, c, b, k, -e, q) < 0
    <3> HIDE DEF y, v, w, t
    <3> QED
      BY <1>3, <1>4, <1>5, <1>6, <1>12, <2>1
  <2> QED
    BY <1>2, <2>2, ExcessAbove
<1>14. 0 < Side(m, b, c, k, e, q)
  <2>1. CASE 0 <= e
    <3>1. e \in 0..q
      BY <2>1
    <3>2. 0 < Above(m, b, c, k, e, q)
      BY <1>1, <1>2, <1>13, AboveOfExcess
    <3> QED
      BY <1>13, <3>1, <3>2, SideOfExcess
  <2>2. CASE e < 0
    <3>1. -e \in 0..q
      BY <2>2
    <3>2. 0 < Above(m, c, b, k, -e, q) /\ 0 < Excess(m, c, b, k, -e, q)
      BY <1>7, <1>12, <1>13
    <3>3. 0 < Side(m, c, b, k, -e, q)
      BY <3>1, <3>2, SideOfExcess
    <3> QED
      BY <1>7, <3>3
  <2> QED
    BY <2>1, <2>2
<1> QED
  BY <1>13, <1>14 DEF Refuses

\* A refusal above the effect is one all the way up, whichever side counts more ...
LEMMA RefusedUpward ==
    ASSUME NEW m \in Nat \ {0}, NEW b \in Nat, NEW c \in Nat, b + c <= m, NEW k \in Nat \ {0},
           NEW q \in Nat \ {0}, NEW d \in Int, NEW e \in Int, -q <= d, d <= e, e <= q,
           0 < Lead(m, b, c, d, q), Refuses(m, b, c, k, d, q)
    PROVE  Refuses(m, b, c, k, e, q)
<1>1. CASE b <= c
  BY <1>1, RefusedBeyondRise
<1>2. CASE c <= b
  BY <1>2, RefusedBeyondFall
<1> QED
  BY <1>1, <1>2

\* ... and one below the effect all the way down, which is the same in the mirror.
LEMMA RefusedDownward ==
    ASSUME NEW m \in Nat \ {0}, NEW b \in Nat, NEW c \in Nat, b + c <= m, NEW k \in Nat \ {0},
           NEW q \in Nat \ {0}, NEW d \in Int, NEW e \in Int, -q <= e, e <= d, d <= q,
           Lead(m, b, c, d, q) < 0, Refuses(m, b, c, k, d, q)
    PROVE  Refuses(m, b, c, k, e, q)
<1>1. MirrorAt(m, b, c, k, d, q) /\ MirrorAt(m, b, c, k, e, q)
  BY Mirrors
<1>2. /\ Refuses(m, c, b, k, -d, q) <=> Refuses(m, b, c, k, d, q)
      /\ Refuses(m, c, b, k, -e, q) <=> Refuses(m, b, c, k, e, q)
  BY <1>1 DEF MirrorAt, Refuses
<1>3. 0 < Lead(m, c, b, -d, q)
  <2>1. Lead(m, c, b, -d, q) = -Lead(m, b, c, d, q) /\ Lead(m, b, c, d, q) \in Int
    BY <1>1, TestTypes DEF MirrorAt
  <2> DEFINE x == Lead(m, b, c, d, q)  y == Lead(m, c, b, -d, q)
  <2> HIDE DEF x, y
  <2>2. y = -x /\ x \in Int /\ x < 0
    BY <2>1 DEF x, y
  <2>3. 0 < y
    BY <2>2
  <2> QED
    BY <2>3 DEF y
<1>4. -d \in Int /\ -e \in Int /\ -q <= -d /\ -d <= -e /\ -e <= q /\ c + b <= m
  OBVIOUS
<1> DEFINE f == -d  g == -e
<1>5. f \in Int /\ g \in Int /\ -q <= f /\ f <= g /\ g <= q /\ 0 < Lead(m, c, b, f, q) /\ Refuses(m, c, b, k, f, q)
  BY <1>2, <1>3, <1>4
<1> HIDE DEF f, g
<1>6. Refuses(m, c, b, k, g, q)
  BY <1>4, <1>5, RefusedUpward
<1> QED
  BY <1>2, <1>6 DEF g

\* The null value of a larger denominator is judged alike.
LEMMA RefusalScales ==
    ASSUME NEW m \in Nat \ {0}, NEW b \in Nat, NEW c \in Nat, NEW k \in Nat \ {0},
           NEW q \in Nat \ {0}, NEW d \in Int, NEW j \in Nat \ {0}
    PROVE  Refuses(m, b, c, k, d * j, q * j) <=> Refuses(m, b, c, k, d, q)
<1> DEFINE x == Lead(m, b, c, d, q)  u == Above(m, b, c, k, d, q)  s == Slope(m, b, c, d, q)
           w == m * d * (q - d)  i == j * j  f == Excess(m, b, c, k, d, q)  g == Side(m, b, c, k, d, q)
<1>1. x \in Int /\ u \in Int /\ s \in Int /\ f \in Int /\ g \in Int /\ w \in Int
  <2>1. x \in Int /\ u \in Int /\ s \in Int
    BY TestTypes
  <2>2. f \in Int /\ g \in Int
    BY TestTypes
  <2>3. w \in Int
    OBVIOUS
  <2> QED
    BY <2>1, <2>2, <2>3
<1>2. i \in Nat \ {0}
  BY ProductsGrow
<1>3. m * (d * j) * ((q * j) - (d * j)) = w * i
  OBVIOUS
<1>4. Lead(m, b, c, d * j, q * j) = x * j /\ Slope(m, b, c, d * j, q * j) = s * j
  BY DEF Lead, Slope
<1>5. (x * j) * (x * j) = (x * x) * i
  <2> HIDE DEF x
  <2> QED
    BY <1>1
<1>6. Above(m, b, c, k, d * j, q * j) = u * i
  <2>1. Above(m, b, c, k, d * j, q * j) = (x * x) * i - k * (w * i) /\ u = x * x - k * w
    BY <1>3, <1>4, <1>5 DEF Above
  <2> HIDE DEF x, w, i, u
  <2>2. (x * x - k * w) * i = (x * x) * i - k * (w * i)
    BY <1>1, <1>2
  <2> QED
    BY <2>1, <2>2
<1> DEFINE h == k * q
<1>7. h \in Int /\ k * (q * j) = h * j /\ h * j \in Int
  OBVIOUS
<1>8. (h * j) * (s * j) = (h * s) * i
  <2> HIDE DEF h, s
  <2> QED
    BY <1>1, <1>7
<1>9. Side(m, b, c, k, d * j, q * j) = g * i
  <2>1. Side(m, b, c, k, d * j, q * j) = 2 * (u * i) + (h * s) * i /\ g = 2 * u + h * s
    BY <1>4, <1>6, <1>7, <1>8 DEF Side
  <2> HIDE DEF h, s, u, i, g
  <2>2. (2 * u + h * s) * i = 2 * (u * i) + (h * s) * i
    BY <1>1, <1>2, <1>7
  <2> QED
    BY <2>1, <2>2
<1>10. Excess(m, b, c, k, d * j, q * j) = f * (i * i)
  <2>1. /\ Excess(m, b, c, k, d * j, q * j)
               = (u * i) * (u * i + (h * s) * i) - 2 * (h * j) * (h * j) * b * (w * i)
        /\ f = u * (u + h * s) - 2 * h * h * b * w
    BY <1>3, <1>4, <1>6, <1>7, <1>8 DEF Excess
  <2>2. (h * j) * (h * j) = (h * h) * i
    <3> HIDE DEF h
    <3> QED
      BY <1>7
  <2>3. 2 * (h * j) * (h * j) * b * (w * i) = (2 * h * h * b * w) * (i * i)
    <3>1. 2 * (h * j) * (h * j) * b * (w * i) = 2 * ((h * j) * (h * j)) * b * (w * i)
      <4> DEFINE y == h * j
      <4>1. y \in Int
        BY <1>7
      <4> HIDE DEF h, w, i, y
      <4>2. 2 * y * y * b * (w * i) = 2 * (y * y) * b * (w * i)
        BY <1>1, <1>2, <4>1
      <4> QED
        BY <4>2 DEF y
    <3>2. 2 * ((h * h) * i) * b * (w * i) = (2 * h * h * b * w) * (i * i)
      <4> HIDE DEF h, w, i
      <4> QED
        BY <1>1, <1>2, <1>7
    <3> QED
      BY <2>2, <3>1, <3>2
  <2>4. (u * i) * (u * i + (h * s) * i) = (u * (u + h * s)) * (i * i)
    <3> DEFINE y == h * s
    <3>1. y \in Int
      BY <1>1, <1>7
    <3> HIDE DEF u, i, y
    <3>2. (u * i) * (u * i + y * i) = (u * (u + y)) * (i * i)
      BY <1>1, <1>2, <3>1
    <3> QED
      BY <3>2 DEF y
  <2> DEFINE y == u * (u + h * s)  z == 2 * h * h * b * w  o == i * i
  <2>5. y \in Int /\ z \in Int /\ o \in Int
    <3> HIDE DEF u, h, s, w, i
    <3> QED
      BY <1>1, <1>2, <1>7
  <2>6. Excess(m, b, c, k, d * j, q * j) = y * o - z * o /\ f = y - z
    BY <2>1, <2>3, <2>4
  <2> HIDE DEF y, z, o, f
  <2>7. (y - z) * o = y * o - z * o
    BY <2>5
  <2> QED
    BY <2>6, <2>7 DEF o
<1>11. i * i \in Nat \ {0}
  <2> HIDE DEF i
  <2> QED
    BY <1>2, ProductsGrow
<1>12. ASSUME NEW y \in Int, NEW z \in Nat \ {0} PROVE 0 < y * z <=> 0 < y
  <2>1. y <= 0 => y * z <= 0 * z /\ 0 * z = 0 /\ y * z \in Int
    BY ProductsGrow
  <2>2. 0 < y => y * z \in Nat \ {0}
    BY ProductsGrow
  <2> QED
    BY <2>1, <2>2
<1> DEFINE p == i * i
<1>13. p \in Nat \ {0} /\ Excess(m, b, c, k, d * j, q * j) = f * p
  BY <1>10, <1>11
<1> HIDE DEF f, g, i, p
<1>14. (0 < f * p <=> 0 < f) /\ (0 < g * i <=> 0 < g)
  BY <1>1, <1>2, <1>12, <1>13
<1> QED
  BY <1>9, <1>13, <1>14 DEF Refuses, f, g

-----------------------------------------------------------------------------
(* What lies inside and outside of an inverted interval *)

\* A fraction of the range that a binary effect has.
IsNull(d, q) == q \in Nat \ {0} /\ d \in (-q)..q

\* The effect itself is never rejected.
LEMMA EffectIsAccepted ==
    ASSUME CountsOfPairs, NEW d \in Int, NEW q \in Nat \ {0}, NEW l \in Levels, n * d = Effect * q
    PROVE  Accepts(d, q, l)
<1>1. l.critical \in Nat \ {0}
  BY StatisticsAssumption
<1>2. Lead(n, b_only, c_only, d, q) = 0
  <2>1. Lead(n, b_only, c_only, d, q) = n * d - Effect * q /\ Effect * q \in Int
    BY DEF Lead, Effect, CountsOfPairs
  <2> QED
    BY <2>1
<1> DEFINE k == l.critical
<1> HIDE DEF k
<1>3. ~Refuses(n, b_only, c_only, k, d, q)
  BY <1>1, <1>2, NoGapIsAccepted DEF CountsOfPairs, k
<1> QED
  BY <1>3, AcceptedIsNotRefused DEF k

\* Of two null values over one denominator the one further from the effect is
\* rejected with the nearer one.
LEMMA RefusedFurther ==
    ASSUME CountsOfPairs, NEW l \in Levels, NEW bound \in Bounds, NEW d, NEW e, NEW q,
           IsNull(d, q), IsNull(e, q), ~Accepts(d, q, l),
           Outward(bound, n * d, Effect * q), Outward(bound, e, d)
    PROVE  ~Accepts(e, q, l)
<1> DEFINE k == l.critical  x == Lead(n, b_only, c_only, d, q)
<1>1. /\ k \in Nat \ {0} /\ q \in Nat \ {0} /\ d \in Int /\ e \in Int
      /\ -q <= d /\ d <= q /\ -q <= e /\ e <= q
  BY StatisticsAssumption DEF IsNull
<1>2. n \in Nat \ {0} /\ b_only \in Nat /\ c_only \in Nat /\ b_only + c_only <= n
  BY DEF CountsOfPairs
<1>3. x = n * d - Effect * q /\ Effect * q \in Int /\ n * d \in Int
  BY <1>1, <1>2 DEF Lead, Effect
<1>4. n * d # Effect * q
  BY <1>1, EffectIsAccepted
<1>5. IF bound = "low" THEN x < 0 ELSE 0 < x
  <2> DEFINE y == n * d  z == Effect * q
  <2>1. x = y - z /\ y \in Int /\ z \in Int /\ y # z
    BY <1>3, <1>4
  <2>2. IF bound = "low" THEN y <= z ELSE z <= y
    BY DEF Outward
  <2> HIDE DEF x, y, z
  <2> QED
    BY <2>1, <2>2
<1> HIDE DEF k, x
<1>6. Refuses(n, b_only, c_only, k, d, q)
  BY <1>1, AcceptedIsNotRefused DEF k
<1>7. Refuses(n, b_only, c_only, k, e, q)
  <2>1. CASE bound = "low"
    <3>1. e <= d /\ Lead(n, b_only, c_only, d, q) < 0
      BY <1>5, <2>1 DEF Outward, x
    <3> QED
      BY <1>1, <1>2, <1>6, <3>1, RefusedDownward
  <2>2. CASE bound # "low"
    <3>1. d <= e /\ 0 < Lead(n, b_only, c_only, d, q)
      BY <1>5, <2>2 DEF Outward, x
    <3> QED
      BY <1>1, <1>2, <1>6, <3>1, RefusedUpward
  <2> QED
    BY <2>1, <2>2
<1> QED
  BY <1>1, <1>7, AcceptedIsNotRefused DEF k

\* The same null value over a larger denominator.
LEMMA AcceptanceScales ==
    ASSUME CountsOfPairs, NEW d \in Int, NEW q \in Nat \ {0}, NEW j \in Nat \ {0}, NEW l \in Levels
    PROVE  Accepts(d * j, q * j, l) <=> Accepts(d, q, l)
<1> DEFINE k == l.critical
<1>1. k \in Nat \ {0} /\ n \in Nat \ {0} /\ b_only \in Nat /\ c_only \in Nat
  BY StatisticsAssumption DEF CountsOfPairs
<1>2. d * j \in Int /\ q * j \in Nat \ {0}
  BY ProductsGrow
<1> HIDE DEF k
<1>3. Refuses(n, b_only, c_only, k, d * j, q * j) <=> Refuses(n, b_only, c_only, k, d, q)
  BY <1>1, RefusalScales
<1>4. Accepts(d, q, l) <=> ~Refuses(n, b_only, c_only, k, d, q)
  BY AcceptedIsNotRefused DEF k
<1>5. Accepts(d * j, q * j, l) <=> ~Refuses(n, b_only, c_only, k, d * j, q * j)
  <2> DEFINE f == d * j  g == q * j
  <2>1. f \in Int /\ g \in Nat \ {0}
    BY <1>2
  <2> HIDE DEF f, g
  <2>2. Accepts(f, g, l) <=> ~Refuses(n, b_only, c_only, k, f, g)
    BY <2>1, AcceptedIsNotRefused DEF k
  <2> QED
    BY <2>2 DEF f, g
<1> QED
  BY <1>3, <1>4, <1>5

\* The same over any two denominators: what the score test accepts is an interval.
LEMMA RefusedOutward ==
    ASSUME CountsOfPairs, NEW l \in Levels, NEW bound \in Bounds, NEW d, NEW q, NEW e, NEW p,
           IsNull(d, q), IsNull(e, p), ~Accepts(d, q, l),
           Outward(bound, n * d, Effect * q), Outward(bound, e * q, d * p)
    PROVE  ~Accepts(e, p, l)
<1>1. q \in Nat \ {0} /\ p \in Nat \ {0} /\ d \in Int /\ e \in Int /\ -q <= d /\ d <= q /\ -p <= e /\ e <= p
  BY DEF IsNull
<1>2. n \in Nat \ {0} /\ Effect \in Int
  BY DEF CountsOfPairs, Effect
<1> DEFINE x == d * p  y == e * q  o == q * p
<1>3. x \in Int /\ y \in Int /\ o \in Nat \ {0} /\ p * q = o
  BY <1>1, ProductsGrow
<1>4. -o <= x /\ x <= o /\ -o <= y /\ y <= o
  <2>1. d * p <= q * p /\ (-q) * p <= d * p /\ e * q <= p * q /\ (-p) * q <= e * q
    BY <1>1, ProductsGrow
  <2>2. (-q) * p = -(q * p) /\ (-p) * q = -(q * p) /\ p * q = q * p
    BY <1>1
  <2> QED
    BY <2>1, <2>2
<1>5. Outward(bound, n * x, Effect * o)
  <2> DEFINE f == n * d  g == Effect * q
  <2>1. f \in Int /\ g \in Int
    BY <1>1, <1>2
  <2>2. n * x = f * p /\ Effect * o = g * p
    BY <1>1, <1>2
  <2>3. Outward(bound, f, g)
    OBVIOUS
  <2> HIDE DEF f, g, x, o
  <2>4. (f <= g => f * p <= g * p) /\ (g <= f => g * p <= f * p)
    BY <1>1, <2>1, ProductsGrow
  <2> QED
    BY <2>2, <2>3, <2>4 DEF Outward
<1>6. Accepts(x, o, l) <=> Accepts(d, q, l)
  BY <1>1, AcceptanceScales
<1>7. Accepts(y, o, l) <=> Accepts(e, p, l)
  <2>1. Accepts(e * q, p * q, l) <=> Accepts(e, p, l)
    BY <1>1, AcceptanceScales
  <2>2. p * q = q * p
    BY <1>1
  <2> QED
    BY <2>1, <2>2
<1>8. Outward(bound, y, x)
  OBVIOUS
<1> HIDE DEF x, y, o
<1>9. IsNull(x, o) /\ IsNull(y, o)
  BY <1>3, <1>4 DEF IsNull
<1> QED
  BY <1>5, <1>6, <1>7, <1>8, <1>9, RefusedFurther

\* The inner end was accepted and the outer one rejected, if they moved.
LEMMA EndsAreJudged ==
    ASSUME CountsOfPairs, NEW l \in Levels, NEW bound \in Bounds, NEW r \in Nat, NEW e,
           Reached(e, l, bound, r)
    PROVE  /\ Accepts(e.inside, Units, l)
           /\ e.outside = Support(bound) \/ ~Accepts(e.outside, Units, l)
<1>1. PICK f \in [0..r -> Ends] :
          /\ f[0] = Start(bound) /\ f[r] = e
          /\ \A i \in 0..(r - 1) : f[i + 1] = HalvedOnce(f[i], l)
  BY DEF Reached
<1> DEFINE S == {i \in 0..r : /\ Accepts(f[i].inside, Units, l)
                              /\ f[i].outside = Support(bound) \/ ~Accepts(f[i].outside, Units, l)}
<1>2. 0 \in S
  <2> DEFINE o == 2^Halvings  d == Effect * o
  <2>1. d \in Int /\ Units \in Nat \ {0}
    BY StartOfInversion
  <2>2. n * d = Effect * Units
    <3>1. o \in Nat \ {0} /\ Units = n * o
      BY PowersArePositive, StatisticsAssumption DEF Units
    <3>2. n \in Nat \ {0} /\ Effect \in Int
      BY DEF CountsOfPairs, Effect
    <3> HIDE DEF o
    <3> QED
      BY <3>1, <3>2
  <2>3. f[0].inside = d /\ f[0].outside = Support(bound)
    BY <1>1 DEF Start
  <2> HIDE DEF d
  <2>4. Accepts(d, Units, l)
    BY <2>1, <2>2, EffectIsAccepted
  <2> QED
    BY <2>3, <2>4
<1>3. ASSUME NEW i \in 0..r, i \in S, i < r PROVE i + 1 \in S
  <2>1. f[i + 1] = HalvedOnce(f[i], l) /\ i + 1 \in 0..r
    BY <1>1, <1>3
  <2>2. /\ Accepts(f[i].inside, Units, l)
        /\ f[i].outside = Support(bound) \/ ~Accepts(f[i].outside, Units, l)
    BY <1>3
  <2> DEFINE middle == (f[i].inside + f[i].outside) \div 2
  <2>3. /\ f[i + 1].inside = f[i].inside \/ (f[i + 1].inside = middle /\ Accepts(middle, Units, l))
        /\ f[i + 1].outside = f[i].outside \/ (f[i + 1].outside = middle /\ ~Accepts(middle, Units, l))
    <3> HIDE DEF middle
    <3>1. f[i + 1] = IF f[i].inside = f[i].outside THEN f[i]
                     ELSE IF Accepts(middle, Units, l) THEN [inside |-> middle, outside |-> f[i].outside]
                     ELSE [inside |-> f[i].inside, outside |-> middle]
      BY <2>1 DEF HalvedOnce, middle
    <3> QED
      BY <3>1
  <2> QED
    BY <2>1, <2>2, <2>3
<1> HIDE DEF S
<1>4. \A i \in 0..r : i \in S
  BY <1>2, <1>3, UpTo
<1> QED
  BY <1>1, <1>4 DEF S

\* Both ends stay in the range of an effect.
LEMMA EndsAreNulls ==
    ASSUME CountsOfPairs, NEW l, NEW bound \in Bounds, NEW r \in Nat, NEW e, Reached(e, l, bound, r)
    PROVE  IsNull(e.inside, Units) /\ IsNull(e.outside, Units)
<1> DEFINE effect == Effect * 2^Halvings
<1>1. PICK f \in [0..r -> Ends] :
          /\ f[0] = Start(bound) /\ f[r] = e
          /\ \A i \in 0..(r - 1) : f[i + 1] = HalvedOnce(f[i], l)
  BY DEF Reached
<1>2. Units \in Nat \ {0} /\ effect \in Int /\ Outward(bound, Support(bound), effect)
      /\ Start(bound).outside = Support(bound) /\ Support(bound) \in Int
      /\ Outward(bound, Start(bound).outside, Start(bound).inside)
  BY StartOfInversion DEF Start, Ends
<1> DEFINE S == {i \in 0..r : Outward(bound, f[i].outside, f[i].inside) /\ Outward(bound, Support(bound), f[i].outside)}
<1>3. 0 \in S
  BY <1>1, <1>2 DEF Outward
<1>4. ASSUME NEW i \in 0..r, i \in S, i < r PROVE i + 1 \in S
  <2>1. f[i] \in Ends /\ f[i + 1] = HalvedOnce(f[i], l) /\ i + 1 \in 0..r /\ f[i + 1] \in Ends
    BY <1>1, <1>4
  <2>2. Outward(bound, f[i + 1].outside, f[i + 1].inside) /\ Outward(bound, f[i].outside, f[i + 1].outside)
    BY <1>4, <2>1, HalvedBetween
  <2>3. Outward(bound, Support(bound), f[i].outside)
    BY <1>4
  <2>4. Outward(bound, Support(bound), f[i + 1].outside)
    BY <1>2, <2>1, <2>2, <2>3 DEF Outward, Ends
  <2> QED
    BY <2>1, <2>2, <2>4
<1> HIDE DEF S
<1>5. \A i \in 0..r : i \in S
  BY <1>3, <1>4, UpTo
<1>6. Outward(bound, Support(bound), e.outside)
  BY <1>1, <1>5 DEF S
<1>7. e \in Ends /\ Outward(bound, e.outside, e.inside) /\ Outward(bound, e.inside, effect)
  BY ReachedBetween
<1>8. -Units <= effect /\ effect <= Units
  <2>1. Outward("low", Start("low").outside, Start("low").inside)
        /\ Outward("high", Start("high").outside, Start("high").inside)
    BY StartOfInversion DEF Bounds
  <2> QED
    BY <2>1 DEF Outward, Start, Support
<1> HIDE DEF effect
<1> QED
  BY <1>2, <1>6, <1>7, <1>8 DEF Outward, Ends, Support, IsNull, Bounds

\* From the effect to the inner end every null value is accepted, whatever the
\* denominator ...
LEMMA InsideIsAccepted ==
    ASSUME CountsOfPairs, NEW l \in Levels, NEW bound \in Bounds, NEW e, Settled(e, l, bound),
           NEW d, NEW q, IsNull(d, q),
           Outward(bound, n * d, Effect * q), Outward(bound, e.inside * q, d * Units)
    PROVE  Accepts(d, q, l)
<1>1. Halvings \in Nat /\ Reached(e, l, bound, Halvings)
  BY StatisticsAssumption DEF Settled
<1>2. Accepts(e.inside, Units, l) /\ IsNull(e.inside, Units)
  BY <1>1, EndsAreJudged, EndsAreNulls
<1> DEFINE i == e.inside  u == Units
<1>3. IsNull(i, u) /\ Accepts(i, u, l) /\ Outward(bound, i * q, d * u)
  BY <1>2
<1> HIDE DEF i, u
<1> QED
  BY <1>3, RefusedOutward

\* ... and from an outer end that moved every one is rejected.
LEMMA OutsideIsRejected ==
    ASSUME CountsOfPairs, NEW l \in Levels, NEW bound \in Bounds, NEW e, Settled(e, l, bound),
           NEW d, NEW q, IsNull(d, q),
           e.outside # Support(bound), Outward(bound, d * Units, e.outside * q)
    PROVE  ~Accepts(d, q, l)
<1> DEFINE o == e.outside  u == Units  effect == Effect * 2^Halvings
<1>1. Halvings \in Nat /\ Reached(e, l, bound, Halvings)
  BY StatisticsAssumption DEF Settled
<1>2. ~Accepts(o, u, l) /\ IsNull(o, u)
  BY <1>1, EndsAreJudged, EndsAreNulls
<1>3. e \in Ends /\ Outward(bound, o, e.inside) /\ Outward(bound, e.inside, effect) /\ effect \in Int
  BY <1>1, ReachedBetween, StartOfInversion
<1>4. o \in Int /\ Outward(bound, o, effect)
  <2> HIDE DEF effect
  <2> QED
    BY <1>3 DEF Outward, Ends
<1>5. Outward(bound, n * o, Effect * u)
  <2> DEFINE p == 2^Halvings
  <2>1. p \in Nat \ {0} /\ u = n * p /\ n \in Nat \ {0} /\ Effect \in Int
    BY PowersArePositive, <1>1 DEF Units, CountsOfPairs, Effect
  <2>2. Effect * u = effect * n
    <3>1. effect = Effect * p
      OBVIOUS
    <3> HIDE DEF p, u, effect
    <3> QED
      BY <2>1, <3>1
  <2>3. n * o = o * n
    BY <1>4, <2>1
  <2> HIDE DEF o, u, effect
  <2>4. (o <= effect => o * n <= effect * n) /\ (effect <= o => effect * n <= o * n)
    BY <1>3, <1>4, <2>1, ProductsGrow
  <2> QED
    BY <1>4, <2>2, <2>3, <2>4 DEF Outward
<1>6. Outward(bound, d * u, o * q)
  OBVIOUS
<1> HIDE DEF o, u
<1> QED
  BY <1>2, <1>5, <1>6, RefusedOutward

\* An inverted interval holds exactly the null values that the score test does not
\* reject, up to the last halving, and the reported test agrees with it about the
\* margin (binary_paired_evidence, _tango_score_interval), whatever the pairs, the
\* margin, the levels and the number of halvings.
THEOREM IntervalIsInversion == StatisticsSpec => []IntervalInvertsTest
<1>1. StatisticsInv => IntervalInvertsTest
  <2> SUFFICES ASSUME StatisticsInv, phase = "done", IsTango, NEW l \in Levels
               PROVE  LET low == interval[l].low
                          high == interval[l].high
                      IN  /\ \A d \in (1 - Units)..(Units - 1) :
                                /\ (low.inside <= d /\ d <= high.inside) => Accepts(d, Units, l)
                                /\ (d <= low.outside \/ high.outside <= d) => ~Accepts(d, Units, l)
                          /\ l \in test.accepted =>
                                /\ AtMost([num |-> low.outside, den |-> Units], threshold)
                                /\ AtMost(threshold, [num |-> high.outside, den |-> Units])
                          /\ l \notin test.accepted =>
                                \/ ~AtMost([num |-> low.inside, den |-> Units], threshold)
                                \/ ~AtMost(threshold, [num |-> high.inside, den |-> Units])
    BY DEF IntervalInvertsTest
  <2> DEFINE low == interval[l].low  high == interval[l].high  t == threshold.num  o == threshold.den
  <2>1. CountsOfPairs
    BY PairsAreCounted DEF StatisticsInv, IsTango
  <2>2. Settled(low, l, "low") /\ Settled(high, l, "high")
    BY DEF StatisticsInv, IntervalInv
  <2>3. /\ Units \in Nat \ {0} /\ n \in Nat \ {0} /\ Effect \in Int
        /\ low.inside \in Int /\ low.outside \in Int /\ high.inside \in Int /\ high.outside \in Int
    <3>1. Halvings \in Nat /\ Reached(low, l, "low", Halvings) /\ Reached(high, l, "high", Halvings)
      BY <2>2, StatisticsAssumption DEF Settled
    <3>2. low \in Ends /\ high \in Ends
      BY <2>1, <3>1, ReachedBetween DEF Bounds
    <3>3. Units \in Nat \ {0}
      BY <2>1, StartOfInversion DEF Bounds
    <3> QED
      BY <2>1, <3>2, <3>3 DEF Ends, CountsOfPairs, Effect
  <2>4. t \in Int /\ o \in Nat \ {0} /\ -o < t /\ t < o /\ IsNull(t, o)
    <3>1. threshold \in Fraction
      BY StatisticsAssumption DEF StatisticsInv, InputInv, IsTango
    <3>2. t \in Int /\ o \in Nat \ {0} /\ -o < t /\ t < o
      BY <3>1 DEF Fraction, IsTango
    <3> HIDE DEF t, o
    <3> QED
      BY <3>2 DEF IsNull
  <2>5. l \in test.accepted <=> Accepts(t, o, l)
    <3>1. test.accepted = {k \in Levels : Accepts(t, o, k)}
      BY DEF StatisticsInv, TestInv, ScoreTest
    <3> QED
      BY <3>1
  <2>6. /\ "low" \in Bounds /\ "high" \in Bounds /\ Support("low") = -Units /\ Support("high") = Units
        /\ \A x, y : (Outward("low", x, y) <=> x <= y) /\ (Outward("high", x, y) <=> y <= x)
    BY DEF Bounds, Support, Outward
  <2> HIDE DEF low, high, t, o
\* Between the inner ends, over any denominator.
  <2>7. ASSUME NEW d, NEW q, IsNull(d, q), low.inside * q <= d * Units, d * Units <= high.inside * q
        PROVE  Accepts(d, q, l)
    <3>1. n * d \in Int /\ Effect * q \in Int
      BY <2>3, <2>7 DEF IsNull
    <3>2. CASE n * d <= Effect * q
      BY <2>1, <2>2, <2>6, <2>7, <3>2, InsideIsAccepted
    <3>3. CASE Effect * q <= n * d
      BY <2>1, <2>2, <2>6, <2>7, <3>3, InsideIsAccepted
    <3> QED
      BY <3>1, <3>2, <3>3
\* Beyond an outer end, unless it is the end of the range, where no such value is left.
  <2>8. ASSUME NEW d, NEW q, IsNull(d, q), -q < d, d < q,
               d * Units <= low.outside * q \/ high.outside * q <= d * Units
        PROVE  ~Accepts(d, q, l)
    <3>1. q \in Nat \ {0} /\ d \in Int
      BY <2>8 DEF IsNull
    <3>2. (-q) * Units < d * Units /\ d * Units < q * Units
      <4>1. -q \in Int
        BY <3>1
      <4>2. ~(d * Units <= (-q) * Units) /\ ~(q * Units <= d * Units)
        BY <2>3, <2>8, <3>1, <4>1, ProductsGrow
      <4>3. (-q) * Units \in Int /\ d * Units \in Int /\ q * Units \in Int
        BY <2>3, <3>1
      <4> QED
        BY <4>2, <4>3
    <3>3. (-q) * Units = (-Units) * q /\ q * Units = Units * q
      BY <2>3, <3>1
    <3>4. CASE d * Units <= low.outside * q
      <4>1. low.outside # Support("low")
        <5> DEFINE x == d * Units  y == (-Units) * q  z == low.outside * q
        <5>1. x \in Int /\ y \in Int /\ z \in Int /\ y < x /\ x <= z
          BY <2>3, <3>1, <3>2, <3>3, <3>4
        <5> HIDE DEF x, y, z
        <5>2. z # y
          BY <5>1
        <5> QED
          BY <2>6, <5>2 DEF y, z
      <4> QED
        BY <2>1, <2>2, <2>6, <2>8, <3>4, <4>1, OutsideIsRejected
    <3>5. CASE high.outside * q <= d * Units
      <4>1. high.outside # Support("high")
        <5> DEFINE x == d * Units  y == Units * q  z == high.outside * q
        <5>1. x \in Int /\ y \in Int /\ z \in Int /\ x < y /\ z <= x
          BY <2>3, <3>1, <3>2, <3>3, <3>5
        <5> HIDE DEF x, y, z
        <5>2. z # y
          BY <5>1
        <5> QED
          BY <2>6, <5>2 DEF y, z
      <4> QED
        BY <2>1, <2>2, <2>6, <2>8, <3>5, <4>1, OutsideIsRejected
    <3> QED
      BY <2>8, <3>4, <3>5
  <2>9. ASSUME NEW d \in (1 - Units)..(Units - 1)
        PROVE  /\ (low.inside <= d /\ d <= high.inside) => Accepts(d, Units, l)
               /\ (d <= low.outside \/ high.outside <= d) => ~Accepts(d, Units, l)
    <3>1. d \in Int /\ -Units < d /\ d < Units /\ IsNull(d, Units)
      BY <2>3 DEF IsNull
    <3>2. \A x, y \in Int : x <= y => x * Units <= y * Units
      BY <2>3, ProductsGrow
    <3>3. ASSUME low.inside <= d, d <= high.inside PROVE Accepts(d, Units, l)
      <4>1. low.inside * Units <= d * Units /\ d * Units <= high.inside * Units
        BY <2>3, <3>1, <3>2, <3>3
      <4> QED
        BY <2>7, <3>1, <4>1
    <3>4. ASSUME d <= low.outside \/ high.outside <= d PROVE ~Accepts(d, Units, l)
      <4>1. d * Units <= low.outside * Units \/ high.outside * Units <= d * Units
        BY <2>3, <3>1, <3>2, <3>4
      <4> QED
        BY <2>8, <3>1, <4>1
    <3> QED
      BY <3>3, <3>4
  <2>10. /\ AtMost([num |-> low.outside, den |-> Units], threshold) <=> low.outside * o <= t * Units
         /\ AtMost(threshold, [num |-> high.outside, den |-> Units]) <=> t * Units <= high.outside * o
         /\ AtMost([num |-> low.inside, den |-> Units], threshold) <=> low.inside * o <= t * Units
         /\ AtMost(threshold, [num |-> high.inside, den |-> Units]) <=> t * Units <= high.inside * o
    BY DEF AtMost, t, o
  <2>11. ASSUME Accepts(t, o, l) PROVE low.outside * o <= t * Units /\ t * Units <= high.outside * o
    <3>1. ~(t * Units <= low.outside * o) /\ ~(high.outside * o <= t * Units)
      BY <2>4, <2>8, <2>11
    <3>2. t * Units \in Int /\ low.outside * o \in Int /\ high.outside * o \in Int
      BY <2>3, <2>4
    <3> QED
      BY <3>1, <3>2
  <2>12. ASSUME ~Accepts(t, o, l) PROVE ~(low.inside * o <= t * Units) \/ ~(t * Units <= high.inside * o)
    BY <2>4, <2>7, <2>12
  <2> QED
    BY <2>5, <2>9, <2>10, <2>11, <2>12 DEF low, high
<1> QED
  BY <1>1, StatisticsInvariance, PTL
=============================================================================
