--------------------------------- MODULE Gate ---------------------------------
(***************************************************************************)
(* The release gate (merriv/gate/policy.py, evaluate_gate) over what the   *)
(* pipeline measured (pipeline.py, _analyze_metrics), up to the exit code  *)
(* of the command: every rule is screened, the tested ones are adjusted by *)
(* Holm's procedure over the whole declared family, each is judged by the  *)
(* interval of its own step, and the statuses are put together.            *)
(*                                                                         *)
(* Probabilities are numbers out of Scale.  The interval of a rule is      *)
(* abstracted to the side of the margin it lies on.                        *)
(***************************************************************************)
EXTENDS Integers, FiniteSets

CONSTANTS
    Rules,       \* rule identifiers, ordered as numbers
    Policies,    \* policies the gate may be given
    PValues,     \* p-values of the hypothesis tests
    Alpha,       \* familywise_alpha
    Scale,       \* the probability one
    None,        \* no evidence, no decision, no adjustment
    NoTest       \* no test at the exact margin

Holm == "holm-bonferroni"
Statuses == {"pass", "warn", "insufficient_power", "block", "error"}

PolicyType ==
    [method : {Holm, "none"},
     insufficient_evidence_status : {"insufficient_power", "warn", "error"},
     allow_warn : BOOLEAN, block_on_any_critical_failure : BOOLEAN,
     block_on_violation : [Rules -> BOOLEAN]]

ASSUME GateAssumption ==
    /\ Rules \subseteq Nat /\ Rules # {} /\ IsFiniteSet(Rules)
    /\ Policies \subseteq PolicyType
    /\ PValues \subseteq 0..Scale
    /\ Scale \in Nat /\ Alpha \in Nat /\ 0 < Alpha /\ Alpha < Scale
    /\ NoTest \notin Nat

\* Fewer pairs than min_pairs, a detectable effect above max_mde, and the test.
Estimates == [few_pairs : BOOLEAN, coarse : BOOLEAN, test : PValues \cup {NoTest}]

ASSUME NoneAssumption ==
    /\ None \notin Estimates /\ None \notin Statuses /\ None \notin Nat

Sides == {"passes", "violates", "crosses"}

VARIABLES
    policy, evidence, critical,   \* the inputs; critical: some case failed that must not
    pc,
    adjusted,      \* adjusted p-value of each rule
    denominator,   \* the step alpha of each rule is Alpha divided by it
    running,       \* running_adjusted
    side,          \* where the interval selected for each rule lies, if one is
    decisions,     \* rule_decisions
    status, exit

inputs == <<policy, evidence, critical>>
vars == <<inputs, pc, adjusted, denominator, running, side, decisions, status, exit>>

FamilySize == Cardinality(Rules)

\* Evidence of each rule's metric, none when no pair had a sample.
Init ==
    /\ policy \in Policies
    /\ evidence \in [Rules -> Estimates \cup {None}]
    /\ critical \in BOOLEAN
    /\ pc = "adjust"
    /\ adjusted = [r \in Rules |-> None]
    /\ denominator = [r \in Rules |-> 1]
    /\ running = 0
    /\ side = [r \in Rules |-> "crosses"]
    /\ decisions = [r \in Rules |-> None]
    /\ status = None
    /\ exit = None

-----------------------------------------------------------------------------
(* Screening *)

\* The decision a rule has before any statistics.
Preliminary(r) ==
    IF evidence[r] = None THEN "error"
    ELSE IF evidence[r].few_pairs THEN policy.insufficient_evidence_status
    ELSE IF evidence[r].coarse THEN "insufficient_power"
    ELSE IF policy.method = Holm /\ evidence[r].test = NoTest THEN "error"
    ELSE None

Tested == {r \in Rules : policy.method = Holm /\ Preliminary(r) = None}

P(r) == evidence[r].test

-----------------------------------------------------------------------------
(* Holm's procedure *)

Remaining == {r \in Tested : adjusted[r] = None}

\* sorted by p-value, then by rule_id
Before(r, s) == P(r) < P(s) \/ (P(r) = P(s) /\ r < s)

\* Mutant: only the rules that could be tested count.
StepDenominator_TestedOnly == Cardinality(Remaining)

\* family_size - rank + 1: untested rules stay in the family.
StepDenominator == FamilySize - Cardinality(Tested \ Remaining)

Larger(a, b) == IF a < b THEN b ELSE a

\* Mutant: the adjusted p-values are not made monotone.
Running_NotMonotone(r) == IF StepDenominator * P(r) < Scale THEN StepDenominator * P(r) ELSE Scale

Running(r) ==
    Larger(running, IF StepDenominator * P(r) < Scale THEN StepDenominator * P(r) ELSE Scale)

Adjust(r) ==
    /\ pc = "adjust"
    /\ r \in Remaining
    /\ \A s \in Remaining \ {r} : Before(r, s)
    /\ running' = Running(r)
    /\ adjusted' = [adjusted EXCEPT ![r] = Running(r)]
    /\ denominator' = [denominator EXCEPT ![r] = StepDenominator]
    /\ UNCHANGED <<inputs, pc, side, decisions, status, exit>>

-----------------------------------------------------------------------------
(* Decisions *)

Decisive(r) == policy.method = Holm => adjusted[r] <= Alpha

\* Mutant: the level of the last step is not computed.
ComputedDenominators_NotLast == IF policy.method = Holm THEN 2..FamilySize ELSE {1}

\* _analyze_metrics computes the intervals of all the levels the gate may select.
ComputedDenominators == IF policy.method = Holm THEN 1..FamilySize ELSE {1}

Decision(r, interval) ==
    IF Preliminary(r) # None THEN Preliminary(r)
    ELSE IF denominator[r] \notin ComputedDenominators THEN "error"
    ELSE IF interval = "passes" /\ Decisive(r) THEN "pass"
    ELSE IF interval = "violates" /\ Decisive(r) /\ policy.block_on_violation[r] THEN "block"
    ELSE "warn"

Decide ==
    /\ pc = "adjust" /\ Remaining = {}
    /\ pc' = "aggregate"
    /\ side' \in {where \in [Rules -> Sides] :
                    \A r \in Rules : Preliminary(r) # None => where[r] = "crosses"}
    /\ decisions' = [r \in Rules |-> Decision(r, side'[r])]
    /\ UNCHANGED <<inputs, adjusted, denominator, running, status, exit>>

\* Mutant: WARN hides INSUFFICIENT_POWER.
Severity_WarnFirst == [pass |-> 0, insufficient_power |-> 1, warn |-> 2, block |-> 3, error |-> 4]

Severity == [pass |-> 0, warn |-> 1, insufficient_power |-> 2, block |-> 3, error |-> 4]

\* The most severe status, unless a critical failure decides.
Aggregate ==
    /\ pc = "aggregate"
    /\ pc' = "report"
    /\ IF critical /\ policy.block_on_any_critical_failure
         THEN status' = "block"
         ELSE \E r \in Rules :
                /\ \A other \in Rules : Severity[decisions[other]] <= Severity[decisions[r]]
                /\ status' = decisions[r]
    /\ UNCHANGED <<inputs, adjusted, denominator, running, side, decisions, exit>>

Allowed == status = "pass" \/ (status = "warn" /\ policy.allow_warn)

ExitCodes == [pass |-> 3, block |-> 2, error |-> 3, warn |-> 4, insufficient_power |-> 4]

\* MCRDecision, and the exit code of the command that published it.
Report ==
    /\ pc = "report"
    /\ pc' = "done"
    /\ exit' = IF Allowed THEN 0 ELSE ExitCodes[status]
    /\ UNCHANGED <<inputs, adjusted, denominator, running, side, decisions, status>>

Next == (\E r \in Rules : Adjust(r)) \/ Decide \/ Aggregate \/ Report

Spec == Init /\ [][Next]_vars

-----------------------------------------------------------------------------
(* Properties *)

\* Type invariant.
TypeOK ==
    /\ policy \in Policies
    /\ evidence \in [Rules -> Estimates \cup {None}]
    /\ critical \in BOOLEAN
    /\ pc \in {"adjust", "aggregate", "report", "done"}
    /\ adjusted \in [Rules -> 0..Scale \cup {None}]
    /\ denominator \in [Rules -> 1..FamilySize]
    /\ running \in 0..Scale
    /\ side \in [Rules -> Sides]
    /\ decisions \in [Rules -> Statuses \cup {None}]
    /\ status \in Statuses \cup {None}
    /\ exit \in {None, 0, 2, 3, 4}

\* A closed test rejects the hypothesis of a rule when it rejects every
\* intersection of declared hypotheses the rule is part of, each by Bonferroni's
\* test; a rule without a test can reject nothing.  This is what bounds the
\* family-wise error.
RejectsIntersection(family) == \E r \in family \cap Tested : P(r) * Cardinality(family) <= Alpha

IsRejected(r) == \A family \in SUBSET Rules : r \in family => RejectsIntersection(family)

\* The sequential procedure, with its ties, its running maximum and untested
\* rules in the family, finds decisive exactly the rules the closed test rejects.
HolmIsClosedTesting ==
    \A r \in Tested : adjusted[r] # None => (adjusted[r] <= Alpha <=> IsRejected(r))

IsConclusive(r, where) == side[r] = where /\ (policy.method = Holm => IsRejected(r))

\* The command exits with 0 only when no rule lacks evidence, test or power, no
\* rule that blocks is conclusively violated, and no critical case failed that
\* counts; unless WARN is allowed, every rule passes conclusively.
AllowedIsJustified ==
    exit = 0 =>
        /\ ~(critical /\ policy.block_on_any_critical_failure)
        /\ \A r \in Rules :
             /\ evidence[r] # None
             /\ IF evidence[r].few_pairs
                  THEN policy.insufficient_evidence_status = "warn" /\ policy.allow_warn
                  ELSE /\ ~evidence[r].coarse
                       /\ policy.method = Holm => evidence[r].test # NoTest
                       /\ ~(IsConclusive(r, "violates") /\ policy.block_on_violation[r])
                       /\ IsConclusive(r, "passes") \/ policy.allow_warn

\* The command exits with 2 only for a critical failure or for a rule that is
\* conclusively violated.
BlockIsJustified ==
    exit = 2 =>
        \/ critical /\ policy.block_on_any_critical_failure
        \/ \E r \in Rules : IsConclusive(r, "violates") /\ policy.block_on_violation[r]

\* The pipeline has computed the interval of whatever level the gate selects: a
\* rule that has evidence and passes the screening is never an error.
SelectedIntervalExists ==
    \A r \in Rules : decisions[r] = "error" => Preliminary(r) = "error"
=============================================================================
