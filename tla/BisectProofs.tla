---------------------------- MODULE BisectProofs ----------------------------
(***************************************************************************)
(* Proofs about Bisect for every list of lengths, every sparse point count *)
(* and every set of modes: typing, the inductive invariant of the three    *)
(* strategies, that each of them keeps the promise of OnsetSearch, and     *)
(* that a call is over after a number of steps known in advance.           *)
(***************************************************************************)
EXTENDS Bisect, FiniteSetTheorems, WellFoundedInduction, TLAPS

-----------------------------------------------------------------------------
(* The inductive invariant *)

\* Arguments that bisect_regression rejects go no further.
ArgumentsChecked ==
    pc \notin {"call", "rejected"} => checkpoint_count >= 1 /\ sparse_points >= 2

\* A result exists exactly when the call is done.
ResultIffDone ==
    IF pc = "done" THEN result.outcome \in BisectOutcome ELSE result = NoResult

\* What has been asked by the time each step runs.
Asked ==
    /\ pc \in {"call", "rejected", "first"} => \A i \in Indices : cache[i] = Unset
    /\ pc = "last" => /\ cache[0] # Unset
                      /\ \A i \in Indices : i # 0 => cache[i] = Unset
    /\ pc \in {"endpoints", "plan", "audit"} =>
          cache[0] # Unset /\ cache[checkpoint_count - 1] # Unset
    /\ pc = "endpoints" =>
          \A i \in Indices : (i # 0 /\ i # checkpoint_count - 1) => cache[i] = Unset

\* The loop invariant of the binary search: it has looked outside the open
\* interval only, and found PASS up to it and BLOCK from it on.
SearchInterval ==
    pc = "search" =>
        /\ lower_pass \in Indices /\ upper_block \in Indices
        /\ lower_pass < upper_block
        /\ cache[lower_pass] = "pass" /\ cache[upper_block] = "block"
        /\ \A i \in Indices :
              /\ i < lower_pass => cache[i] \in {Unset, "pass"}
              /\ i > upper_block => cache[i] \in {Unset, "block"}
              /\ (lower_pass < i /\ i < upper_block) => cache[i] = Unset

\* An audit leaves nothing but its pending schedule unasked.
AuditCoverage ==
    /\ pc \in {"plan", "audit"} => mode # "monotonic"
    /\ (pc = "audit" /\ mode = "linear_audit") =>
          \A i \in Indices \ pending : cache[i] # Unset

IInv ==
    /\ TypeOK
    /\ ArgumentsChecked
    /\ ResultIffDone
    /\ Asked
    /\ SearchInterval
    /\ AuditCoverage

-----------------------------------------------------------------------------
(* Arithmetic *)

\* A quotient of a number up to m * b by b is at most m.
LEMMA QuotientBound ==
    ASSUME NEW a \in Nat, NEW b \in Nat, NEW m \in Nat, b > 0, a <= m * b
    PROVE  a \div b \in 0..m
<1>1. a \div b \in Nat /\ b * (a \div b) <= a
  OBVIOUS
<1>2. SUFFICES ASSUME a \div b > m PROVE FALSE
  BY <1>1
<1>3. b * (a \div b) >= b * (m + 1)
  BY <1>1, <1>2
<1>4. b * (m + 1) = m * b + b
  OBVIOUS
<1> QED BY <1>1, <1>3, <1>4

\* Every index of a sparse schedule (_sparse_indices) is an index of a
\* checkpoint, so the evaluator never raises IndexError.
LEMMA SparseIndicesInRange ==
    ASSUME checkpoint_count \in Int, sparse_points \in Int,
           checkpoint_count >= 1, sparse_points >= 2
    PROVE  SparseIndices \subseteq Indices
<1>1. PointCount \in 1..checkpoint_count
  BY DEF PointCount
<1>2. CASE PointCount = 1
  BY <1>2 DEF SparseIndices, Indices
<1>3. CASE PointCount # 1
  <2> DEFINE n == checkpoint_count - 1
             k == PointCount - 1
  <2>1. n \in Nat /\ k \in Nat /\ k > 0
    BY <1>1, <1>3
  <2>2. SUFFICES ASSUME NEW point \in 0..k
                 PROVE  (point * n) \div k \in 0..n
    BY <1>3 DEF SparseIndices, Indices
  <2> HIDE DEF n, k
  <2>3. point \in Nat /\ point * n \in Nat /\ point * n <= k * n
    BY <2>1, <2>2
  <2>4. k * n = n * k
    BY <2>1
  <2> QED BY <2>1, <2>3, <2>4, QuotientBound
<1> QED BY <1>2, <1>3

\* A nonempty set of natural numbers has a least element.
LEMMA LeastNatural ==
    ASSUME NEW S, S \subseteq Nat, S # {}
    PROVE  \E m \in S : \A x \in S : m <= x
<1> DEFINE Below == {0..x : x \in S}
<1>1. Below \in SUBSET FiniteSubsetsOf(Nat) /\ Below # {}
  <2>1. Below # {}
    OBVIOUS
  <2>2. ASSUME NEW x \in S PROVE 0..x \in FiniteSubsetsOf(Nat)
    BY FS_Interval DEF FiniteSubsetsOf
  <2> QED BY <2>1, <2>2
<1>2. PICK B \in Below : \A C \in Below : <<C, B>> \notin StrictSubsetOrdering(Nat)
  <2> HIDE DEF Below
  <2> QED BY <1>1, FS_StrictSubsetOrderingWellFounded, WFMin
<1>3. PICK m \in S : B = 0..m
  OBVIOUS
<1>4. ASSUME NEW x \in S PROVE m <= x
  <2> SUFFICES ASSUME x < m PROVE FALSE
    OBVIOUS
  <2>1. 0..x \subseteq 0..m /\ 0..x # 0..m
    OBVIOUS
  <2>2. <<0..x, B>> \in StrictSubsetOrdering(Nat)
    BY <2>1, <1>3 DEF StrictSubsetOrdering
  <2> QED BY <1>2, <2>2
<1> QED BY <1>4

-----------------------------------------------------------------------------
(* The evaluator *)

\* What one request does to the evaluator, whatever the callback does.
LEMMA GetEffect ==
    ASSUME TypeOK, NEW index, NEW reply \in Replies, Get(index, reply),
           UNCHANGED arguments
    PROVE  /\ index \in Indices /\ Indices' = Indices
           /\ Answer(index, reply) \in BisectStatus
           /\ cache[index] # Unset => Answer(index, reply) = cache[index]
           /\ cache' \in [Indices -> BisectStatus \cup {Unset}]
           /\ cache'[index] = Answer(index, reply)
           /\ \A i \in Indices : i # index => cache'[i] = cache[i]
           /\ requests' \in Seq([index : Indices, status : BisectStatus, cache_hit : BOOLEAN])
<1>1. Indices' = Indices /\ index \in Indices
  BY DEF Get, Indices, arguments
<1>2. Normalize(reply) \in BisectStatus
  BY DEF Normalize, Replies, BisectStatus
<1>3. /\ Answer(index, reply) \in BisectStatus
      /\ cache[index] # Unset => Answer(index, reply) = cache[index]
  BY <1>1, <1>2 DEF Answer, TypeOK
<1>4. /\ cache' \in [Indices -> BisectStatus \cup {Unset}]
      /\ cache'[index] = Answer(index, reply)
      /\ \A i \in Indices : i # index => cache'[i] = cache[i]
  BY <1>1, <1>3 DEF Get, TypeOK
<1>5. requests' \in Seq([index : Indices, status : BisectStatus, cache_hit : BOOLEAN])
  BY <1>1, <1>3 DEF Get, TypeOK
<1> QED BY <1>1, <1>3, <1>4, <1>5

-----------------------------------------------------------------------------
(* The invariant is inductive *)

LEMMA InitInvariant == Init => IInv
<1> SUFFICES ASSUME Init PROVE IInv
  OBVIOUS
<1> USE ArgumentTypes DEF Init
<1>1. TypeOK
  BY DEF TypeOK, Indices, NoResult, Outcome, NoIndex, BisectConfidence, BisectMode
<1>2. ArgumentsChecked /\ Asked /\ SearchInterval /\ AuditCoverage
  BY DEF ArgumentsChecked, Asked, SearchInterval, AuditCoverage, Indices
<1>3. ResultIffDone
  BY DEF ResultIffDone, NoResult, Outcome
<1> QED BY <1>1, <1>2, <1>3 DEF IInv

\* The steps that leave the evaluator alone and only move the control.
LEMMA ControlStep ==
    ASSUME IInv, RejectArguments \/ Start \/ PlanAudit
    PROVE  IInv'
<1> USE DEF IInv, arguments, evaluator, search
<1>1. CASE RejectArguments
  BY <1>1 DEF RejectArguments, TypeOK, ArgumentsChecked, ResultIffDone, Asked,
              SearchInterval, AuditCoverage, Indices
<1>2. CASE Start
  BY <1>2 DEF Start, ValidArguments, TypeOK, ArgumentsChecked, ResultIffDone, Asked,
              SearchInterval, AuditCoverage, Indices
<1>3. CASE PlanAudit
  <2>1. pending' \subseteq Indices
    BY <1>3, SparseIndicesInRange DEF PlanAudit, TypeOK, ArgumentsChecked
  <2> QED
    BY <1>3, <2>1 DEF PlanAudit, TypeOK, ArgumentsChecked, ResultIffDone, Asked,
                     SearchInterval, AuditCoverage, Indices
<1> QED BY <1>1, <1>2, <1>3

LEMMA GetFirstStep == IInv /\ GetFirst => IInv'
<1> SUFFICES ASSUME IInv, GetFirst PROVE IInv'
  OBVIOUS
<1>1. PICK reply \in Replies : Get(0, reply)
  BY DEF GetFirst
<1> DEFINE status == Answer(0, reply)
<1>2. /\ 0 \in Indices /\ Indices' = Indices
      /\ status \in BisectStatus
      /\ cache' \in [Indices -> BisectStatus \cup {Unset}]
      /\ cache'[0] = status
      /\ \A i \in Indices : i # 0 => cache'[i] = cache[i]
      /\ requests' \in Seq([index : Indices, status : BisectStatus, cache_hit : BOOLEAN])
  BY <1>1, GetEffect DEF GetFirst, IInv
<1> HIDE DEF status
<1>3. status # Unset
  BY <1>2 DEF BisectStatus, Unset
<1>4. TypeOK'
  BY <1>2 DEF IInv, TypeOK, GetFirst, arguments, search
<1>5. ArgumentsChecked' /\ ResultIffDone' /\ SearchInterval' /\ AuditCoverage'
  BY DEF IInv, GetFirst, arguments, search, ArgumentsChecked, ResultIffDone,
         SearchInterval, AuditCoverage
<1>6. Asked'
  BY <1>2, <1>3 DEF IInv, Asked, GetFirst
<1> QED BY <1>4, <1>5, <1>6 DEF IInv

LEMMA GetLastStep == IInv /\ GetLast => IInv'
<1> SUFFICES ASSUME IInv, GetLast PROVE IInv'
  OBVIOUS
<1> DEFINE last == checkpoint_count - 1
<1>1. PICK reply \in Replies : Get(last, reply)
  BY DEF GetLast
<1> DEFINE status == Answer(last, reply)
<1>2. /\ last \in Indices /\ Indices' = Indices
      /\ status \in BisectStatus
      /\ cache' \in [Indices -> BisectStatus \cup {Unset}]
      /\ cache'[last] = status
      /\ \A i \in Indices : i # last => cache'[i] = cache[i]
      /\ requests' \in Seq([index : Indices, status : BisectStatus, cache_hit : BOOLEAN])
  BY <1>1, GetEffect DEF GetLast, IInv
<1>3. 0 \in Indices /\ checkpoint_count \in Int /\ checkpoint_count' = checkpoint_count
  BY DEF IInv, TypeOK, ArgumentsChecked, GetLast, Indices, arguments
<1> HIDE DEF status
<1>4. status # Unset
  BY <1>2 DEF BisectStatus, Unset
<1>5. TypeOK'
  BY <1>2 DEF IInv, TypeOK, GetLast, arguments, search
<1>6. ArgumentsChecked' /\ ResultIffDone' /\ SearchInterval' /\ AuditCoverage'
  BY DEF IInv, GetLast, arguments, search, ArgumentsChecked, ResultIffDone,
         SearchInterval, AuditCoverage
<1>7. Asked'
  BY <1>2, <1>3, <1>4 DEF IInv, Asked, GetLast
<1> QED BY <1>5, <1>6, <1>7 DEF IInv

\* A result that some step returns is well typed and no longer pending.
LEMMA ReturnTyped ==
    ASSUME NEW outcome \in BisectOutcome, NEW first \in Int, NEW interval, NEW reversals,
           NEW confidence \in BisectConfidence, NEW reason,
           Return(outcome, first, interval, reversals, confidence, reason)
    PROVE  /\ pc' = "done"
           /\ result'.outcome = outcome /\ result'.outcome # "pending"
           /\ result'.first_failing_index = first
           /\ result'.confirmed_interval = interval
           /\ result'.non_monotonic_intervals = reversals
           /\ result'.confidence = confidence
BY DEF Return, Outcome, BisectOutcome

\* The call returns without another request and without a change of its input.
LEMMA ReturnStep ==
    ASSUME IInv, UNCHANGED <<arguments, evaluator, search>>,
           pc \in {"endpoints", "search", "audit"}, pc' = "done",
           result'.outcome \in BisectOutcome, result'.first_failing_index \in Int,
           result'.confidence \in BisectConfidence
    PROVE  IInv'
<1>1. TypeOK'
  BY DEF IInv, TypeOK, arguments, evaluator, search, Indices
<1>2. ArgumentsChecked' /\ ResultIffDone' /\ Asked' /\ SearchInterval' /\ AuditCoverage'
  BY DEF IInv, arguments, ArgumentsChecked, ResultIffDone, Asked, SearchInterval,
         AuditCoverage, BisectOutcome
<1> QED BY <1>1, <1>2 DEF IInv

LEMMA FromEndpointsStep == IInv /\ FromEndpoints => IInv'
<1> SUFFICES ASSUME IInv, FromEndpoints PROVE IInv'
  OBVIOUS
<1>1. CASE EndpointsDecide
  <2>1. pc = "endpoints" /\ UNCHANGED <<arguments, evaluator, pending>>
    BY DEF FromEndpoints
  <2>2. pc' = "done"
    BY <1>1 DEF EndpointsDecide, Return
  <2>3. UNCHANGED <<lower_pass, upper_block>>
    BY <2>2 DEF FromEndpoints
  <2>4. /\ result'.outcome \in BisectOutcome
        /\ result'.first_failing_index \in Int
        /\ result'.confidence \in BisectConfidence
    BY <1>1 DEF EndpointsDecide, Return, Outcome, BisectOutcome, BisectConfidence, NoIndex
  <2> QED BY <2>1, <2>2, <2>3, <2>4, ReturnStep DEF search
<1>2. CASE ~EndpointsDecide
  <2> DEFINE last == checkpoint_count - 1
  <2>1. /\ pc = "endpoints" /\ UNCHANGED <<arguments, evaluator, pending>>
        /\ cache[0] = "pass" /\ cache[last] = "block"
        /\ lower_pass' = 0 /\ upper_block' = last
        /\ pc' = "search" /\ result' = result
    BY <1>2 DEF FromEndpoints
  <2>2. checkpoint_count \in Int /\ 0 \in Indices /\ last \in Indices /\ 0 < last
    BY <2>1 DEF IInv, TypeOK, ArgumentsChecked, Indices
  <2>3. Indices' = Indices /\ cache' = cache
    BY <2>1 DEF Indices, arguments, evaluator
  <2>4. TypeOK'
    BY <2>1, <2>2, <2>3 DEF IInv, TypeOK, arguments, evaluator
  <2>5. ArgumentsChecked' /\ ResultIffDone' /\ AuditCoverage' /\ Asked'
    BY <2>1 DEF IInv, arguments, ArgumentsChecked, ResultIffDone, AuditCoverage, Asked
  <2>6. SearchInterval'
    <3>1. \A i \in Indices : 0 < i /\ i < last => cache[i] = Unset
      BY <2>1, <2>2 DEF IInv, Asked
    <3>2. \A i \in Indices : 0 <= i /\ i <= last
      BY <2>2 DEF Indices
    <3> HIDE DEF last
    <3>3. /\ lower_pass' \in Indices' /\ upper_block' \in Indices'
          /\ lower_pass' < upper_block'
          /\ cache'[lower_pass'] = "pass" /\ cache'[upper_block'] = "block"
      BY <2>1, <2>2, <2>3
    <3>4. \A i \in Indices : i \in Int
      BY <2>2 DEF Indices
    <3>5. ASSUME NEW i \in Indices'
          PROVE  /\ ~(i < lower_pass') /\ ~(i > upper_block')
                 /\ (lower_pass' < i /\ i < upper_block') => cache'[i] = Unset
      BY <2>1, <2>2, <2>3, <3>1, <3>2, <3>4
    <3> QED BY <3>3, <3>5 DEF SearchInterval
  <2> QED BY <2>4, <2>5, <2>6 DEF IInv
<1> QED BY <1>1, <1>2

\* The midpoint of an interval that the loop still halves is strictly inside it.
LEMMA MidpointInside ==
    ASSUME lower_pass \in Int, upper_block \in Int, Halving
    PROVE  Midpoint \in Int /\ lower_pass < Midpoint /\ Midpoint < upper_block
BY DEF Halving, Midpoint

LEMMA ProbeStep == IInv /\ Probe => IInv'
<1> SUFFICES ASSUME IInv, Probe PROVE IInv'
  OBVIOUS
<1> USE DEF arguments
<1>1. /\ pc = "search" /\ Halving /\ UNCHANGED <<arguments, pending>>
      /\ lower_pass \in Indices /\ upper_block \in Indices
      /\ lower_pass \in Int /\ upper_block \in Int /\ checkpoint_count \in Int
  BY DEF Probe, IInv, SearchInterval, TypeOK
<1> DEFINE mid == Midpoint
<1>2. mid \in Int /\ lower_pass < mid /\ mid < upper_block
  BY <1>1, MidpointInside
<1>3. PICK reply \in Replies :
        /\ Get(mid, reply)
        /\ \/ /\ IsUncertain(Answer(mid, reply))
              /\ Return("inconclusive", NoIndex, Interval(lower_pass, upper_block), {},
                        "none", "uncertain")
              /\ UNCHANGED <<lower_pass, upper_block>>
           \/ /\ Answer(mid, reply) = "pass"
              /\ lower_pass' = mid
              /\ UNCHANGED <<upper_block, pc, result>>
           \/ /\ Answer(mid, reply) = "block"
              /\ upper_block' = mid
              /\ UNCHANGED <<lower_pass, pc, result>>
  BY DEF Probe
<1> DEFINE status == Answer(mid, reply)
<1>4. /\ mid \in Indices /\ Indices' = Indices
      /\ status \in BisectStatus
      /\ cache' \in [Indices -> BisectStatus \cup {Unset}]
      /\ cache'[mid] = status
      /\ \A i \in Indices : i # mid => cache'[i] = cache[i]
      /\ requests' \in Seq([index : Indices, status : BisectStatus, cache_hit : BOOLEAN])
  BY <1>1, <1>3, GetEffect DEF IInv
<1> HIDE DEF mid
<1>5. ArgumentsChecked' /\ AuditCoverage' /\ Asked'
  BY <1>1, <1>3 DEF IInv, ArgumentsChecked, AuditCoverage, Asked, Return
<1>6. CASE pc' = "done"
  <2>1. /\ UNCHANGED <<lower_pass, upper_block>>
        /\ result' = Outcome("inconclusive", NoIndex, Interval(lower_pass, upper_block), {},
                             "none", "uncertain")
    BY <1>1, <1>3, <1>6 DEF Return
  <2>2. TypeOK'
    BY <1>1, <1>4, <1>6, <2>1 DEF IInv, TypeOK, Outcome, BisectOutcome, BisectConfidence, NoIndex
  <2>3. ResultIffDone' /\ SearchInterval'
    BY <1>6, <2>1 DEF ResultIffDone, SearchInterval, Outcome, BisectOutcome
  <2> QED BY <1>5, <2>2, <2>3 DEF IInv
<1>7. CASE pc' # "done"
  <2>1. /\ pc' = pc /\ result' = result
        /\ \/ status = "pass" /\ lower_pass' = mid /\ upper_block' = upper_block
           \/ status = "block" /\ upper_block' = mid /\ lower_pass' = lower_pass
    BY <1>3, <1>7 DEF Return
  <2>2. TypeOK'
    BY <1>1, <1>2, <1>4, <2>1 DEF IInv, TypeOK
  <2>3. ResultIffDone'
    BY <2>1 DEF IInv, ResultIffDone
  <2>4. SearchInterval'
    <3>1. /\ lower_pass < upper_block
          /\ cache[lower_pass] = "pass" /\ cache[upper_block] = "block"
          /\ \A i \in Indices :
                /\ i < lower_pass => cache[i] \in {Unset, "pass"}
                /\ i > upper_block => cache[i] \in {Unset, "block"}
                /\ (lower_pass < i /\ i < upper_block) => cache[i] = Unset
      BY <1>1 DEF IInv, SearchInterval
    <3>2. \A i \in Indices : i \in Int
      BY <1>1 DEF Indices
    <3>3. CASE status = "pass" /\ lower_pass' = mid /\ upper_block' = upper_block
      BY <1>1, <1>2, <1>4, <3>1, <3>2, <3>3 DEF SearchInterval
    <3>4. CASE status = "block" /\ upper_block' = mid /\ lower_pass' = lower_pass
      BY <1>1, <1>2, <1>4, <3>1, <3>2, <3>4 DEF SearchInterval
    <3> QED BY <2>1, <3>3, <3>4
  <2> QED BY <1>5, <2>2, <2>3, <2>4 DEF IInv
<1> QED BY <1>6, <1>7

LEMMA FoundBoundaryStep == IInv /\ FoundBoundary => IInv'
<1> SUFFICES ASSUME IInv, FoundBoundary PROVE IInv'
  OBVIOUS
<1>1. upper_block \in Int
  BY DEF IInv, TypeOK
<1>2. /\ pc' = "done"
      /\ result'.outcome \in BisectOutcome
      /\ result'.first_failing_index \in Int
      /\ result'.confidence \in BisectConfidence
  BY <1>1 DEF FoundBoundary, Return, Outcome, BisectOutcome, BisectConfidence
<1> QED BY <1>2, ReturnStep DEF FoundBoundary

LEMMA AuditNextStep == IInv /\ AuditNext => IInv'
<1> SUFFICES ASSUME IInv, AuditNext PROVE IInv'
  OBVIOUS
<1>1. PICK index \in pending, reply \in Replies :
        Get(index, reply) /\ pending' = pending \ {index}
  BY DEF AuditNext
<1> DEFINE status == Answer(index, reply)
<1>2. /\ index \in Indices /\ Indices' = Indices
      /\ status \in BisectStatus
      /\ cache' \in [Indices -> BisectStatus \cup {Unset}]
      /\ cache'[index] = status
      /\ \A i \in Indices : i # index => cache'[i] = cache[i]
      /\ requests' \in Seq([index : Indices, status : BisectStatus, cache_hit : BOOLEAN])
  BY <1>1, GetEffect DEF AuditNext, IInv
<1>3. /\ pc = "audit" /\ pc' = "audit" /\ result' = result
      /\ UNCHANGED <<checkpoint_count, mode, sparse_points, lower_pass, upper_block>>
  BY DEF AuditNext, arguments
<1> HIDE DEF status
<1>4. status # Unset
  BY <1>2 DEF BisectStatus, Unset
<1>5. TypeOK'
  BY <1>1, <1>2, <1>3 DEF IInv, TypeOK
<1>6. ArgumentsChecked' /\ ResultIffDone' /\ SearchInterval'
  BY <1>3 DEF IInv, ArgumentsChecked, ResultIffDone, SearchInterval
<1>7. Asked'
  <2>1. checkpoint_count >= 1 /\ checkpoint_count \in Int
    BY <1>3 DEF IInv, ArgumentsChecked, TypeOK
  <2>2. 0 \in Indices /\ checkpoint_count - 1 \in Indices
    BY <2>1 DEF Indices
  <2> QED BY <1>2, <1>3, <1>4, <2>2 DEF IInv, Asked
<1>8. AuditCoverage'
  BY <1>1, <1>2, <1>3, <1>4 DEF IInv, AuditCoverage
<1> QED BY <1>5, <1>6, <1>7, <1>8 DEF IInv

LEMMA AuditConcludeStep == IInv /\ AuditConclude => IInv'
<1> SUFFICES ASSUME IInv, AuditConclude PROVE IInv'
  OBVIOUS
<1>1. Blocking \subseteq Int
  BY DEF Blocking, Evaluated, Indices, IInv, TypeOK
<1>2. /\ pc' = "done"
      /\ result'.outcome \in BisectOutcome
      /\ result'.first_failing_index \in Int
      /\ result'.confidence \in BisectConfidence
  BY <1>1 DEF AuditConclude, AuditOnset, AuditConfidence, Return, Outcome, BisectOutcome,
              BisectConfidence, NoIndex
<1> QED BY <1>2, ReturnStep DEF AuditConclude

LEMMA StepInvariant == IInv /\ [Next]_vars => IInv'
<1> SUFFICES ASSUME IInv, [Next]_vars PROVE IInv'
  OBVIOUS
<1>1. CASE RejectArguments \/ Start \/ PlanAudit
  BY <1>1, ControlStep
<1>2. CASE GetFirst
  BY <1>2, GetFirstStep
<1>3. CASE GetLast
  BY <1>3, GetLastStep
<1>4. CASE FromEndpoints
  BY <1>4, FromEndpointsStep
<1>5. CASE Probe
  BY <1>5, ProbeStep
<1>6. CASE FoundBoundary
  BY <1>6, FoundBoundaryStep
<1>7. CASE AuditNext
  BY <1>7, AuditNextStep
<1>8. CASE AuditConclude
  BY <1>8, AuditConcludeStep
<1>9. CASE UNCHANGED vars
  BY <1>9 DEF vars, arguments, evaluator, search, IInv, TypeOK, ArgumentsChecked,
              ResultIffDone, Asked, SearchInterval, AuditCoverage, Indices
<1> QED BY <1>1, <1>2, <1>3, <1>4, <1>5, <1>6, <1>7, <1>8, <1>9 DEF Next

\* The invariant of the three strategies: what has been asked at each point of
\* a call, where the boundary of a binary search lies, and when there is a result.
THEOREM Invariance == Spec => []IInv
<1>1. Init => IInv
  BY InitInvariant
<1>2. IInv /\ [Next]_vars => IInv'
  BY StepInvariant
<1> QED BY <1>1, <1>2, PTL DEF Spec

\* Every variable keeps its type.
THEOREM TypeCorrect == Spec => []TypeOK
<1>1. IInv => TypeOK
  BY DEF IInv
<1> QED BY <1>1, Invariance, PTL

-----------------------------------------------------------------------------
(* Each strategy keeps the promise of OnsetSearch *)

LEMMA PossibleByStatus ==
    PossibleOnsets = {k \in 0..checkpoint_count :
                        \A i \in Indices : /\ cache[i] = "block" => k <= i
                                           /\ cache[i] = "pass" => i < k}
BY DEF PossibleOnsets, Blocking, Passing, Evaluated, Unset

\* A request rules out onsets according to the status it returns.
LEMMA GetRulesOut ==
    ASSUME TypeOK, NEW index, NEW reply \in Replies, Get(index, reply),
           UNCHANGED arguments
    PROVE  /\ IsUncertain(Answer(index, reply)) => PossibleOnsets' = PossibleOnsets
           /\ Answer(index, reply) = "pass" =>
                 PossibleOnsets' = {k \in PossibleOnsets : k > index}
           /\ Answer(index, reply) = "block" =>
                 PossibleOnsets' = {k \in PossibleOnsets : k <= index}
<1> DEFINE status == Answer(index, reply)
           Fits(k, c) == \A i \in Indices : /\ c[i] = "block" => k <= i
                                            /\ c[i] = "pass" => i < k
<1>1. /\ index \in Indices /\ Indices' = Indices
      /\ cache[index] # Unset => status = cache[index]
      /\ cache'[index] = status
      /\ \A i \in Indices : i # index => cache'[i] = cache[i]
  BY GetEffect
<1>2. checkpoint_count \in Int /\ checkpoint_count' = checkpoint_count
  BY DEF TypeOK, arguments
<1>3. \A i \in Indices : i \in Int
  BY <1>2 DEF Indices
<1>4. /\ PossibleOnsets = {k \in 0..checkpoint_count : Fits(k, cache)}
      /\ PossibleOnsets' = {k \in 0..checkpoint_count : Fits(k, cache')}
  BY <1>1, <1>2, PossibleByStatus DEF PossibleOnsets, Blocking, Passing, Evaluated, Unset
<1> HIDE DEF status
<1>5. ASSUME NEW k \in 0..checkpoint_count, IsUncertain(status)
      PROVE  Fits(k, cache') <=> Fits(k, cache)
  BY <1>1, <1>5 DEF IsUncertain, Unset
<1>6. ASSUME NEW k \in 0..checkpoint_count, status = "pass"
      PROVE  Fits(k, cache') <=> (Fits(k, cache) /\ k > index)
  BY <1>1, <1>2, <1>3, <1>6 DEF Unset
<1>7. ASSUME NEW k \in 0..checkpoint_count, status = "block"
      PROVE  Fits(k, cache') <=> (Fits(k, cache) /\ k <= index)
  BY <1>1, <1>2, <1>3, <1>7 DEF Unset
<1> HIDE DEF Fits
<1>8. IsUncertain(status) => PossibleOnsets' = PossibleOnsets
  BY <1>4, <1>5
<1>9. status = "pass" => PossibleOnsets' = {k \in PossibleOnsets : k > index}
  BY <1>4, <1>6
<1>10. status = "block" => PossibleOnsets' = {k \in PossibleOnsets : k <= index}
  BY <1>4, <1>7
<1> QED BY <1>8, <1>9, <1>10 DEF status

\* While there is no result the claim is "searching", and only then.
LEMMA SearchingIffPending ==
    ASSUME result = NoResult
    PROVE  ResultClaim = Promise!Searching
BY DEF ResultClaim, ClaimKind, Promise!Searching, NoIndex, NoResult, Outcome

\* A request that does not end the call is an observation.
LEMMA RequestObserves ==
    ASSUME IInv, NEW index, NEW reply \in Replies, Get(index, reply),
           UNCHANGED arguments, pc # "done", result' = result
    PROVE  Promise!Observe
<1>1. TypeOK /\ result = NoResult
  BY DEF IInv, ResultIffDone
<1>2. ResultClaim = Promise!Searching /\ ResultClaim' = ResultClaim
  BY <1>1, SearchingIffPending DEF ResultClaim
<1>3. Answer(index, reply) \in BisectStatus /\ index \in Indices
  BY <1>1, GetEffect
<1>4. \/ PossibleOnsets' = PossibleOnsets
      \/ PossibleOnsets' = {k \in PossibleOnsets : k > index}
      \/ PossibleOnsets' = {k \in PossibleOnsets : k <= index}
  BY <1>1, <1>3, GetRulesOut DEF BisectStatus, IsUncertain
<1>5. index \in 0..checkpoint_count-1
  BY <1>3 DEF Indices
<1> QED BY <1>2, <1>4, <1>5 DEF Promise!Observe, arguments

\* Returning a claim that the possible onsets justify is a conclusion.
LEMMA ReturnConcludes ==
    ASSUME IInv, pc # "done", UNCHANGED arguments, PossibleOnsets' = PossibleOnsets,
           NEW kind \in {"unknown", "sampled_clean", "no_onset", "reversal", "onset", "bounded"},
           NEW low \in -1..checkpoint_count, NEW high \in -1..checkpoint_count,
           ResultClaim' = Promise!Claim(kind, low, high),
           Promise!Justified(Promise!Claim(kind, low, high))
    PROVE  Promise!Conclude
<1>1. ResultClaim = Promise!Searching
  BY SearchingIffPending DEF IInv, ResultIffDone
<1> QED BY <1>1 DEF Promise!Conclude, arguments

\* The claims that an endpoint, a probe and an audit make with no interval.
LEMMA ClaimWithoutIndex ==
    ASSUME IInv, pc \notin {"call", "rejected", "done"}, UNCHANGED arguments,
           PossibleOnsets' = PossibleOnsets,
           NEW outcome \in {"inconclusive", "all_pass", "non_monotonic", "no_failure_observed"},
           NEW interval, NEW reversals, NEW confidence, NEW reason,
           Return(outcome, NoIndex, interval, reversals, confidence, reason),
           outcome = "all_pass" => PossibleOnsets = {checkpoint_count},
           outcome = "non_monotonic" => PossibleOnsets = {}
    PROVE  Promise!Conclude
<1> DEFINE kind == ClaimKind[outcome]
<1>1. kind \in {"unknown", "sampled_clean", "no_onset", "reversal"}
  BY DEF ClaimKind
<1>2. ResultClaim' = Promise!Claim(kind, -1, -1)
  BY DEF Return, Outcome, ResultClaim, ClaimKind, Promise!Claim, NoIndex
<1>3. Promise!Justified(Promise!Claim(kind, -1, -1))
  BY DEF Promise!Justified, ClaimKind
<1>4. -1 \in -1..checkpoint_count
  BY DEF IInv, TypeOK, ArgumentsChecked
<1> QED BY <1>1, <1>2, <1>3, <1>4, ReturnConcludes

\* An onset is claimed only when it is the only possible one.
LEMMA ClaimOnset ==
    ASSUME IInv, pc # "done", UNCHANGED arguments, PossibleOnsets' = PossibleOnsets,
           NEW first, NEW interval, NEW reversals, NEW confidence, NEW reason,
           Return("first_failing", first, interval, reversals, confidence, reason),
           PossibleOnsets = {first}
    PROVE  Promise!Conclude
<1>1. first \in 0..checkpoint_count /\ checkpoint_count \in Int
  BY DEF PossibleOnsets, IInv, TypeOK
<1>2. ResultClaim' = Promise!Claim("onset", first, first)
  BY DEF Return, Outcome, ResultClaim, ClaimKind, Promise!Claim
<1>3. Promise!Justified(Promise!Claim("onset", first, first))
  BY DEF Promise!Justified
<1>4. first \in -1..checkpoint_count
  BY <1>1
<1> QED BY <1>2, <1>3, <1>4, ReturnConcludes

LEMMA PossibleUnchanged ==
    ASSUME UNCHANGED <<arguments, cache>>
    PROVE  PossibleOnsets' = PossibleOnsets
BY DEF arguments, PossibleOnsets, Blocking, Passing, Evaluated, Indices

LEMMA EndpointsConclude == IInv /\ pc = "endpoints" /\ EndpointsDecide
                              /\ UNCHANGED <<arguments, evaluator>> => Promise!Conclude
<1> SUFFICES ASSUME IInv, pc = "endpoints", EndpointsDecide, UNCHANGED <<arguments, evaluator>>
             PROVE  Promise!Conclude
  OBVIOUS
<1> DEFINE n == checkpoint_count
<1>1. n \in Int /\ n >= 1 /\ 0 \in Indices /\ n - 1 \in Indices
  BY DEF IInv, TypeOK, ArgumentsChecked, Indices
<1>2. PossibleOnsets' = PossibleOnsets
  BY PossibleUnchanged DEF evaluator
<1>3. \A k \in PossibleOnsets :
         /\ k \in 0..n
         /\ cache[0] = "block" => k <= 0
         /\ cache[0] = "pass" => 0 < k
         /\ cache[n - 1] = "block" => k <= n - 1
         /\ cache[n - 1] = "pass" => n - 1 < k
  BY <1>1, PossibleByStatus
<1>4. \A i \in Indices : i # 0 /\ i # n - 1 => cache[i] = Unset
  BY DEF IInv, Asked
<1>5. CASE Return("inconclusive", NoIndex, NoInterval, {}, "none", "uncertain")
  BY <1>2, <1>5, ClaimWithoutIndex
<1>6. CASE /\ cache[0] = "block" /\ cache[n - 1] = "pass"
           /\ Return("non_monotonic", NoIndex, NoInterval, {<<0, n - 1>>}, "none", "reversal")
  <2>1. PossibleOnsets = {}
    BY <1>1, <1>3, <1>6
  <2> QED BY <1>2, <1>6, <2>1, ClaimWithoutIndex
<1>7. CASE /\ cache[0] = "block" /\ cache[n - 1] = "block"
           /\ Return("first_failing", 0, Interval(NoIndex, 0), {}, "assumed_monotonic", "onset")
  <2>1. 0 \in PossibleOnsets
    <3>1. \A i \in Indices : i \in Int /\ 0 <= i /\ cache[i] # "pass"
      BY <1>1, <1>4, <1>7 DEF Indices, Unset
    <3> QED BY <1>1, <3>1, PossibleByStatus
  <2>2. PossibleOnsets = {0}
    BY <1>1, <1>3, <1>7, <2>1
  <2> QED BY <1>2, <1>7, <2>2, ClaimOnset
<1>8. CASE /\ cache[0] = "pass" /\ cache[n - 1] = "pass"
           /\ Return("all_pass", NoIndex, NoInterval, {}, "assumed_monotonic", "clean")
  <2>1. n \in PossibleOnsets
    <3>1. \A i \in Indices : i \in Int /\ i < n /\ cache[i] # "block"
      BY <1>1, <1>4, <1>8 DEF Indices, Unset
    <3> QED BY <1>1, <3>1, PossibleByStatus
  <2>2. \A k \in PossibleOnsets : k = n
    BY <1>1, <1>3, <1>8
  <2>3. PossibleOnsets = {n}
    BY <2>1, <2>2
  <2> QED BY <1>2, <1>8, <2>3, ClaimWithoutIndex
<1> QED BY <1>5, <1>6, <1>7, <1>8 DEF EndpointsDecide

LEMMA BoundaryConcludes == IInv /\ FoundBoundary => Promise!Conclude
<1> SUFFICES ASSUME IInv, FoundBoundary PROVE Promise!Conclude
  OBVIOUS
<1>1. /\ pc = "search" /\ UNCHANGED <<arguments, evaluator>>
      /\ Return("first_failing", upper_block, Interval(lower_pass, upper_block), {},
                "assumed_monotonic", "onset")
  BY DEF FoundBoundary
<1>2. /\ lower_pass \in Indices /\ upper_block \in Indices
      /\ cache[lower_pass] = "pass" /\ cache[upper_block] = "block"
      /\ \A i \in Indices :
            /\ i < lower_pass => cache[i] \in {Unset, "pass"}
            /\ i > upper_block => cache[i] \in {Unset, "block"}
      /\ lower_pass < upper_block /\ ~(upper_block - lower_pass > 1)
  BY <1>1 DEF IInv, SearchInterval, FoundBoundary, Halving
<1>3. checkpoint_count \in Int /\ \A i \in Indices : i \in Int /\ 0 <= i /\ i < checkpoint_count
  BY DEF IInv, TypeOK, Indices
<1>4. upper_block = lower_pass + 1
  BY <1>2, <1>3
<1>5. upper_block \in PossibleOnsets
  <2>1. ASSUME NEW i \in Indices
        PROVE  (cache[i] = "block" => upper_block <= i) /\ (cache[i] = "pass" => i < upper_block)
    BY <1>2, <1>3, <1>4 DEF Unset
  <2> QED BY <1>2, <1>3, <2>1, PossibleByStatus
<1>6. \A k \in PossibleOnsets : k \in Int /\ k <= upper_block /\ lower_pass < k
  BY <1>2, <1>3, PossibleByStatus
<1>7. PossibleOnsets = {upper_block}
  <2>1. \A k \in PossibleOnsets : k = upper_block
    BY <1>2, <1>3, <1>4, <1>6
  <2> QED BY <1>5, <2>1
<1>8. PossibleOnsets' = PossibleOnsets
  BY <1>1, PossibleUnchanged DEF evaluator
<1> QED BY <1>1, <1>7, <1>8, ClaimOnset

-----------------------------------------------------------------------------
(* The conclusion of an audit *)

\* With no reversal among the records, no checkpoint that blocked comes before
\* one that passed: from a BLOCK before a PASS, the last BLOCK before that PASS
\* and the first PASS after that BLOCK are a reversal.
LEMMA NoReversalNoInversion ==
    ASSUME TypeOK, Reversals = {}
    PROVE  \A b \in Blocking, p \in Passing : ~(b < p)
<1>1. /\ Blocking \subseteq Nat /\ Passing \subseteq Nat
      /\ Blocking \cap Passing = {}
  BY DEF TypeOK, Blocking, Passing, Evaluated, Indices
<1>2. SUFFICES ASSUME NEW b0 \in Blocking, NEW p \in Passing, b0 < p PROVE FALSE
  OBVIOUS
<1>3. PICK b \in Blocking : b < p /\ \A x \in Blocking : x < p => x <= b
  <2> DEFINE Distances == {p - x : x \in {y \in Blocking : y < p}}
  <2>1. Distances \subseteq Nat /\ Distances # {}
    BY <1>1, <1>2
  <2>2. PICK d \in Distances : \A e \in Distances : d <= e
    <3> HIDE DEF Distances
    <3> QED BY <2>1, LeastNatural
  <2>3. PICK x \in Blocking : x < p /\ d = p - x
    OBVIOUS
  <2>4. ASSUME NEW y \in Blocking, y < p PROVE y <= x
    <3>1. p - y \in Distances
      BY <2>4
    <3>2. p - x <= p - y
      BY <2>2, <2>3, <3>1
    <3> QED BY <1>1, <3>2
  <2> QED BY <2>3, <2>4
<1>4. PICK q \in Passing : b < q /\ \A x \in Passing : b < x => q <= x
  <2> DEFINE Later == {x \in Passing : b < x}
  <2>1. Later \subseteq Nat /\ Later # {}
    BY <1>1, <1>2, <1>3
  <2>2. PICK q \in Later : \A x \in Later : q <= x
    <3> HIDE DEF Later
    <3> QED BY <2>1, LeastNatural
  <2> QED BY <2>2
<1>5. q <= p
  BY <1>3, <1>4
<1>6. \A i \in Blocking \cup Passing : ~(b < i /\ i < q)
  <2>1. ASSUME NEW i \in Blocking, b < i, i < q PROVE FALSE
    BY <1>1, <1>3, <1>5, <2>1
  <2>2. ASSUME NEW i \in Passing, b < i, i < q PROVE FALSE
    BY <1>1, <1>4, <2>2
  <2> QED BY <2>1, <2>2
<1>7. <<b, q>> \in Reversals
  BY <1>4, <1>6 DEF Reversals
<1> QED BY <1>7

LEMMA AuditConcludes == IInv /\ AuditConclude => Promise!Conclude
<1> SUFFICES ASSUME IInv, AuditConclude PROVE Promise!Conclude
  OBVIOUS
<1> DEFINE n == checkpoint_count
<1>1. /\ n \in Int /\ n >= 1 /\ TypeOK /\ UNCHANGED <<arguments, evaluator>>
      /\ pc = "audit" /\ pending = {}
      /\ cache[0] # Unset /\ cache[n - 1] # Unset
      /\ mode = "linear_audit" => \A i \in Indices : cache[i] # Unset
  BY DEF IInv, TypeOK, ArgumentsChecked, Asked, AuditCoverage, AuditConclude
<1>2. /\ 0 \in Indices /\ n - 1 \in Indices
      /\ \A i \in Indices : i \in Int /\ 0 <= i /\ i <= n - 1
      /\ \A i \in Indices : cache[i] \in BisectStatus \cup {Unset}
  BY <1>1 DEF Indices, TypeOK
<1>3. PossibleOnsets' = PossibleOnsets
  BY <1>1, PossibleUnchanged DEF evaluator
<1>4. CASE Return("inconclusive", NoIndex, NoInterval, {}, "none", "uncertain")
  BY <1>1, <1>3, <1>4, ClaimWithoutIndex
<1>5. CASE /\ Reversals # {}
           /\ Return("non_monotonic", NoIndex, NoInterval, Reversals, AuditConfidence, "reversal")
  <2>1. PICK b \in Blocking, p \in Passing : b < p
    BY <1>5 DEF Reversals
  <2>2. b \in Int /\ p \in Int
    BY <1>2 DEF Blocking, Passing, Evaluated
  <2>3. PossibleOnsets = {}
    BY <1>1, <2>1, <2>2 DEF PossibleOnsets
  <2> QED BY <1>1, <1>3, <1>5, <2>3, ClaimWithoutIndex
<1>6. CASE /\ Uncertain = {} /\ Blocking = {}
           /\ Return(IF mode = "linear_audit" THEN "all_pass" ELSE "no_failure_observed",
                     NoIndex, NoInterval, {}, AuditConfidence, "clean")
  <2>1. n - 1 \in Passing
    BY <1>1, <1>2, <1>6 DEF Passing, Blocking, Uncertain, Evaluated, IsUncertain, BisectStatus
  <2>2. n \in PossibleOnsets
    BY <1>1, <1>2, <1>6 DEF PossibleOnsets, Passing, Evaluated
  <2>3. \A k \in PossibleOnsets : k = n
    BY <1>1, <2>1 DEF PossibleOnsets
  <2>4. PossibleOnsets = {n}
    BY <2>2, <2>3
  <2>5. CASE mode = "linear_audit"
    BY <1>1, <1>3, <1>6, <2>4, <2>5, ClaimWithoutIndex
  <2>6. CASE mode # "linear_audit"
    BY <1>1, <1>3, <1>6, <2>6, ClaimWithoutIndex
  <2> QED BY <2>5, <2>6
<1>7. CASE Uncertain = {} /\ Reversals = {} /\ AuditOnset
  <2>1. PICK first \in Blocking, low \in Passing \cup {NoIndex} :
          /\ \A i \in Blocking : first <= i
          /\ IsLastPassBelow(low, first)
          /\ IF mode = "linear_audit" \/ first = 0
               THEN Return("first_failing", first, Interval(low, first), {}, AuditConfidence,
                           IF mode = "linear_audit" THEN "onset" ELSE "onset_unknown")
               ELSE Return("regression_bounded", NoIndex, Interval(low, first), {},
                           AuditConfidence, "onset_unknown")
    BY <1>7 DEF AuditOnset
  <2>2. /\ first \in Indices /\ low \in Indices \cup {NoIndex}
        /\ first \in Int /\ low \in Int /\ 0 <= first /\ first <= n - 1
    BY <1>2 DEF Blocking, Passing, Evaluated, NoIndex
  <2>3. \A p \in Passing : p \in Int /\ p < first /\ p <= low
    <3>1. ASSUME NEW p \in Passing PROVE p \in Int /\ p < first
      <4>1. p \in Int /\ ~(first < p) /\ p # first
        BY <1>1, <1>2, <1>7, NoReversalNoInversion DEF Passing, Blocking, Evaluated
      <4> QED BY <2>2, <4>1
    <3>2. ASSUME NEW p \in Passing PROVE p <= low
      BY <2>1, <2>2, <3>1 DEF IsLastPassBelow
    <3> QED BY <3>1, <3>2
  <2>4. PossibleOnsets = {k \in 0..n : k <= first /\ \A p \in Passing : p < k}
    BY <1>1, <1>2, <2>1, <2>2 DEF PossibleOnsets, Blocking, Evaluated
  <2>5. first \in PossibleOnsets
    BY <1>1, <2>2, <2>3, <2>4
  <2>6. CASE first = 0
    <3>1. PossibleOnsets = {first}
      BY <1>1, <2>4, <2>5, <2>6
    <3> QED BY <1>1, <1>3, <2>1, <2>6, <3>1, ClaimOnset
  <2>7. CASE first # 0 /\ mode = "linear_audit"
    <3>1. first - 1 \in Indices /\ first - 1 \notin Blocking
      BY <1>1, <2>1, <2>2, <2>7 DEF Indices
    <3>2. first - 1 \in Passing
      BY <1>1, <1>2, <1>7, <2>7, <3>1 DEF Passing, Blocking, Uncertain, Evaluated, IsUncertain,
                                         BisectStatus
    <3>3. \A k \in PossibleOnsets : k = first
      BY <1>1, <2>2, <2>4, <3>2
    <3>4. PossibleOnsets = {first}
      BY <2>5, <3>3
    <3> QED BY <1>1, <1>3, <2>1, <2>7, <3>4, ClaimOnset
  <2>8. CASE first # 0 /\ mode # "linear_audit"
    <3>1. 0 \in Passing
      <4>1. 0 \notin Blocking
        BY <2>1, <2>2, <2>8
      <4> QED BY <1>1, <1>2, <1>7, <4>1 DEF Passing, Blocking, Uncertain, Evaluated, IsUncertain,
                                            BisectStatus
    <3>2. low \in Passing /\ 0 <= low /\ low < first
      BY <2>1, <2>2, <2>3, <3>1 DEF NoIndex
    <3>3. PossibleOnsets = low+1..first
      BY <1>1, <2>2, <2>3, <2>4, <3>2
    <3>4. Promise!Justified(Promise!Claim("bounded", low, first))
      BY <1>1, <2>2, <3>2, <3>3 DEF Promise!Justified
    <3>5. ResultClaim' = Promise!Claim("bounded", low, first)
      BY <2>1, <2>8 DEF Return, Outcome, Interval, ResultClaim, ClaimKind, Promise!Claim
    <3>6. low \in -1..n /\ first \in -1..n
      BY <1>1, <2>2, <3>2
    <3> QED BY <1>1, <1>3, <3>4, <3>5, <3>6, ReturnConcludes
  <2> QED BY <2>6, <2>7, <2>8
<1> QED BY <1>4, <1>5, <1>6, <1>7 DEF AuditConclude

-----------------------------------------------------------------------------
(* Refinement *)

LEMMA ProbeRefines == IInv /\ Probe => Promise!Next
<1> SUFFICES ASSUME IInv, Probe PROVE Promise!Next
  OBVIOUS
<1>1. PICK reply \in Replies :
        /\ Get(Midpoint, reply)
        /\ \/ /\ IsUncertain(Answer(Midpoint, reply))
              /\ Return("inconclusive", NoIndex, Interval(lower_pass, upper_block), {},
                        "none", "uncertain")
           \/ result' = result
  BY DEF Probe
<1>2. pc = "search" /\ UNCHANGED arguments /\ TypeOK
  BY DEF Probe, IInv
<1>3. CASE result' = result
  BY <1>1, <1>2, <1>3, RequestObserves DEF Promise!Next
<1>4. CASE /\ IsUncertain(Answer(Midpoint, reply))
           /\ Return("inconclusive", NoIndex, Interval(lower_pass, upper_block), {},
                     "none", "uncertain")
  <2>1. PossibleOnsets' = PossibleOnsets
    BY <1>1, <1>2, <1>4, GetRulesOut
  <2> QED BY <1>2, <1>4, <2>1, ClaimWithoutIndex DEF Promise!Next
<1> QED BY <1>1, <1>3, <1>4

\* A step that leaves the arguments, the cache and the result alone shows nothing.
LEMMA SilentStep ==
    ASSUME UNCHANGED <<arguments, cache, result>>
    PROVE  UNCHANGED Promise!vars
BY PossibleUnchanged DEF Promise!vars, ResultClaim, arguments

LEMMA StepRefines == IInv /\ [Next]_vars => [Promise!Next]_Promise!vars
<1> SUFFICES ASSUME IInv, [Next]_vars PROVE [Promise!Next]_Promise!vars
  OBVIOUS
<1>1. CASE RejectArguments \/ Start \/ PlanAudit \/ UNCHANGED vars
  <2>1. UNCHANGED <<arguments, cache, result>>
    BY <1>1 DEF RejectArguments, Start, PlanAudit, vars, arguments, evaluator
  <2> QED BY <2>1, SilentStep
<1>2. CASE GetFirst
  BY <1>2, RequestObserves DEF GetFirst, Promise!Next
<1>3. CASE GetLast
  BY <1>3, RequestObserves DEF GetLast, Promise!Next
<1>4. CASE AuditNext
  BY <1>4, RequestObserves DEF AuditNext, Promise!Next
<1>5. CASE Probe
  BY <1>5, ProbeRefines
<1>6. CASE FoundBoundary
  BY <1>6, BoundaryConcludes DEF Promise!Next
<1>7. CASE AuditConclude
  BY <1>7, AuditConcludes DEF Promise!Next
<1>8. CASE FromEndpoints
  <2>1. CASE EndpointsDecide
    BY <1>8, <2>1, EndpointsConclude DEF FromEndpoints, Promise!Next
  <2>2. CASE ~EndpointsDecide
    <3>1. UNCHANGED <<arguments, cache, result>>
      BY <1>8, <2>2 DEF FromEndpoints, evaluator
    <3> QED BY <3>1, SilentStep
  <2> QED BY <2>1, <2>2
<1> QED BY <1>1, <1>2, <1>3, <1>4, <1>5, <1>6, <1>7, <1>8 DEF Next

LEMMA InitRefines == Init => Promise!Init
<1> SUFFICES ASSUME Init PROVE Promise!Init
  OBVIOUS
<1>1. PossibleOnsets = 0..checkpoint_count
  BY PossibleByStatus DEF Init, Unset, Indices
<1>2. ResultClaim = Promise!Searching
  BY SearchingIffPending DEF Init
<1> QED BY <1>1, <1>2 DEF Init, Promise!Init

\* Binary search, sparse audit and linear audit all implement OnsetSearch: no
\* strategy ever claims more than the statuses it has seen justify, whatever
\* the number of checkpoints, the sampling and the answers of the callback.
THEOREM Refinement == Spec => KeepsPromise
<1>1. Init => Promise!Init
  BY InitRefines
<1>2. IInv /\ [Next]_vars => [Promise!Next]_Promise!vars
  BY StepRefines
<1> QED BY <1>1, <1>2, Invariance, PTL DEF Spec, KeepsPromise, Promise!Spec

-----------------------------------------------------------------------------
(* What a result says of the statuses *)

\* The property of a result follows once every step that returns one has it.
LEMMA UncertaintySurfaces ==
    ASSUME IInv, [Next]_vars, InconclusiveIffUncertain
    PROVE  InconclusiveIffUncertain'
<1> DEFINE IsReported(c, r) ==
      /\ (r.outcome = "inconclusive") <=> (\E i \in Indices : c[i] \in {"warn", "error"})
      /\ r.outcome = "inconclusive" =>
            /\ r.first_failing_index = NoIndex
            /\ r.confidence = "none"
            /\ r.non_monotonic_intervals = {}
<1>1. SUFFICES ASSUME pc' = "done", pc # "done"
               PROVE  Indices' = Indices /\ IsReported(cache', result')
  <2>1. CASE pc' = "done" /\ pc # "done"
    BY <2>1, <1>1 DEF InconclusiveIffUncertain
  <2>2. CASE pc = "done"
    <3>1. UNCHANGED <<arguments, cache, result>>
      BY <2>2 DEF Next, RejectArguments, Start, GetFirst, GetLast, FromEndpoints, Probe, FoundBoundary,
             PlanAudit, AuditNext, AuditConclude, vars, evaluator
    <3> QED
      BY <2>2, <3>1 DEF InconclusiveIffUncertain, Indices, arguments
  <2> QED
    BY <2>1, <2>2 DEF InconclusiveIffUncertain
<1>2. checkpoint_count \in Int /\ cache \in [Indices -> BisectStatus \cup {Unset}]
         /\ \A i \in Indices : i \in Int /\ 0 <= i /\ i < checkpoint_count
  BY DEF IInv, TypeOK, Indices
<1>3. CASE FromEndpoints /\ EndpointsDecide
  <2>1. Indices' = Indices /\ cache' = cache
    BY <1>3 DEF FromEndpoints, evaluator, arguments, Indices
  <2>2. \A i \in Indices : cache[i] \in {"warn", "error"} =>
            IsUncertain(cache[0]) \/ IsUncertain(cache[checkpoint_count - 1])
    BY <1>3 DEF FromEndpoints, IInv, Asked, IsUncertain, Unset
  <2>3. 0 \in Indices /\ checkpoint_count - 1 \in Indices
    BY <1>2, <1>3 DEF FromEndpoints, IInv, ArgumentsChecked, Indices
  <2> QED
    BY <1>3, <2>1, <2>2, <2>3 DEF EndpointsDecide, Return, Outcome, IsUncertain
<1>4. CASE Probe
  <2>1. PICK reply \in Replies : /\ Get(Midpoint, reply)
                                 /\ IsUncertain(Answer(Midpoint, reply))
                                 /\ Return("inconclusive", NoIndex, Interval(lower_pass, upper_block), {},
                                           "none", "uncertain")
    BY <1>1, <1>4 DEF Probe
  <2>2. Midpoint \in Indices /\ Indices' = Indices /\ cache'[Midpoint] = Answer(Midpoint, reply)
    BY <1>4, <2>1, GetEffect DEF Probe, IInv
  <2> QED
    BY <2>1, <2>2 DEF Return, Outcome, IsUncertain
<1>5. CASE FoundBoundary
  <2>1. Indices' = Indices /\ cache' = cache
    BY <1>5 DEF FoundBoundary, evaluator, arguments, Indices
  <2>2. \A i \in Indices : cache[i] \in {Unset, "pass", "block"}
    BY <1>2, <1>5 DEF FoundBoundary, Halving, IInv, SearchInterval, TypeOK
  <2> QED
    BY <1>5, <2>1, <2>2 DEF FoundBoundary, Return, Outcome, Unset
<1>6. CASE AuditConclude
  <2>1. Indices' = Indices /\ cache' = cache
    BY <1>6 DEF AuditConclude, evaluator, arguments, Indices
  <2>2. Uncertain # {} <=> \E i \in Indices : cache[i] \in {"warn", "error"}
    BY DEF Uncertain, Evaluated, IsUncertain, Unset
  <2> QED
    BY <1>6, <2>1, <2>2 DEF AuditConclude, AuditOnset, Return, Outcome
<1> QED
  BY <1>1, <1>3, <1>4, <1>5, <1>6 DEF Next, vars, RejectArguments, Start, GetFirst, GetLast, FromEndpoints,
     PlanAudit, AuditNext

\* No strategy coerces an uncertain status: a call of any length is inconclusive
\* exactly when one of the checkpoints it asked about was uncertain.
THEOREM UncertaintyIsReported == Spec => []InconclusiveIffUncertain
<1>1. Init => InconclusiveIffUncertain
  BY DEF Init, InconclusiveIffUncertain
<1>2. IInv /\ [Next]_vars /\ InconclusiveIffUncertain => InconclusiveIffUncertain'
  BY UncertaintySurfaces
<1> QED BY <1>1, <1>2, Invariance, PTL DEF Spec

\* With every status known and decisive, the reversals are the descents from one
\* checkpoint to the next.
Descents ==
    {<<i, i + 1>> : i \in {j \in Indices : /\ j + 1 \in Indices
                                           /\ cache[j] = "block"
                                           /\ cache[j + 1] = "pass"}}

LEMMA ReversalsAreDescents ==
    ASSUME checkpoint_count \in Int, \A i \in Indices : cache[i] \in {"pass", "block"}
    PROVE  Reversals = Descents
<1>1. /\ Blocking = {i \in Indices : cache[i] = "block"} /\ Passing = {i \in Indices : cache[i] = "pass"}
      /\ Blocking \cup Passing = Indices
  BY DEF Blocking, Passing, Evaluated, Unset
<1>2. \A i \in Indices : i \in Int
  BY DEF Indices
<1>3. ASSUME NEW pair \in Reversals PROVE pair \in Descents
  <2>1. /\ pair \in Blocking \X Passing /\ pair[1] < pair[2]
        /\ \A i \in Indices : ~(pair[1] < i /\ i < pair[2])
    BY <1>1, <1>3 DEF Reversals
  <2>2. pair[1] \in Indices /\ pair[2] \in Indices /\ pair = <<pair[1], pair[2]>>
           /\ cache[pair[1]] = "block" /\ cache[pair[2]] = "pass"
    BY <1>1, <2>1
  <2>3. pair[1] + 1 \in Indices
    BY <1>2, <2>1, <2>2 DEF Indices
  <2>4. pair[2] = pair[1] + 1
    BY <1>2, <2>1, <2>2, <2>3
  <2> QED
    BY <2>2, <2>3, <2>4 DEF Descents
<1>4. ASSUME NEW pair \in Descents PROVE pair \in Reversals
  <2>1. PICK i \in Indices : i + 1 \in Indices /\ cache[i] = "block" /\ cache[i + 1] = "pass"
                             /\ pair = <<i, i + 1>>
    BY <1>4 DEF Descents
  <2>2. pair \in Blocking \X Passing /\ pair[1] = i /\ pair[2] = i + 1
    BY <1>1, <2>1
  <2>3. i < i + 1 /\ \A j \in Indices : ~(i < j /\ j < i + 1)
    BY <1>2
  <2> QED
    BY <1>1, <2>2, <2>3 DEF Reversals
<1> QED
  BY <1>3, <1>4

\* Without a descent everything from the first BLOCK on blocks.
LEMMA OnsetSplits ==
    ASSUME checkpoint_count \in Int, \A i \in Indices : cache[i] \in {"pass", "block"},
           Descents = {}, NEW first \in Indices, cache[first] = "block",
           \A i \in Indices : cache[i] = "block" => first <= i
    PROVE  \A i \in Indices : cache[i] = IF i < first THEN "pass" ELSE "block"
<1>1. \A i \in Indices : i \in Nat
  BY DEF Indices
<1>2. ASSUME NEW i \in Indices, first <= i, cache[i] = "pass" PROVE FALSE
  <2> DEFINE After == {j \in Indices : first <= j /\ cache[j] = "pass"}
  <2>1. After \subseteq Nat /\ After # {}
    BY <1>1, <1>2
  <2>2. PICK m \in After : \A j \in After : m <= j
    BY <2>1, LeastNatural
  <2>3. m # first /\ m \in Nat /\ first \in Nat
    BY <1>1, <2>2
  <2>4. m - 1 \in Indices /\ first <= m - 1 /\ (m - 1) + 1 = m
    BY <2>2, <2>3 DEF Indices
  <2>5. cache[m - 1] = "block"
    BY <1>1, <2>2, <2>3, <2>4
  <2>6. <<m - 1, (m - 1) + 1>> \in Descents
    BY <2>2, <2>4, <2>5 DEF Descents
  <2> QED
    BY <2>6
<1> QED
  BY <1>1, <1>2

LEMMA ExhaustiveConclusion ==
    ASSUME IInv, [Next]_vars, ExhaustiveAuditExact
    PROVE  ExhaustiveAuditExact'
<1>1. CASE pc' # "done"
  BY <1>1 DEF ExhaustiveAuditExact
<1>2. CASE pc = "done"
  <2>1. UNCHANGED <<arguments, cache, result>>
    BY <1>2 DEF Next, RejectArguments, Start, GetFirst, GetLast, FromEndpoints, Probe, FoundBoundary,
           PlanAudit, AuditNext, AuditConclude, vars, evaluator
  <2> QED
    BY <1>2, <2>1 DEF ExhaustiveAuditExact, Evaluated, Indices, arguments
<1>3. CASE pc' = "done" /\ AuditConclude
  <2>1. Indices' = Indices /\ cache' = cache /\ Evaluated' = Evaluated
    BY <1>3 DEF AuditConclude, evaluator, arguments, Indices, Evaluated
  <2>2. SUFFICES ASSUME result'.confidence = "exhaustive_audit" PROVE ExhaustiveAuditExact'
    BY DEF ExhaustiveAuditExact
  <2>3. /\ mode = "linear_audit" /\ pending = {} /\ Uncertain = {}
        /\ \/ /\ Reversals # {}
              /\ result'.outcome = "non_monotonic" /\ result'.non_monotonic_intervals = Reversals
           \/ /\ Reversals = {} /\ Blocking = {}
              /\ result'.outcome = "all_pass" /\ result'.non_monotonic_intervals = {}
           \/ /\ Reversals = {}
              /\ result'.outcome = "first_failing" /\ result'.non_monotonic_intervals = {}
              /\ result'.first_failing_index \in Blocking
              /\ \A i \in Blocking : result'.first_failing_index <= i
    BY <1>3, <2>2 DEF AuditConclude, AuditOnset, AuditConfidence, Return, Outcome
  <2>4. Evaluated = Indices
    BY <1>3, <2>3 DEF IInv, AuditCoverage, AuditConclude, Evaluated
  <2>5. /\ checkpoint_count \in Int
        /\ \A i \in Indices : cache[i] \in {"pass", "block"}
    BY <2>3, <2>4 DEF IInv, TypeOK, Uncertain, Evaluated, IsUncertain, BisectStatus
  <2>6. Reversals = Descents
    BY <2>5, ReversalsAreDescents
  <2>7. Descents' = Descents
    BY <2>1 DEF Descents
  <2>8. result'.non_monotonic_intervals = Descents'
    BY <2>3, <2>6, <2>7
  <2>9. result'.outcome = "all_pass" => \A i \in Indices : cache[i] = "pass"
    BY <2>3, <2>4, <2>5 DEF Blocking
  <2>10. result'.outcome = "first_failing" =>
             \A i \in Indices : cache[i] = IF i < result'.first_failing_index THEN "pass" ELSE "block"
    <3> SUFFICES ASSUME result'.outcome = "first_failing"
                 PROVE  \A i \in Indices :
                            cache[i] = IF i < result'.first_failing_index THEN "pass" ELSE "block"
      OBVIOUS
    <3> DEFINE first == result'.first_failing_index
    <3>1. Reversals = {} /\ first \in Blocking /\ \A i \in Blocking : first <= i
      BY <2>3
    <3> HIDE DEF first
    <3>2. first \in Indices /\ cache[first] = "block" /\ \A i \in Indices : cache[i] = "block" => first <= i
      BY <3>1, <2>4 DEF Blocking
    <3>3. Descents = {}
      BY <2>6, <3>1
    <3> QED
      BY <2>5, <3>2, <3>3, OnsetSplits DEF first
  <2> QED
    BY <2>1, <2>3, <2>4, <2>8, <2>9, <2>10 DEF ExhaustiveAuditExact, Descents
<1>4. CASE pc' = "done" /\ ~AuditConclude /\ pc # "done"
  <2>1. result'.confidence # "exhaustive_audit"
    BY <1>4 DEF Next, RejectArguments, Start, GetFirst, GetLast, FromEndpoints, EndpointsDecide, Probe,
           FoundBoundary, PlanAudit, AuditNext, vars, Return, Outcome
  <2> QED
    BY <2>1 DEF ExhaustiveAuditExact
<1> QED
  BY <1>1, <1>2, <1>3, <1>4

\* An exhaustive audit of any length reports what every checkpoint answered: the
\* onset splits the list, and its reversals are all descents there are.
THEOREM ExhaustiveIsExact == Spec => []ExhaustiveAuditExact
<1>1. Init => ExhaustiveAuditExact
  BY DEF Init, ExhaustiveAuditExact
<1>2. IInv /\ [Next]_vars /\ ExhaustiveAuditExact => ExhaustiveAuditExact'
  BY ExhaustiveConclusion
<1> QED BY <1>1, <1>2, Invariance, PTL DEF Spec

-----------------------------------------------------------------------------
(* How many checkpoints a monotonic search asks about *)

\* Each turn of the loop at least halves what is left between the two ends: with
\* every checkpoint asked about the bound on their distance is halved.
HalvedSoFar ==
    mode = "monotonic" /\ pc = "search" =>
        2 ^ Cardinality(Evaluated) * (upper_block - lower_pass - 1) <= 4 * (checkpoint_count - 2)

LogInv == HalvedSoFar /\ ProbesAreLogarithmic

\* One more element doubles the number of subsets: those without it, and those
\* with it.
LEMMA PowersDouble ==
    /\ 2 ^ 0 = 1
    /\ \A n \in Nat : 2 ^ n \in Nat /\ 2 ^ (n + 1) = 2 * 2 ^ n
<1>1. ASSUME NEW n \in Nat PROVE 2 ^ n \in Nat /\ 2 ^ (n + 1) = 2 * 2 ^ n
  <2> DEFINE S    == 1 .. n
             x    == n + 1
             With == {X \cup {x} : X \in SUBSET S}
             f    == [X \in SUBSET S |-> X \cup {x}]
  <2>1. /\ IsFiniteSet(S) /\ Cardinality(S) = n
        /\ x \notin S /\ S \cup {x} = 1 .. (n + 1)
        /\ IsFiniteSet(1 .. (n + 1)) /\ Cardinality(1 .. (n + 1)) = n + 1
    <3>1. /\ IsFiniteSet(1 .. n) /\ Cardinality(1 .. n) = IF 1 > n THEN 0 ELSE n - 1 + 1
          /\ IsFiniteSet(1 .. (n + 1))
          /\ Cardinality(1 .. (n + 1)) = IF 1 > n + 1 THEN 0 ELSE (n + 1) - 1 + 1
      BY FS_Interval
    <3>2. x \notin S /\ S \cup {x} = 1 .. (n + 1)
      OBVIOUS
    <3> QED
      BY <3>1, <3>2
  <2> HIDE DEF S, x
  <2>2. /\ IsFiniteSet(SUBSET S) /\ Cardinality(SUBSET S) = 2 ^ n
        /\ Cardinality(SUBSET (1 .. (n + 1))) = 2 ^ (n + 1)
    BY <2>1, FS_SUBSET
  <2>3. f \in Bijection(SUBSET S, With)
    <3>1. f \in [SUBSET S -> With]
      OBVIOUS
    <3>2. ASSUME NEW X \in SUBSET S, NEW Y \in SUBSET S, f[X] = f[Y] PROVE X = Y
      BY <2>1, <3>2
    <3>3. \A Y \in With : \E X \in SUBSET S : f[X] = Y
      OBVIOUS
    <3> HIDE DEF f, With
    <3> QED
      BY <3>1, <3>2, <3>3 DEF Bijection, Injection, Surjection, IsInjective
  <2>4. IsFiniteSet(With) /\ Cardinality(With) = 2 ^ n
    <3> HIDE DEF f, With
    <3> QED
      BY <2>2, <2>3, FS_Bijection DEF ExistsBijection
  <2>5. SUBSET (1 .. (n + 1)) = (SUBSET S) \cup With
    <3>1. ASSUME NEW Z \in SUBSET (S \cup {x}), x \in Z PROVE Z \in With
      <4>1. Z \ {x} \in SUBSET S /\ Z = (Z \ {x}) \cup {x}
        BY <3>1
      <4> QED
        BY <4>1
    <3>2. ASSUME NEW Z \in SUBSET (S \cup {x}), x \notin Z PROVE Z \in SUBSET S
      BY <3>2
    <3>3. \A Z \in With : Z \in SUBSET (S \cup {x})
      OBVIOUS
    <3> HIDE DEF With
    <3> QED
      BY <2>1, <3>1, <3>2, <3>3
  <2>6. (SUBSET S) \cap With = {}
    BY <2>1
  <2> HIDE DEF With
  <2>7. 2 ^ n \in Nat
    BY <2>2, FS_CardinalityType
  <2>8. Cardinality(SUBSET (1 .. (n + 1))) = 2 ^ n + 2 ^ n - 0
    BY <2>2, <2>4, <2>5, <2>6, FS_Union, FS_EmptySet
  <2> QED
    BY <2>2, <2>7, <2>8
<1>2. 2 ^ 0 = 1
  OBVIOUS
<1> QED
  BY <1>1, <1>2

\* The set of checkpoints asked about after each request.
LEMMA EvaluatedIsFinite == TypeOK => IsFiniteSet(Evaluated) /\ Cardinality(Evaluated) \in Nat
<1> SUFFICES ASSUME TypeOK PROVE IsFiniteSet(Evaluated) /\ Cardinality(Evaluated) \in Nat
  OBVIOUS
<1>1. IsFiniteSet(Indices)
  BY FS_Interval DEF TypeOK, Indices
<1>2. Evaluated \in SUBSET Indices
  BY DEF Evaluated
<1>3. IsFiniteSet(Evaluated)
  BY <1>1, <1>2, FS_Subset
<1> QED
  BY <1>3, FS_CardinalityType

LEMMA RequestAddsOne ==
    ASSUME TypeOK, NEW index, NEW reply \in Replies, Get(index, reply), UNCHANGED arguments
    PROVE  Evaluated' = Evaluated \cup {index}
<1>1. Unset \notin BisectStatus
  BY DEF Unset, BisectStatus
<1> QED
  BY <1>1, GetEffect DEF Evaluated

\* What the two endpoints leave.
LEMMA EndpointsAreTwo ==
    ASSUME IInv, checkpoint_count >= 2
    PROVE  /\ pc \in {"call", "rejected", "first"} => Cardinality(Evaluated) = 0
           /\ pc = "last" => Cardinality(Evaluated) = 1
           /\ pc = "endpoints" => Cardinality(Evaluated) = 2
<1>1. checkpoint_count \in Int /\ 0 \in Indices /\ checkpoint_count - 1 \in Indices
         /\ 0 # checkpoint_count - 1
  BY DEF IInv, TypeOK, Indices
<1>2. pc \in {"call", "rejected", "first"} => Evaluated = {}
  BY DEF IInv, Asked, Evaluated
<1>3. pc = "last" => Evaluated = {0}
  BY <1>1 DEF IInv, Asked, Evaluated
<1>4. pc = "endpoints" => Evaluated = {0} \cup {checkpoint_count - 1}
  BY <1>1 DEF IInv, Asked, Evaluated
<1>5. Cardinality({0} \cup {checkpoint_count - 1}) = 2
  <2>1. IsFiniteSet({0}) /\ Cardinality({0}) = 1
    BY FS_Singleton
  <2>2. checkpoint_count - 1 \notin {0}
    BY <1>1
  <2>3. Cardinality({0} \cup {checkpoint_count - 1}) =
            IF checkpoint_count - 1 \in {0} THEN Cardinality({0}) ELSE Cardinality({0}) + 1
    BY <2>1, FS_AddElement, Zenon
  <2> QED
    BY <2>1, <2>2, <2>3
<1> QED
  BY <1>2, <1>3, <1>4, <1>5, FS_EmptySet, FS_Singleton

\* A turn of the loop: the probe is new and either ends the search or leaves at
\* most half of the interval.
LEMMA ProbeHalves == IInv /\ LogInv /\ Probe => LogInv'
<1> SUFFICES ASSUME IInv, LogInv, Probe, mode = "monotonic" PROVE LogInv'
  BY DEF Probe, arguments, LogInv, HalvedSoFar, ProbesAreLogarithmic
<1> DEFINE k == Cardinality(Evaluated)
           w == upper_block - lower_pass
           N == checkpoint_count - 1
           mid == Midpoint
<1>1. /\ pc = "search" /\ w > 1 /\ N \in Nat /\ w \in Nat /\ N >= 1
      /\ lower_pass \in Int /\ upper_block \in Int
      /\ mode' = mode /\ checkpoint_count' = checkpoint_count
      /\ checkpoint_count \in Int
  BY DEF Probe, Halving, IInv, TypeOK, SearchInterval, arguments, Indices
<1>2. /\ mid \in Int /\ lower_pass < mid /\ mid < upper_block
      /\ 2 * (upper_block - mid - 1) <= w - 1 /\ 2 * (mid - lower_pass - 1) <= w - 1
  BY <1>1 DEF Midpoint
<1>3. PICK reply \in Replies : Get(mid, reply)
  BY DEF Probe
<1>4. mid \in Indices /\ cache[mid] = Unset
  BY <1>1, <1>2, <1>3 DEF IInv, SearchInterval, Get
<1>5. Evaluated' = Evaluated \cup {mid} /\ mid \notin Evaluated
  BY <1>3, <1>4, RequestAddsOne DEF IInv, Evaluated, Probe
<1>6. k \in Nat /\ Cardinality(Evaluated') = k + 1
  BY <1>5, EvaluatedIsFinite, FS_AddElement DEF IInv
<1>7. \/ pc' = "done"
      \/ pc' = "search" /\ lower_pass' = mid /\ upper_block' = upper_block
      \/ pc' = "search" /\ upper_block' = mid /\ lower_pass' = lower_pass
  BY <1>1 DEF Probe, Return
<1> DEFINE p == 2 ^ k
           v == upper_block' - lower_pass' - 1
<1>8. p \in Nat /\ 2 ^ (k + 1) = 2 * p
  BY <1>6, PowersDouble
<1>9. p * (w - 1) <= 4 * (N - 1)
  <2>1. N - 1 = checkpoint_count - 2
    BY <1>1
  <2>2. p * (w - 1) <= 4 * (checkpoint_count - 2)
    BY <1>1 DEF LogInv, HalvedSoFar
  <2> QED
    BY <2>1, <2>2
<1> HIDE DEF k, w, N, mid, p
<1>10. 2 * p < 8 * N
  <2>1. p * 1 <= p * (w - 1)
    BY <1>1, <1>8
  <2> QED
    BY <1>1, <1>8, <1>9, <2>1
<1>11. pc' = "search" => 2 * p * v <= 4 * (N - 1)
  <2> SUFFICES ASSUME pc' = "search" PROVE 2 * p * v <= 4 * (N - 1)
    OBVIOUS
  <2>1. v \in Int /\ 2 * v <= w - 1
    BY <1>1, <1>2, <1>7
  <2> HIDE DEF v
  <2>2. p * (2 * v) <= p * (w - 1)
    BY <1>1, <1>8, <2>1
  <2>3. p * (2 * v) = 2 * p * v
    BY <1>8, <2>1
  <2> QED
    BY <1>9, <2>2, <2>3, <1>1, <1>8, <2>1
<1>12. Cardinality(Evaluated)' = k + 1
  BY <1>6
<1>13. 2 ^ Cardinality(Evaluated)' = 2 * p
  BY <1>8, <1>12
<1>14. HalvedSoFar'
  <2> SUFFICES ASSUME pc' = "search"
               PROVE  2 ^ Cardinality(Evaluated)' * v <= 4 * (checkpoint_count - 2)
    BY <1>1 DEF HalvedSoFar
  <2>1. N - 1 = checkpoint_count - 2
    BY <1>1 DEF N
  <2> HIDE DEF v
  <2> QED
    BY <1>11, <1>13, <2>1
<1>15. ProbesAreLogarithmic'
  BY <1>1, <1>10, <1>13 DEF ProbesAreLogarithmic, N
<1> QED
  BY <1>14, <1>15 DEF LogInv

LEMMA QuietKeepsLog ==
    ASSUME LogInv, UNCHANGED <<arguments, cache>>,
           pc' # "search" \/ UNCHANGED <<pc, lower_pass, upper_block>>
    PROVE  LogInv'
<1>1. mode' = mode /\ checkpoint_count' = checkpoint_count
  BY DEF arguments
<1>2. Evaluated' = Evaluated
  BY <1>1 DEF Evaluated, Indices
<1> QED
  BY <1>1, <1>2 DEF LogInv, HalvedSoFar, ProbesAreLogarithmic

LEMMA EndpointRequestKeepsLog ==
    ASSUME IInv, pc \in {"first", "last"}, pc' # "search",
           NEW index, NEW reply \in Replies, Get(index, reply), UNCHANGED arguments
    PROVE  LogInv'
<1> SUFFICES ASSUME checkpoint_count >= 2
             PROVE  2 ^ Cardinality(Evaluated)' < 8 * (checkpoint_count - 1)
  BY DEF arguments, LogInv, HalvedSoFar, ProbesAreLogarithmic
<1>1. checkpoint_count \in Int /\ IsFiniteSet(Evaluated)
  BY EvaluatedIsFinite DEF IInv, TypeOK
<1>2. Cardinality(Evaluated) \in {0, 1}
  BY EndpointsAreTwo
<1>3. Evaluated' = Evaluated \cup {index}
  BY RequestAddsOne DEF IInv
<1>4. Cardinality(Evaluated') \in {0, 1, 2}
  BY <1>1, <1>2, <1>3, FS_AddElement
<1>5. ASSUME NEW c \in {0, 1, 2} PROVE 2 ^ c \in {1, 2, 4}
  <2>1. 2 ^ 0 = 1 /\ 2 ^ 1 = 2 /\ 2 ^ 2 = 4
    OBVIOUS
  <2> QED
    BY <2>1, Zenon
<1>6. 2 ^ Cardinality(Evaluated)' \in {1, 2, 4}
  BY <1>4, <1>5
<1> QED
  BY <1>1, <1>6

\* The search begins with both ends asked about.
LEMMA SearchBegins == IInv /\ LogInv /\ FromEndpoints => LogInv'
<1> SUFFICES ASSUME IInv, LogInv, FromEndpoints PROVE LogInv'
  OBVIOUS
<1>1. /\ pc = "endpoints" /\ UNCHANGED <<arguments, cache>>
      /\ mode' = mode /\ checkpoint_count' = checkpoint_count
      /\ pc' = "search" => lower_pass' = 0 /\ upper_block' = checkpoint_count - 1
                           /\ cache[0] # cache[checkpoint_count - 1]
  BY DEF FromEndpoints, EndpointsDecide, Return, arguments, evaluator
<1>2. CASE pc' # "search"
  BY <1>1, <1>2, QuietKeepsLog
<1>3. CASE pc' = "search"
  <2>1. checkpoint_count \in Int /\ checkpoint_count >= 2
    BY <1>1, <1>3 DEF IInv, TypeOK, ArgumentsChecked
  <2>2. Evaluated' = Evaluated
    BY <1>1 DEF Evaluated, Indices
  <2>3. Cardinality(Evaluated) = 2
    BY <1>1, <2>1, EndpointsAreTwo
  <2>4. 2 ^ Cardinality(Evaluated) = 4
    BY <2>3
  <2>5. 2 ^ Cardinality(Evaluated)' = 4
    BY <2>2, <2>4
  <2> QED
    BY <1>1, <1>3, <2>1, <2>5 DEF LogInv, HalvedSoFar, ProbesAreLogarithmic
<1> QED
  BY <1>2, <1>3

\* The documented O(log n), for every number of checkpoints, whatever the
\* callback answers (_monotonic_search).
THEOREM SearchIsLogarithmic == Spec => []ProbesAreLogarithmic
<1>1. Init => LogInv
  <2> SUFFICES ASSUME Init PROVE LogInv
    OBVIOUS
  <2>1. pc = "call" /\ Evaluated = {}
    BY DEF Init, Evaluated
  <2>2. checkpoint_count \in Int
    BY ArgumentTypes DEF Init
  <2>3. 2 ^ Cardinality(Evaluated) = 1
    BY <2>1, FS_EmptySet, PowersDouble
  <2> QED
    BY <2>1, <2>2, <2>3 DEF LogInv, HalvedSoFar, ProbesAreLogarithmic
<1>2. IInv /\ LogInv /\ [Next]_vars => LogInv'
  <2> SUFFICES ASSUME IInv, LogInv, [Next]_vars PROVE LogInv'
    OBVIOUS
  <2>1. CASE RejectArguments \/ Start \/ FoundBoundary \/ UNCHANGED vars
    BY <2>1, QuietKeepsLog
       DEF RejectArguments, Start, FoundBoundary, Return, vars, evaluator, search, arguments
  <2>2. CASE GetFirst \/ GetLast
    BY <2>2, EndpointRequestKeepsLog DEF GetFirst, GetLast
  <2>3. CASE FromEndpoints
    BY <2>3, SearchBegins
  <2>4. CASE Probe
    BY <2>4, ProbeHalves
  <2>5. CASE PlanAudit \/ AuditNext \/ AuditConclude
    <3>1. mode # "monotonic" /\ mode' = mode
      BY <2>5 DEF PlanAudit, AuditNext, AuditConclude, IInv, AuditCoverage, arguments
    <3> QED
      BY <3>1 DEF LogInv, HalvedSoFar, ProbesAreLogarithmic
  <2> QED
    BY <2>1, <2>2, <2>3, <2>4, <2>5 DEF Next
<1>3. LogInv => ProbesAreLogarithmic
  BY DEF LogInv
<1> QED
  BY <1>1, <1>2, <1>3, Invariance, PTL DEF Spec

-----------------------------------------------------------------------------
(* Every step brings the call nearer to its end *)

ListLength == IF checkpoint_count >= 1 THEN checkpoint_count ELSE 0

\* The steps that a call has left at most.
StepsLeft ==
    CASE pc = "call"                   -> ListLength + 5
      [] pc = "first"                  -> ListLength + 4
      [] pc = "last"                   -> ListLength + 3
      [] pc \in {"endpoints", "plan"}  -> ListLength + 2
      [] pc = "search"                 -> (upper_block - lower_pass) + 1
      [] pc = "audit"                  -> Cardinality(pending) + 1
      [] pc \in {"done", "rejected"}   -> 0

\* A schedule has at most as many entries as there are checkpoints.
LEMMA SchedulesAreShort ==
    ASSUME checkpoint_count \in Int, NEW S, S \subseteq Indices
    PROVE  ListLength \in Nat /\ IsFiniteSet(S) /\ Cardinality(S) \in 0..ListLength
<1>1. ListLength \in Nat
  BY DEF ListLength
<1>2. IsFiniteSet(Indices) /\ Cardinality(Indices) <= ListLength
  <2>1. /\ IsFiniteSet(0..(checkpoint_count - 1))
        /\ Cardinality(0..(checkpoint_count - 1)) =
               IF 0 > checkpoint_count - 1 THEN 0 ELSE (checkpoint_count - 1) - 0 + 1
    BY FS_Interval
  <2> QED
    BY <2>1 DEF Indices, ListLength
<1>3. IsFiniteSet(S) /\ Cardinality(S) <= Cardinality(Indices)
  BY <1>2, FS_Subset
<1>4. Cardinality(S) \in Nat /\ Cardinality(Indices) \in Nat
  BY <1>2, <1>3, FS_CardinalityType
<1> QED
  BY <1>1, <1>2, <1>3, <1>4

LEMMA StepsLeftType ==
    ASSUME IInv
    PROVE  StepsLeft \in 0..(ListLength + 5)
<1>1. ListLength \in Nat /\ checkpoint_count \in Int
  BY DEF IInv, TypeOK, ListLength
<1>2. IsFiniteSet(pending) /\ Cardinality(pending) \in 0..ListLength
  BY <1>1, SchedulesAreShort DEF IInv, TypeOK
<1>3. pc = "search" => (upper_block - lower_pass) + 1 \in 0..(ListLength + 5)
  BY <1>1 DEF IInv, SearchInterval, Indices, ListLength
<1>4. pc \in {"call", "rejected", "first", "last", "endpoints", "search", "plan", "audit", "done"}
  BY DEF IInv, TypeOK
<1> HIDE DEF ListLength
<1> QED
  BY <1>1, <1>2, <1>3, <1>4 DEF StepsLeft

LEMMA StepsLeftDecreases ==
    ASSUME IInv, Next
    PROVE  StepsLeft' < StepsLeft
<1>1. IInv'
  BY StepInvariant
<1>2. ListLength' = ListLength /\ Indices' = Indices
  <2>1. UNCHANGED arguments
    BY DEF Next, RejectArguments, Start, GetFirst, GetLast, FromEndpoints, Probe, FoundBoundary,
           PlanAudit, AuditNext, AuditConclude
  <2> QED
    BY <2>1 DEF ListLength, Indices, arguments
<1>3. ListLength \in Nat /\ IsFiniteSet(pending) /\ Cardinality(pending) \in 0..ListLength
  BY SchedulesAreShort DEF IInv, TypeOK
<1>4. Cardinality(pending') \in 0..ListLength
  BY <1>1, <1>2, SchedulesAreShort DEF IInv, TypeOK
<1>5. ASSUME pc' = "done", pc \in {"endpoints", "search", "audit"} PROVE StepsLeft' < StepsLeft
  <2>1. pc = "search" => upper_block - lower_pass \in Nat
    BY DEF IInv, SearchInterval, Indices, TypeOK
  <2> QED
    BY <1>3, <1>5, <2>1 DEF StepsLeft
<1>6. CASE RejectArguments \/ Start
  BY <1>2, <1>3, <1>6 DEF RejectArguments, Start, StepsLeft
<1>7. CASE GetFirst \/ GetLast
  BY <1>2, <1>3, <1>7 DEF GetFirst, GetLast, StepsLeft
<1>8. CASE FromEndpoints
  <2>1. CASE pc' = "search"
    <3>1. pc = "endpoints" /\ lower_pass' = 0 /\ upper_block' = checkpoint_count - 1
      BY <1>8, <2>1 DEF FromEndpoints, EndpointsDecide, Return
    <3>2. checkpoint_count \in Int /\ checkpoint_count >= 1
      BY <3>1 DEF IInv, TypeOK, ArgumentsChecked
    <3> QED
      BY <2>1, <3>1, <3>2 DEF StepsLeft, ListLength
  <2>2. CASE pc' = "done"
    BY <1>5, <1>8, <2>2 DEF FromEndpoints
  <2> QED
    BY <1>8, <2>1, <2>2 DEF FromEndpoints, EndpointsDecide, Return
<1>9. CASE Probe
  <2>1. lower_pass \in Int /\ upper_block \in Int /\ Halving /\ pc = "search"
    BY <1>9 DEF IInv, TypeOK, Probe
  <2>2. Midpoint \in Int /\ lower_pass < Midpoint /\ Midpoint < upper_block
    BY <2>1, MidpointInside
  <2>3. \/ pc' = "done"
        \/ pc' = pc /\ lower_pass' = Midpoint /\ upper_block' = upper_block
        \/ pc' = pc /\ upper_block' = Midpoint /\ lower_pass' = lower_pass
    BY <1>9 DEF Probe, Return
  <2>4. CASE pc' = "done"
    BY <1>5, <2>1, <2>4
  <2>5. CASE pc' # "done"
    BY <2>1, <2>2, <2>3, <2>5 DEF StepsLeft
  <2> QED
    BY <2>4, <2>5
<1>10. CASE FoundBoundary \/ AuditConclude
  <2>1. pc' = "done" /\ pc \in {"search", "audit"}
    BY <1>10 DEF FoundBoundary, AuditConclude, AuditOnset, Return
  <2> QED
    BY <1>5, <2>1
<1>11. CASE PlanAudit
  BY <1>2, <1>3, <1>4, <1>11 DEF PlanAudit, StepsLeft
<1>12. CASE AuditNext
  <2>1. PICK index \in pending : pending' = pending \ {index}
    BY <1>12 DEF AuditNext
  <2>2. Cardinality(pending') = Cardinality(pending) - 1
    BY <1>3, <2>1, FS_RemoveElement
  <2>3. pc = "audit" /\ pc' = "audit"
    BY <1>12 DEF AuditNext
  <2> QED
    BY <1>3, <2>2, <2>3 DEF StepsLeft
<1> QED
  BY <1>6, <1>7, <1>8, <1>9, <1>10, <1>11, <1>12 DEF Next

\* A call of bisect_regression cannot go on for ever: every step that it takes
\* leaves fewer to take, of at most five more than there are checkpoints.
THEOREM CallIsFinite ==
    Spec => [](StepsLeft \in 0..(ListLength + 5)) /\ [][StepsLeft' < StepsLeft]_vars
<1>1. IInv => StepsLeft \in 0..(ListLength + 5)
  BY StepsLeftType
<1>2. IInv /\ [Next]_vars => [StepsLeft' < StepsLeft]_vars
  BY StepsLeftDecreases
<1> QED
  BY <1>1, <1>2, Invariance, PTL DEF Spec
=============================================================================
