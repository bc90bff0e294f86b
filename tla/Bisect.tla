------------------------------- MODULE Bisect -------------------------------
(***************************************************************************)
(* Regression localisation over an ordered list of checkpoints             *)
(* (merriv/bisect/engine.py): one call of bisect_regression, from the      *)
(* validation of its arguments to the BisectResult.  Each request to the   *)
(* cached evaluator is one step, since the callback behind it may execute  *)
(* a model; what the callback answers is chosen at that step.              *)
(***************************************************************************)
EXTENDS Integers, Sequences, FiniteSets

CONSTANTS
    CheckpointCounts,    \* values of the argument checkpoint_count
    SparsePointCounts,   \* values of the argument sparse_points
    Modes                \* values of the argument mode

ASSUME ArgumentTypes ==
    /\ CheckpointCounts \subseteq Int
    /\ SparsePointCounts \subseteq Int
    /\ Modes \subseteq {"monotonic", "sparse_audit", "linear_audit"}

VARIABLES
    checkpoint_count, mode, sparse_points,   \* the arguments of the call
    pc,             \* where the call is
    cache,          \* _CachedEvaluator._cache: the status of each index
    requests,       \* _CachedEvaluator.requests
    lower_pass, upper_block,   \* the interval of the binary search
    pending,        \* indices of the audit schedule not requested yet
    result          \* the BisectResult

arguments == <<checkpoint_count, mode, sparse_points>>
evaluator == <<cache, requests>>
search == <<lower_pass, upper_block, pending>>
vars == <<arguments, pc, evaluator, search, result>>

-----------------------------------------------------------------------------
(* Values *)

BisectStatus == {"pass", "block", "warn", "error"}
BisectMode == {"monotonic", "sparse_audit", "linear_audit"}
BisectOutcome == {"all_pass", "first_failing", "regression_bounded",
                  "no_failure_observed", "non_monotonic", "inconclusive"}
BisectConfidence == {"assumed_monotonic", "sparse_audit", "exhaustive_audit", "none"}

Unset == "unset"
NoIndex == -1

\* What the callback may do: answer one of the four statuses, answer the gate's
\* INSUFFICIENT_POWER, answer anything else, or raise.
Replies == BisectStatus \cup {"insufficient_power", "unsupported", "raises"}

Indices == 0..checkpoint_count-1

Interval(low, high) == [lower_pass_index |-> low, upper_block_index |-> high]
NoInterval == Interval(NoIndex, NoIndex)

Outcome(outcome, first, interval, reversals, confidence, reason) ==
    [outcome |-> outcome, first_failing_index |-> first,
     confirmed_interval |-> interval, non_monotonic_intervals |-> reversals,
     confidence |-> confidence, reason |-> reason]

NoResult == Outcome("pending", NoIndex, NoInterval, {}, "none", "none")

-----------------------------------------------------------------------------
(* The cached evaluator *)

\* A callback that raises or answers an unsupported value is recorded as ERROR.
Normalize(reply) ==
    IF reply \in BisectStatus THEN reply
    ELSE IF reply = "insufficient_power" THEN "warn" ELSE "error"

\* Mutant: WARN counts as decisive.
IsUncertain_WarnIsDecisive(status) == status = "error"

IsUncertain(status) == status \in {"warn", "error"}

\* The status a request for index returns when the callback, if it is asked,
\* does reply.
Answer(index, reply) == IF cache[index] = Unset THEN Normalize(reply) ELSE cache[index]

Get(index, reply) ==
    /\ index \in Indices
    /\ cache' = [cache EXCEPT ![index] = Answer(index, reply)]
    /\ requests' = Append(requests, [index |-> index,
                                     status |-> Answer(index, reply),
                                     cache_hit |-> cache[index] # Unset])

Return(outcome, first, interval, reversals, confidence, reason) ==
    /\ result' = Outcome(outcome, first, interval, reversals, confidence, reason)
    /\ pc' = "done"

-----------------------------------------------------------------------------
(* The call *)

Init ==
    /\ checkpoint_count \in CheckpointCounts
    /\ mode \in Modes
    /\ sparse_points \in SparsePointCounts
    /\ pc = "call"
    /\ cache = [i \in Indices |-> Unset]
    /\ requests = <<>>
    /\ lower_pass = NoIndex
    /\ upper_block = NoIndex
    /\ pending = {}
    /\ result = NoResult

ValidArguments == checkpoint_count >= 1 /\ sparse_points >= 2

RejectArguments ==
    /\ pc = "call" /\ ~ValidArguments
    /\ pc' = "rejected"
    /\ UNCHANGED <<arguments, evaluator, search, result>>

Start ==
    /\ pc = "call" /\ ValidArguments
    /\ pc' = "first"
    /\ UNCHANGED <<arguments, evaluator, search, result>>

\* Both strategies request the two endpoints first.
GetFirst ==
    /\ pc = "first"
    /\ \E reply \in Replies : Get(0, reply)
    /\ pc' = "last"
    /\ UNCHANGED <<arguments, search, result>>

GetLast ==
    /\ pc = "last"
    /\ \E reply \in Replies : Get(checkpoint_count - 1, reply)
    /\ pc' = IF mode = "monotonic" THEN "endpoints" ELSE "plan"
    /\ UNCHANGED <<arguments, search, result>>

-----------------------------------------------------------------------------
(* Binary search: _monotonic_search *)

\* Every outcome the two endpoints decide by themselves.
EndpointsDecide ==
    LET first == cache[0]
        last == cache[checkpoint_count - 1]
    IN  \/ /\ IsUncertain(first) \/ IsUncertain(last)
           /\ Return("inconclusive", NoIndex, NoInterval, {}, "none", "uncertain")
        \/ /\ first = "block" /\ last = "pass"
           /\ Return("non_monotonic", NoIndex, NoInterval,
                     {<<0, checkpoint_count - 1>>}, "none", "reversal")
        \/ /\ first = "block" /\ last = "block"
           /\ Return("first_failing", 0, Interval(NoIndex, 0), {},
                     "assumed_monotonic", "onset")
        \/ /\ first = "pass" /\ last = "pass"
           /\ Return("all_pass", NoIndex, NoInterval, {}, "assumed_monotonic", "clean")

FromEndpoints ==
    /\ pc = "endpoints"
    /\ \/ EndpointsDecide /\ UNCHANGED <<lower_pass, upper_block>>
       \/ /\ cache[0] = "pass" /\ cache[checkpoint_count - 1] = "block"
          /\ lower_pass' = 0
          /\ upper_block' = checkpoint_count - 1
          /\ pc' = "search"
          /\ UNCHANGED result
    /\ UNCHANGED <<arguments, evaluator, pending>>

\* Mutant: the loop stops with one index unasked.
Halving_StopsEarly == upper_block - lower_pass > 2

\* The condition of the while loop.
Halving == upper_block - lower_pass > 1

\* Mutant: the interval is walked, not halved.
Midpoint_Walks == upper_block - 1

Midpoint == (lower_pass + upper_block) \div 2

\* One turn of the loop: the midpoint halves the interval or ends the search.
Probe ==
    /\ pc = "search" /\ Halving
    /\ \E reply \in Replies :
          /\ Get(Midpoint, reply)
          /\ \/ /\ IsUncertain(Answer(Midpoint, reply))
                /\ Return("inconclusive", NoIndex, Interval(lower_pass, upper_block), {},
                          "none", "uncertain")
                /\ UNCHANGED <<lower_pass, upper_block>>
             \/ /\ Answer(Midpoint, reply) = "pass"
                /\ lower_pass' = Midpoint
                /\ UNCHANGED <<upper_block, pc, result>>
             \/ /\ Answer(Midpoint, reply) = "block"
                /\ upper_block' = Midpoint
                /\ UNCHANGED <<lower_pass, pc, result>>
    /\ UNCHANGED <<arguments, pending>>

FoundBoundary ==
    /\ pc = "search" /\ ~Halving
    /\ Return("first_failing", upper_block, Interval(lower_pass, upper_block), {},
              "assumed_monotonic", "onset")
    /\ UNCHANGED <<arguments, evaluator, search>>

-----------------------------------------------------------------------------
(* Audits: _audit *)

PointCount == IF checkpoint_count < sparse_points THEN checkpoint_count ELSE sparse_points

\* Mutant: the points are spread over one index too many.
SparseIndices_OffByOne ==
    IF PointCount = 1
      THEN {0}
      ELSE {(point * checkpoint_count) \div (PointCount - 1) : point \in 0..PointCount-1}

SparseIndices ==
    IF PointCount = 1
      THEN {0}
      ELSE {(point * (checkpoint_count - 1)) \div (PointCount - 1) : point \in 0..PointCount-1}

PlanAudit ==
    /\ pc = "plan"
    /\ pending' = IF mode = "linear_audit" THEN Indices ELSE SparseIndices
    /\ pc' = "audit"
    /\ UNCHANGED <<arguments, evaluator, lower_pass, upper_block, result>>

\* The schedule is requested in increasing order.
AuditNext ==
    /\ pc = "audit"
    /\ \E index \in pending :
          /\ \A other \in pending : index <= other
          /\ \E reply \in Replies : Get(index, reply)
          /\ pending' = pending \ {index}
    /\ UNCHANGED <<arguments, pc, lower_pass, upper_block, result>>

Evaluated == {i \in Indices : cache[i] # Unset}
Uncertain == {i \in Evaluated : IsUncertain(cache[i])}
Blocking == {i \in Evaluated : cache[i] = "block"}
Passing == {i \in Evaluated : cache[i] = "pass"}

\* Mutant: every BLOCK before a PASS counts, not only neighbours.
Reversals_AllPairs == {pair \in Blocking \X Passing : pair[1] < pair[2]}

\* BLOCK followed by PASS with no decisive record between them.
Reversals ==
    {pair \in Blocking \X Passing :
        /\ pair[1] < pair[2]
        /\ \A i \in Blocking \cup Passing : ~(pair[1] < i /\ i < pair[2])}

AuditConfidence == IF mode = "linear_audit" THEN "exhaustive_audit" ELSE "sparse_audit"

\* low is the last passing index below first, NoIndex when there is none.
IsLastPassBelow(low, first) ==
    \/ /\ low \in Passing /\ low < first
       /\ \A i \in Passing : i < first => i <= low
    \/ low = NoIndex /\ \A i \in Passing : i >= first

AuditOnset ==
    \E first \in Blocking, low \in Passing \cup {NoIndex} :
        /\ \A i \in Blocking : first <= i
        /\ IsLastPassBelow(low, first)
        /\ IF mode = "linear_audit" \/ first = 0
             THEN Return("first_failing", first, Interval(low, first), {}, AuditConfidence,
                         IF mode = "linear_audit" THEN "onset" ELSE "onset_unknown")
             ELSE Return("regression_bounded", NoIndex, Interval(low, first), {},
                         AuditConfidence, "onset_unknown")

AuditConclude ==
    /\ pc = "audit" /\ pending = {}
    /\ \/ /\ Uncertain # {}
          /\ Return("inconclusive", NoIndex, NoInterval, {}, "none", "uncertain")
       \/ /\ Uncertain = {} /\ Reversals # {}
          /\ Return("non_monotonic", NoIndex, NoInterval, Reversals, AuditConfidence, "reversal")
       \/ /\ Uncertain = {} /\ Reversals = {} /\ Blocking = {}
          /\ Return(IF mode = "linear_audit" THEN "all_pass" ELSE "no_failure_observed",
                    NoIndex, NoInterval, {}, AuditConfidence, "clean")
       \/ /\ Uncertain = {} /\ Reversals = {}
          /\ AuditOnset
    /\ UNCHANGED <<arguments, evaluator, search>>

-----------------------------------------------------------------------------
Next ==
    \/ RejectArguments \/ Start \/ GetFirst \/ GetLast
    \/ FromEndpoints \/ Probe \/ FoundBoundary
    \/ PlanAudit \/ AuditNext \/ AuditConclude

Spec == Init /\ [][Next]_vars

\* The call runs on one thread and, as long as the callback returns or raises,
\* nothing in it waits.
FairSpec == Spec /\ WF_vars(Next)

-----------------------------------------------------------------------------
(* Properties *)

\* Type invariant.
TypeOK ==
    /\ checkpoint_count \in Int /\ sparse_points \in Int /\ mode \in BisectMode
    /\ pc \in {"call", "rejected", "first", "last", "endpoints", "search", "plan", "audit", "done"}
    /\ cache \in [Indices -> BisectStatus \cup {Unset}]
    /\ requests \in Seq([index : Indices, status : BisectStatus, cache_hit : BOOLEAN])
    /\ lower_pass \in Int /\ upper_block \in Int
    /\ pending \subseteq Indices
    /\ result.outcome \in BisectOutcome \cup {"pending"}
    /\ result.confidence \in BisectConfidence
    /\ result.first_failing_index \in Int

\* "WARN, INSUFFICIENT_POWER, ERROR, and callback exceptions are inconclusive
\* rather than silently coerced" (docs/architecture.md): a finished search is
\* inconclusive exactly when some checkpoint it asked about was uncertain, and
\* then it has no onset, no reversal and no confidence.
InconclusiveIffUncertain ==
    pc = "done" =>
        /\ (result.outcome = "inconclusive") <=> (\E i \in Indices : cache[i] \in {"warn", "error"})
        /\ result.outcome = "inconclusive" =>
              /\ result.first_failing_index = NoIndex
              /\ result.confidence = "none"
              /\ result.non_monotonic_intervals = {}

\* An exhaustive audit speaks of what every checkpoint really answered: with an
\* onset all earlier ones passed and it and all later ones blocked, with
\* all_pass none blocked, and its reversals are the descents from one
\* checkpoint to the next, all of them.
ExhaustiveAuditExact ==
    (pc = "done" /\ result.confidence = "exhaustive_audit") =>
        /\ Evaluated = Indices
        /\ result.outcome = "first_failing" =>
              \A i \in Indices : cache[i] = IF i < result.first_failing_index THEN "pass" ELSE "block"
        /\ result.outcome = "all_pass" => \A i \in Indices : cache[i] = "pass"
        /\ result.outcome \in {"first_failing", "all_pass", "non_monotonic"}
        /\ result.non_monotonic_intervals =
              {<<i, i + 1>> : i \in {j \in Indices : /\ j + 1 \in Indices
                                                     /\ cache[j] = "block"
                                                     /\ cache[j + 1] = "pass"}}

\* The documented O(log n): beside the endpoints, a monotonic search asks the
\* callback about no more checkpoints than the interval between them can be
\* halved.
ProbesAreLogarithmic ==
    mode = "monotonic" /\ checkpoint_count >= 2 =>
        2 ^ Cardinality(Evaluated) < 8 * (checkpoint_count - 1)

\* Every call ends, with a result or a rejection.
Terminates == <>(pc \in {"done", "rejected"})

-----------------------------------------------------------------------------
(* The promise of OnsetSearch, kept *)

\* The onsets k that agree with every decisive status observed so far.
PossibleOnsets ==
    {k \in 0..checkpoint_count :
        /\ \A i \in Blocking : k <= i
        /\ \A i \in Passing : i < k}

\* The claim of OnsetSearch that each outcome stands for.
ClaimKind == [pending |-> "searching", inconclusive |-> "unknown",
              all_pass |-> "no_onset", non_monotonic |-> "reversal",
              first_failing |-> "onset", regression_bounded |-> "bounded",
              no_failure_observed |-> "sampled_clean"]

ResultClaim ==
    [kind |-> ClaimKind[result.outcome],
     low |-> IF result.outcome = "regression_bounded"
               THEN result.confirmed_interval.lower_pass_index
               ELSE result.first_failing_index,
     high |-> IF result.outcome = "regression_bounded"
               THEN result.confirmed_interval.upper_block_index
               ELSE result.first_failing_index]

Promise == INSTANCE OnsetSearch
    WITH count <- checkpoint_count, possible <- PossibleOnsets, claim <- ResultClaim

\* Each strategy implements OnsetSearch: an observation only rules onsets out,
\* and what the result claims is what the onsets still possible justify.
KeepsPromise == Promise!Spec

-----------------------------------------------------------------------------
\* What the reason of a result says of it (engine.py, reason strings): a reason
\* that says the exact onset remains unknown comes with no onset.
UnknownOnsetHasNoIndex ==
    result.reason = "onset_unknown" => result.first_failing_index = NoIndex
=============================================================================
