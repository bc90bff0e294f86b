-------------------------- MODULE BisectCommandProofs --------------------------
(***************************************************************************)
(* Proofs about the three programs around the search, for lists of every   *)
(* length: merriv bisect, merriv bisect-run and the scripts that judge a   *)
(* sequence of builds.  All of them rest on one more invariant of the      *)
(* search itself: what a result says was seen.                             *)
(***************************************************************************)
EXTENDS BisectProofs, BisectCommand, ExecutedBisect, BuildSequence

-----------------------------------------------------------------------------
(* What a result rests on *)

Saw(status) == \E i \in Indices : cache[i] = status

\* An outcome that fails a release saw a BLOCK; a clean one saw the last
\* checkpoint pass and none block.
OutcomeIsSeen ==
    /\ result.outcome \in {"first_failing", "regression_bounded"} => Saw("block")
    /\ result.outcome = "non_monotonic" =>
          \E i, j \in Indices : i < j /\ cache[i] = "block" /\ cache[j] = "pass"
    /\ result.outcome \in {"all_pass", "no_failure_observed"} =>
          cache[checkpoint_count - 1] = "pass" /\ ~Saw("block")

\* An onset was seen to block, and the checkpoint before it to pass.
OnsetIsSeen ==
    LET first == result.first_failing_index
    IN  /\ (first # NoIndex) <=> (result.outcome = "first_failing")
        /\ first # NoIndex => /\ first \in Indices /\ cache[first] = "block"
                              /\ first > 0 => cache[first - 1] = "pass"

\* What the two extreme modes promise beside that.
ModeIsKept ==
    /\ mode = "monotonic" => result.outcome \notin {"regression_bounded", "no_failure_observed"}
    /\ mode = "linear_audit" =>
          /\ \A i \in Indices : cache[i] # Unset
          /\ result.outcome = "inconclusive" \/ result.confidence = "exhaustive_audit"
          /\ result.outcome \notin {"regression_bounded", "no_failure_observed"}

ResultRests == pc = "done" => OutcomeIsSeen /\ OnsetIsSeen /\ ModeIsKept

\* The mode a conclusion is drawn in.
ModeMatchesPhase ==
    /\ pc \in {"endpoints", "search"} => mode = "monotonic"
    /\ mode \in BisectMode

\* The invariant of the search that the programs use.
SearchInv == IInv /\ InconclusiveIffUncertain /\ ExhaustiveAuditExact
                  /\ ModeMatchesPhase /\ ResultRests

LEMMA ModeStep == ModeMatchesPhase /\ IInv /\ [Next]_vars => ModeMatchesPhase'
<1> SUFFICES ASSUME ModeMatchesPhase, IInv, [Next]_vars PROVE ModeMatchesPhase'
  OBVIOUS
<1> USE DEF ModeMatchesPhase, arguments
<1>1. CASE RejectArguments \/ Start \/ PlanAudit
  BY <1>1 DEF RejectArguments, Start, PlanAudit
<1>2. CASE GetFirst \/ GetLast \/ AuditNext
  BY <1>2 DEF GetFirst, GetLast, AuditNext
<1>3. CASE FromEndpoints \/ FoundBoundary \/ AuditConclude
  BY <1>3 DEF FromEndpoints, FoundBoundary, AuditConclude, AuditOnset, Return
<1>4. CASE Probe
  BY <1>4 DEF Probe
<1>5. CASE UNCHANGED vars
  BY <1>5 DEF vars
<1> QED BY <1>1, <1>2, <1>3, <1>4, <1>5 DEF Next

\* The step that ends a call, and what it returns.
LEMMA EndpointsRest ==
    ASSUME IInv, ModeMatchesPhase, FromEndpoints, pc' = "done"
    PROVE  ResultRests'
<1> DEFINE n == checkpoint_count
<1>1. /\ pc = "endpoints" /\ EndpointsDecide /\ mode = "monotonic"
      /\ UNCHANGED <<arguments, evaluator>>
  BY DEF FromEndpoints, ModeMatchesPhase
<1>2. /\ n \in Int /\ n >= 1 /\ 0 \in Indices /\ n - 1 \in Indices /\ Indices' = Indices
      /\ cache' = cache /\ mode' = mode /\ checkpoint_count' = n
      /\ \A i \in Indices : (i # 0 /\ i # n - 1) => cache[i] = Unset
  BY <1>1 DEF IInv, TypeOK, ArgumentsChecked, Asked, Indices, arguments, evaluator
<1>3. CASE result' = Outcome("inconclusive", NoIndex, NoInterval, {}, "none", "uncertain")
  BY <1>1, <1>2, <1>3 DEF ResultRests, OutcomeIsSeen, OnsetIsSeen, ModeIsKept, Outcome, NoIndex
<1>4. CASE /\ cache[0] = "block" /\ cache[n - 1] = "pass"
           /\ result' = Outcome("non_monotonic", NoIndex, NoInterval, {<<0, n - 1>>},
                                "none", "reversal")
  <2>1. 0 < n - 1
    BY <1>2, <1>4
  <2> QED BY <1>1, <1>2, <1>4, <2>1
             DEF ResultRests, OutcomeIsSeen, OnsetIsSeen, ModeIsKept, Outcome, NoIndex
<1>5. CASE /\ cache[0] = "block"
           /\ result' = Outcome("first_failing", 0, Interval(NoIndex, 0), {},
                                "assumed_monotonic", "onset")
  BY <1>1, <1>2, <1>5 DEF ResultRests, OutcomeIsSeen, OnsetIsSeen, ModeIsKept, Outcome, NoIndex,
                         Saw
<1>6. CASE /\ cache[0] = "pass" /\ cache[n - 1] = "pass"
           /\ result' = Outcome("all_pass", NoIndex, NoInterval, {}, "assumed_monotonic", "clean")
  <2>1. \A i \in Indices : cache[i] # "block"
    BY <1>2, <1>6 DEF Unset
  <2> QED BY <1>1, <1>2, <1>6, <2>1
             DEF ResultRests, OutcomeIsSeen, OnsetIsSeen, ModeIsKept, Outcome, NoIndex, Saw
<1> QED BY <1>1, <1>3, <1>4, <1>5, <1>6 DEF EndpointsDecide, Return

LEMMA ProbeRests ==
    ASSUME IInv, ModeMatchesPhase, Probe, pc' = "done"
    PROVE  ResultRests'
<1>1. PICK interval : result' = Outcome("inconclusive", NoIndex, interval, {}, "none", "uncertain")
  BY DEF Probe, Return
<1>2. mode' = "monotonic"
  BY DEF Probe, ModeMatchesPhase, arguments
<1> QED BY <1>1, <1>2 DEF ResultRests, OutcomeIsSeen, OnsetIsSeen, ModeIsKept, Outcome, NoIndex

LEMMA BoundaryRests ==
    ASSUME IInv, ModeMatchesPhase, FoundBoundary
    PROVE  ResultRests'
<1>1. /\ UNCHANGED <<arguments, evaluator>> /\ mode = "monotonic" /\ pc = "search"
      /\ result' = Outcome("first_failing", upper_block, Interval(lower_pass, upper_block), {},
                           "assumed_monotonic", "onset")
  BY DEF FoundBoundary, Return, ModeMatchesPhase
<1>2. /\ Indices' = Indices /\ cache' = cache /\ mode' = mode
      /\ \A i \in Indices : i \in Int /\ 0 <= i
  BY <1>1 DEF Indices, arguments, evaluator, IInv, TypeOK
<1>3. /\ lower_pass \in Indices /\ upper_block \in Indices
      /\ cache[lower_pass] = "pass" /\ cache[upper_block] = "block"
      /\ lower_pass < upper_block /\ ~(upper_block - lower_pass > 1)
  BY <1>1 DEF IInv, SearchInterval, FoundBoundary, Halving
<1>4. upper_block - 1 = lower_pass /\ upper_block # NoIndex
  BY <1>2, <1>3 DEF NoIndex
<1> QED BY <1>1, <1>2, <1>3, <1>4
           DEF ResultRests, OutcomeIsSeen, OnsetIsSeen, ModeIsKept, Outcome, Saw

LEMMA AuditRests ==
    ASSUME IInv, AuditConclude
    PROVE  ResultRests'
<1> DEFINE n == checkpoint_count
<1>1. /\ n \in Int /\ n >= 1 /\ UNCHANGED <<arguments, evaluator>>
      /\ mode # "monotonic" /\ cache[n - 1] # Unset
      /\ mode = "linear_audit" => \A i \in Indices : cache[i] # Unset
  BY DEF IInv, TypeOK, ArgumentsChecked, Asked, AuditCoverage, AuditConclude
<1>2. /\ Indices' = Indices /\ cache' = cache /\ mode' = mode /\ checkpoint_count' = n
      /\ n - 1 \in Indices /\ \A i \in Indices : i \in Int /\ 0 <= i
      /\ \A i \in Indices : cache[i] \in BisectStatus \cup {Unset}
  BY <1>1 DEF IInv, TypeOK, Indices, arguments, evaluator
<1>3. /\ Blocking = {i \in Indices : cache[i] = "block"} /\ Passing = {i \in Indices : cache[i] = "pass"}
      /\ Uncertain = {} => \A i \in Indices : cache[i] \in {"pass", "block", Unset}
  BY <1>2 DEF Blocking, Passing, Uncertain, Evaluated, IsUncertain, BisectStatus, Unset
<1>4. CASE result' = Outcome("inconclusive", NoIndex, NoInterval, {}, "none", "uncertain")
  BY <1>1, <1>2, <1>4 DEF ResultRests, OutcomeIsSeen, OnsetIsSeen, ModeIsKept, Outcome, NoIndex
<1>5. CASE /\ Reversals # {}
           /\ result' = Outcome("non_monotonic", NoIndex, NoInterval, Reversals, AuditConfidence,
                                "reversal")
  <2>1. \E i, j \in Indices : i < j /\ cache[i] = "block" /\ cache[j] = "pass"
    BY <1>3, <1>5 DEF Reversals
  <2> QED BY <1>1, <1>2, <1>5, <2>1 DEF ResultRests, OutcomeIsSeen, OnsetIsSeen, ModeIsKept,
                                        Outcome, NoIndex, AuditConfidence
<1>6. CASE /\ Uncertain = {} /\ Blocking = {}
           /\ result' = Outcome(IF mode = "linear_audit" THEN "all_pass" ELSE "no_failure_observed",
                                NoIndex, NoInterval, {}, AuditConfidence, "clean")
  <2>1. cache[n - 1] = "pass" /\ ~Saw("block")
    BY <1>1, <1>2, <1>3, <1>6 DEF Saw
  <2>2. (cache[n - 1] = "pass" /\ ~Saw("block"))'
    BY <1>2, <2>1 DEF Saw
  <2> QED BY <1>1, <1>2, <1>6, <2>2 DEF ResultRests, OutcomeIsSeen, OnsetIsSeen, ModeIsKept,
                                        Outcome, NoIndex, AuditConfidence
<1>7. CASE Uncertain = {} /\ AuditOnset
  <2>1. PICK first \in Blocking, low \in Passing \cup {NoIndex} :
          /\ \A i \in Blocking : first <= i
          /\ IF mode = "linear_audit" \/ first = 0
               THEN Return("first_failing", first, Interval(low, first), {}, AuditConfidence,
                           IF mode = "linear_audit" THEN "onset" ELSE "onset_unknown")
               ELSE Return("regression_bounded", NoIndex, Interval(low, first), {},
                           AuditConfidence, "onset_unknown")
    BY <1>7 DEF AuditOnset
  <2>2. first \in Indices /\ first # NoIndex /\ cache[first] = "block"
    BY <1>2, <1>3, <2>1 DEF NoIndex
  <2>3. mode = "linear_audit" /\ first > 0 => cache[first - 1] = "pass"
    <3> SUFFICES ASSUME mode = "linear_audit", first > 0 PROVE cache[first - 1] = "pass"
      OBVIOUS
    <3>1. first - 1 \in Indices /\ first - 1 \notin Blocking
      BY <1>1, <1>2, <2>1, <2>2 DEF Indices
    <3> QED BY <1>1, <1>3, <1>7, <3>1
  <2>4. CASE mode = "linear_audit" \/ first = 0
    <3>1. /\ result'.outcome = "first_failing" /\ result'.first_failing_index = first
          /\ result'.confidence = AuditConfidence
      BY <2>1, <2>4 DEF Return, Outcome
    <3> QED BY <1>1, <1>2, <2>2, <2>3, <2>4, <3>1
               DEF ResultRests, OutcomeIsSeen, OnsetIsSeen, ModeIsKept, AuditConfidence, Saw
  <2>5. CASE ~(mode = "linear_audit" \/ first = 0)
    <3>1. /\ result'.outcome = "regression_bounded" /\ result'.first_failing_index = NoIndex
      BY <2>1, <2>5 DEF Return, Outcome
    <3> QED BY <1>1, <1>2, <2>2, <2>5, <3>1
               DEF ResultRests, OutcomeIsSeen, OnsetIsSeen, ModeIsKept, Saw
  <2> QED BY <2>4, <2>5
<1> QED BY <1>4, <1>5, <1>6, <1>7 DEF AuditConclude, Return

LEMMA ResultRestsStep == SearchInv /\ [Next]_vars => ResultRests'
<1> SUFFICES ASSUME SearchInv, [Next]_vars PROVE ResultRests'
  OBVIOUS
<1>1. CASE pc' # "done"
  BY <1>1 DEF ResultRests
<1>2. CASE pc = "done"
  <2>1. UNCHANGED <<arguments, pc, cache, result>>
    BY <1>2 DEF Next, RejectArguments, Start, GetFirst, GetLast, FromEndpoints, Probe,
           FoundBoundary, PlanAudit, AuditNext, AuditConclude, vars, evaluator
  <2> QED BY <1>2, <2>1 DEF SearchInv, ResultRests, OutcomeIsSeen, OnsetIsSeen, ModeIsKept, Saw,
                           Indices, arguments
<1>3. CASE pc' = "done" /\ pc # "done"
  <2>1. FromEndpoints \/ Probe \/ FoundBoundary \/ AuditConclude
    BY <1>3 DEF Next, RejectArguments, Start, GetFirst, GetLast, PlanAudit, AuditNext, vars
  <2> QED BY <1>3, <2>1, EndpointsRest, ProbeRests, BoundaryRests, AuditRests DEF SearchInv
<1> QED BY <1>1, <1>2, <1>3

LEMMA SearchInvInit == Init => SearchInv
<1> SUFFICES ASSUME Init PROVE SearchInv
  OBVIOUS
<1>1. IInv
  BY InitInvariant
<1>2. InconclusiveIffUncertain /\ ExhaustiveAuditExact /\ ModeMatchesPhase /\ ResultRests
  BY ArgumentTypes DEF Init, InconclusiveIffUncertain, ExhaustiveAuditExact, ModeMatchesPhase,
                       ResultRests, BisectMode
<1> QED BY <1>1, <1>2 DEF SearchInv

LEMMA SearchInvStep == SearchInv /\ [Next]_vars => SearchInv'
<1> SUFFICES ASSUME SearchInv, [Next]_vars PROVE SearchInv'
  OBVIOUS
<1>1. IInv'
  BY StepInvariant DEF SearchInv
<1>2. InconclusiveIffUncertain' /\ ExhaustiveAuditExact'
  BY UncertaintySurfaces, ExhaustiveConclusion DEF SearchInv
<1>3. ModeMatchesPhase' /\ ResultRests'
  BY ModeStep, ResultRestsStep DEF SearchInv
<1> QED BY <1>1, <1>2, <1>3 DEF SearchInv

\* No step of the search changes the arguments.
LEMMA ArgumentsStay == [Next]_vars => UNCHANGED arguments
BY DEF Next, vars, RejectArguments, Start, GetFirst, GetLast, FromEndpoints, Probe, FoundBoundary,
       PlanAudit, AuditNext, AuditConclude

-----------------------------------------------------------------------------
(* merriv bisect *)

\* The search is told the rows of the manifest, in the mode they call for.
RowsAreTold ==
    /\ rows \in [Indices -> BisectStatus]
    /\ mode = EffectiveMode
    /\ \A i \in Indices : cache[i] # Unset => cache[i] = rows[i]

\* The process exits once, with the verdict of the result.
ExitsWithResult ==
    command_exit # StillRunning =>
        /\ pc \in {"done", "rejected"}
        /\ pc = "done" => command_exit = CommandExit

CommandInv == SearchInv /\ RowsAreTold /\ ExitsWithResult

LEMMA CommandInvInit == CommandInit => CommandInv
<1> SUFFICES ASSUME CommandInit PROVE CommandInv
  OBVIOUS
<1>1. SearchInv
  BY SearchInvInit DEF CommandInit
<1>2. RowsAreTold /\ ExitsWithResult
  BY DEF CommandInit, Init, RowsAreTold, ExitsWithResult
<1> QED BY <1>1, <1>2 DEF CommandInv

LEMMA EffectiveModeStays ==
    ASSUME UNCHANGED <<arguments, rows, requested_mode>>
    PROVE  EffectiveMode' = EffectiveMode /\ Indices' = Indices
BY DEF EffectiveMode, HasUncertain, HasReversal, Indices, arguments

LEMMA CommandInvStep == CommandInv /\ [CommandNext]_judgedVars => CommandInv'
<1> SUFFICES ASSUME CommandInv, [CommandNext]_judgedVars PROVE CommandInv'
  OBVIOUS
<1> USE DEF CommandInv
<1>1. [Next]_vars /\ UNCHANGED <<rows, requested_mode>>
  BY DEF CommandNext, SearchStep, ExitOnError, PrintAndExit, judgedVars, commandVars
<1>2. SearchInv' /\ UNCHANGED arguments
  BY <1>1, SearchInvStep, ArgumentsStay
<1>3. EffectiveMode' = EffectiveMode /\ Indices' = Indices /\ mode' = mode /\ rows' = rows
  BY <1>1, <1>2, EffectiveModeStays DEF arguments
<1>4. \A i \in Indices : cache'[i] # cache[i] => cache'[i] = rows[i]
  BY DEF CommandNext, SearchStep, ExitOnError, PrintAndExit, judgedVars, vars, evaluator
<1>5. RowsAreTold'
  BY <1>3, <1>4 DEF RowsAreTold
<1>6. ExitsWithResult'
  <2>1. CASE SearchStep
    <3>1. command_exit' = command_exit
      BY <2>1 DEF SearchStep, commandVars
    <3>2. pc \notin {"done", "rejected"}
      BY <2>1 DEF SearchStep, Next, RejectArguments, Start, GetFirst, GetLast, FromEndpoints, Probe,
             FoundBoundary, PlanAudit, AuditNext, AuditConclude
    <3> QED BY <3>1, <3>2 DEF ExitsWithResult
  <2>2. CASE ExitOnError
    BY <2>2 DEF ExitOnError, ExitsWithResult, vars
  <2>3. CASE PrintAndExit
    BY <2>3 DEF PrintAndExit, ExitsWithResult, vars, CommandExit
  <2>4. CASE UNCHANGED judgedVars
    BY <2>4 DEF judgedVars, vars, commandVars, ExitsWithResult, CommandExit
  <2> QED BY <2>1, <2>2, <2>3, <2>4 DEF CommandNext
<1> QED BY <1>2, <1>5, <1>6

\* A manifest that is searched with fewer than all its rows has neither an
\* uncertain row nor a reversal.
LEMMA SampledRowsAreMonotone ==
    ASSUME CommandInv, mode # "linear_audit"
    PROVE  /\ \A i \in Indices : rows[i] \in {"pass", "block"}
           /\ \A i, j \in Indices : i < j /\ rows[i] = "block" => rows[j] = "block"
<1>1. ~HasUncertain /\ ~HasReversal
  BY DEF CommandInv, RowsAreTold, EffectiveMode
<1>2. \A i \in Indices : rows[i] \in {"pass", "block"}
  BY <1>1 DEF CommandInv, RowsAreTold, HasUncertain, BisectStatus
<1> QED BY <1>1, <1>2 DEF HasReversal

\* What was seen is enough to know every row.
LEMMA ExitIsVerdict ==
    ASSUME CommandInv, pc = "done"
    PROVE  CommandExit = IF HasUncertain THEN 3
                         ELSE IF \A i \in Indices : rows[i] = "pass" THEN 0 ELSE 2
<1>1. /\ OutcomeIsSeen /\ ModeIsKept /\ InconclusiveIffUncertain
      /\ result.outcome \in BisectOutcome
      /\ \A i \in Indices : cache[i] # Unset => cache[i] = rows[i]
      /\ rows \in [Indices -> BisectStatus]
      /\ checkpoint_count \in Int /\ checkpoint_count >= 1
  BY DEF CommandInv, SearchInv, ResultRests, RowsAreTold, IInv, ResultIffDone, TypeOK, ArgumentsChecked
<1>2. checkpoint_count - 1 \in Indices /\ \A i \in Indices : i \in Int /\ i <= checkpoint_count - 1
  BY <1>1 DEF Indices
<1>3. HasUncertain <=> result.outcome = "inconclusive"
  <2>1. result.outcome = "inconclusive" <=> \E i \in Indices : cache[i] \in {"warn", "error"}
    BY <1>1 DEF InconclusiveIffUncertain
  <2>2. CASE mode = "linear_audit"
    BY <1>1, <2>1, <2>2 DEF ModeIsKept, HasUncertain
  <2>3. CASE mode # "linear_audit"
    <3>1. ~HasUncertain
      BY <2>3, SampledRowsAreMonotone DEF HasUncertain
    <3> QED BY <1>1, <2>1, <3>1 DEF HasUncertain, Unset
  <2> QED BY <2>2, <2>3
<1>4. CASE result.outcome = "inconclusive"
  BY <1>3, <1>4 DEF CommandExit
<1>5. CASE result.outcome \in {"first_failing", "regression_bounded", "non_monotonic"}
  <2>1. \E i \in Indices : rows[i] = "block"
    BY <1>1, <1>5 DEF OutcomeIsSeen, Saw, Unset
  <2>2. CommandExit = 2
    BY <1>5 DEF CommandExit
  <2> QED BY <1>3, <1>5, <2>1, <2>2
<1>6. CASE result.outcome \in {"all_pass", "no_failure_observed"}
  <2>1. cache[checkpoint_count - 1] = "pass" /\ \A i \in Indices : cache[i] # "block"
    BY <1>1, <1>6 DEF OutcomeIsSeen, Saw
  <2>2. rows[checkpoint_count - 1] = "pass"
    BY <1>1, <1>2, <2>1 DEF Unset
  <2>3. \A i \in Indices : rows[i] = "pass"
    <3>1. CASE mode = "linear_audit"
      <4>1. \A i \in Indices : cache[i] = rows[i]
        BY <1>1, <3>1 DEF ModeIsKept
      <4> QED BY <1>1, <1>3, <1>6, <2>1, <4>1 DEF HasUncertain, BisectStatus
    <3>2. CASE mode # "linear_audit"
      <4>1. /\ \A i \in Indices : rows[i] \in {"pass", "block"}
            /\ \A i \in Indices : i < checkpoint_count - 1 /\ rows[i] = "block"
                                    => rows[checkpoint_count - 1] = "block"
        BY <1>2, <3>2, SampledRowsAreMonotone
      <4> QED BY <1>1, <1>2, <2>2, <4>1
    <3> QED BY <3>1, <3>2
  <2>4. CommandExit = 0
    BY <1>6 DEF CommandExit
  <2> QED BY <1>3, <1>6, <2>3, <2>4
<1> QED BY <1>1, <1>4, <1>5, <1>6 DEF BisectOutcome

LEMMA OnsetIsManifests ==
    ASSUME CommandInv, pc = "done", result.first_failing_index # NoIndex
    PROVE  \A i \in Indices : rows[i] = IF i < result.first_failing_index THEN "pass" ELSE "block"
<1> DEFINE first == result.first_failing_index
<1>1. /\ OnsetIsSeen /\ ModeIsKept /\ ExhaustiveAuditExact
      /\ \A i \in Indices : cache[i] # Unset => cache[i] = rows[i]
      /\ checkpoint_count \in Int
  BY DEF CommandInv, SearchInv, ResultRests, RowsAreTold, IInv, TypeOK
<1>2. /\ first \in Indices /\ result.outcome = "first_failing" /\ cache[first] = "block"
      /\ first > 0 => cache[first - 1] = "pass"
      /\ \A i \in Indices : i \in Int /\ 0 <= i /\ i < checkpoint_count
  BY <1>1 DEF OnsetIsSeen, Indices
<1>3. CASE mode = "linear_audit"
  <2>1. /\ result.confidence = "exhaustive_audit"
        /\ \A i \in Indices : cache[i] = rows[i]
    BY <1>1, <1>2, <1>3 DEF ModeIsKept
  <2> QED BY <1>1, <1>2, <2>1 DEF ExhaustiveAuditExact
<1>4. CASE mode # "linear_audit"
  <2>1. /\ \A i \in Indices : rows[i] \in {"pass", "block"}
        /\ \A i, j \in Indices : i < j /\ rows[i] = "block" => rows[j] = "block"
    BY <1>4, SampledRowsAreMonotone
  <2>2. rows[first] = "block"
    BY <1>1, <1>2 DEF Unset
  <2>3. ASSUME NEW i \in Indices, i < first PROVE rows[i] = "pass"
    <3>1. first - 1 \in Indices /\ first > 0
      BY <1>1, <1>2, <2>3 DEF Indices
    <3>2. rows[first - 1] = "pass"
      BY <1>1, <1>2, <3>1 DEF Unset
    <3>3. i < first - 1 \/ i = first - 1
      BY <1>2, <2>3
    <3> QED BY <2>1, <3>1, <3>2, <3>3
  <2>4. ASSUME NEW i \in Indices, ~(i < first) PROVE rows[i] = "block"
    <3>1. first < i \/ first = i
      BY <1>2, <2>4
    <3> QED BY <1>2, <2>1, <2>2, <3>1
  <2> QED BY <2>3, <2>4
<1> QED BY <1>3, <1>4

\* The invariant of the command: the search is told the manifest's rows, and the
\* process exits with what it concluded.
THEOREM CommandInvariance == CommandSpec => []CommandInv
<1>1. CommandInit => CommandInv
  BY CommandInvInit
<1>2. CommandInv /\ [CommandNext]_judgedVars => CommandInv'
  BY CommandInvStep
<1> QED BY <1>1, <1>2, PTL DEF CommandSpec

\* A search that asks for a few rows exits with a verdict on all of them, for a
\* manifest of any length: the command falls back to the audit of every row
\* whenever the rows could deceive a sampling search.
THEOREM ExitIsAVerdict == CommandSpec => []ExitCodeJudgesEveryRow
<1>1. CommandInv => ExitCodeJudgesEveryRow
  BY ExitIsVerdict DEF CommandInv, ExitsWithResult, ExitCodeJudgesEveryRow
<1> QED BY <1>1, CommandInvariance, PTL

\* A published onset is the onset of the whole manifest.
THEOREM OnsetIsPublished == CommandSpec => []PublishedOnsetIsReal
<1>1. CommandInv => PublishedOnsetIsReal
  <2> SUFFICES ASSUME CommandInv, result.first_failing_index # NoIndex, command_exit # StillRunning
               PROVE  \A i \in Indices :
                          rows[i] = IF i < result.first_failing_index THEN "pass" ELSE "block"
    BY DEF PublishedOnsetIsReal
  <2>1. pc = "done"
    BY DEF CommandInv, SearchInv, IInv, ResultIffDone, NoResult, Outcome
  <2> QED BY <2>1, OnsetIsManifests
<1> QED BY <1>1, CommandInvariance, PTL

-----------------------------------------------------------------------------
(* merriv bisect-run *)

\* The arguments of the command, which a second run has too.
SameArguments ==
    checkpoint_count \in CheckpointCounts /\ mode \in Modes /\ sparse_points \in SparsePointCounts

\* Where the command is, and what it may be holding there.
CallbackPhase ==
    /\ stage \in {"baseline", "engine", "write", "answer", "document", "exited"}
    /\ (exit_code # NotExited) <=> (stage = "exited")
    /\ stage = "baseline" => pc = "call"
    /\ stage = "document" => pc = "done"
    /\ stage = "write" => reply \in Verdicts
    /\ stage = "answer" => reply \in Verdicts \cup {"raises"}

\* Each completed checkpoint of this run has the report of this run.
CompletedAreReported ==
    /\ run \in Nat
    /\ completed \in [Indices -> Verdicts \cup {Unset}]
    /\ DOMAIN reports = Indices /\ reports = [i \in Indices |-> reports[i]]
    /\ \A i \in Indices : completed[i] # Unset => reports[i] = Row(i)

\* Between two requests the completed checkpoints are among those asked for; the
\* one being asked for joins them before the engine has its answer.
CompletedAreAsked ==
    \A i \in Indices :
        completed[i] # Unset =>
            cache[i] # Unset \/ (stage = "answer" /\ i \in Missing /\ completed[i] = reply)

\* No decision of the search lacks a completed checkpoint.
DecisiveAreCompleted ==
    /\ \A i \in Indices :
          cache[i] \in {"pass", "block"} =>
              completed[i] # Unset /\ cache[i] = Normalize(completed[i])
    /\ stage = "answer" =>
          \A i \in Missing : completed[i] = reply \/ reply = "raises"

\* The document of a run that ended with a verdict is its payload.
DocumentIsPayload == (exit_code \in {0, 2, 3} /\ pc = "done") => document = Payload

ExecutionInv ==
    /\ SearchInv
    /\ SameArguments
    /\ CallbackPhase
    /\ CompletedAreReported
    /\ CompletedAreAsked
    /\ DecisiveAreCompleted
    /\ DocumentIsPayload

\* A verdict and a raise are no missing answer.
LEMMA VerdictValues ==
    /\ Unset \notin Verdicts \cup {"raises"} /\ "raises" \notin Verdicts
    /\ \A v \in Verdicts \cup {"raises"} : Normalize(v) \in BisectStatus
    /\ Normalize("raises") = "error"
BY ExecutionAssumption DEF Unset, BisectStatus, Normalize

\* The engine asks for one checkpoint at a time.
LEMMA OneIsRequested ==
    ASSUME TypeOK
    PROVE  \A i, j \in Missing : i = j
<1>1. Indices \subseteq Int
  BY DEF TypeOK, Indices
<1>2. ASSUME NEW i \in Requested, NEW j \in Requested PROVE i = j
  <2>1. CASE pc = "audit"
    <3>1. i \in pending /\ j \in pending /\ i <= j /\ j <= i /\ i \in Int /\ j \in Int
      BY <1>1, <1>2, <2>1 DEF Requested
    <3> QED BY <3>1
  <2>2. CASE pc # "audit"
    BY <1>2, <2>2 DEF Requested
  <2> QED BY <2>1, <2>2
<1> QED BY <1>2 DEF Missing

\* What a step of the engine changes of its cache is the answer to that request.
LEMMA NextAsksMissing ==
    ASSUME IInv, [Next]_vars
    PROVE  \A i \in Indices : cache'[i] # cache[i] => i \in Missing
<1>1. TypeOK
  BY DEF IInv
<1>2. ASSUME NEW index, NEW reply1 \in Replies, Get(index, reply1), UNCHANGED arguments,
             index \in Requested
      PROVE  \A i \in Indices : cache'[i] # cache[i] => i \in Missing
  <2>1. /\ cache[index] # Unset => Answer(index, reply1) = cache[index]
        /\ cache'[index] = Answer(index, reply1)
        /\ \A i \in Indices : i # index => cache'[i] = cache[i]
    BY <1>1, <1>2, GetEffect
  <2> QED BY <1>2, <2>1 DEF Missing
<1>3. checkpoint_count \in Int
  BY <1>1 DEF TypeOK
<1>4. CASE GetFirst
  <2>1. PICK r \in Replies : Get(0, r)
    BY <1>4 DEF GetFirst
  <2>2. 0 \in Requested
    BY <1>4, <2>1 DEF GetFirst, Get, Requested
  <2> QED BY <1>2, <1>4, <2>1, <2>2 DEF GetFirst
<1>5. CASE GetLast
  <2>1. PICK r \in Replies : Get(checkpoint_count - 1, r)
    BY <1>5 DEF GetLast
  <2>2. checkpoint_count - 1 \in Requested
    BY <1>5, <2>1 DEF GetLast, Get, Requested
  <2> QED BY <1>2, <1>5, <2>1, <2>2 DEF GetLast
<1>6. CASE Probe
  <2>1. PICK r \in Replies : Get(Midpoint, r)
    BY <1>6 DEF Probe
  <2>2. Midpoint \in Requested
    BY <1>6, <2>1 DEF Probe, Get, Requested
  <2> QED BY <1>2, <1>6, <2>1, <2>2 DEF Probe
<1>7. CASE AuditNext
  <2>1. PICK index \in pending :
            /\ \A other \in pending : index <= other
            /\ \E r \in Replies : Get(index, r)
    BY <1>7 DEF AuditNext
  <2>2. PICK r \in Replies : Get(index, r)
    BY <2>1
  <2>3. index \in Requested
    BY <1>7, <2>1, <2>2 DEF AuditNext, Get, Requested
  <2> QED BY <1>2, <1>7, <2>2, <2>3 DEF AuditNext
<1>8. CASE RejectArguments \/ Start \/ FromEndpoints \/ FoundBoundary \/ PlanAudit \/ AuditConclude
           \/ UNCHANGED vars
  BY <1>8 DEF RejectArguments, Start, FromEndpoints, FoundBoundary, PlanAudit, AuditConclude, vars,
              evaluator
<1> QED BY <1>4, <1>5, <1>6, <1>7, <1>8 DEF Next

LEMMA ExecutionInvInit == ExecutionInit => ExecutionInv
<1> SUFFICES ASSUME ExecutionInit PROVE ExecutionInv
  OBVIOUS
<1>1. SearchInv
  BY SearchInvInit DEF ExecutionInit
<1>2. SameArguments /\ CallbackPhase
  BY DEF ExecutionInit, Init, SameArguments, CallbackPhase, NotExited
<1>3. CompletedAreReported /\ CompletedAreAsked /\ DecisiveAreCompleted /\ DocumentIsPayload
  BY DEF ExecutionInit, Init, CompletedAreReported, CompletedAreAsked, DecisiveAreCompleted,
         DocumentIsPayload, NotExited, Unset
<1> QED BY <1>1, <1>2, <1>3 DEF ExecutionInv

\* A step that leaves the search alone keeps what only the search is in.
LEMMA SearchStays ==
    ASSUME UNCHANGED vars, SearchInv, SameArguments
    PROVE  /\ SearchInv' /\ SameArguments'
           /\ Indices' = Indices /\ Missing' = Missing /\ pc' = pc /\ cache' = cache
           /\ result' = result
<1>1. SearchInv'
  BY SearchInvStep
<1>2. Indices' = Indices /\ Missing' = Missing
  BY DEF vars, arguments, search, evaluator, Missing, Requested, Halving, Midpoint, Indices
<1> QED BY <1>1, <1>2 DEF vars, arguments, evaluator, SameArguments

\* A step of the command that completes no checkpoint and does not run the engine.
LEMMA PhaseStep ==
    ASSUME ExecutionInv, UNCHANGED <<vars, run, completed, reports>>,
           stage # "answer", stage' = "answer" => reply' = "raises"
    PROVE  CompletedAreReported' /\ CompletedAreAsked' /\ DecisiveAreCompleted'
<1>1. Indices' = Indices /\ Missing' = Missing /\ cache' = cache
  BY SearchStays DEF ExecutionInv
<1> QED BY <1>1 DEF ExecutionInv, CompletedAreReported, CompletedAreAsked, DecisiveAreCompleted, Row

LEMMA LoadBaselineStep == ExecutionInv /\ LoadBaseline => ExecutionInv'
<1> SUFFICES ASSUME ExecutionInv, LoadBaseline PROVE ExecutionInv'
  OBVIOUS
<1>1. /\ SearchInv' /\ SameArguments' /\ pc' = pc /\ pc = "call"
  BY SearchStays DEF ExecutionInv, CallbackPhase, LoadBaseline
<1>2. CompletedAreReported' /\ CompletedAreAsked' /\ DecisiveAreCompleted'
  BY PhaseStep DEF LoadBaseline, Exit, files
<1>3. CallbackPhase' /\ DocumentIsPayload'
  BY <1>1 DEF ExecutionInv, CallbackPhase, DocumentIsPayload, LoadBaseline, Exit, NotExited
<1> QED BY <1>1, <1>2, <1>3 DEF ExecutionInv

LEMMA CompareStep == ExecutionInv /\ Compare => ExecutionInv'
<1> SUFFICES ASSUME ExecutionInv, Compare PROVE ExecutionInv'
  OBVIOUS
<1>1. SearchInv' /\ SameArguments'
  BY SearchStays DEF ExecutionInv, Compare
<1>2. CompletedAreReported' /\ CompletedAreAsked' /\ DecisiveAreCompleted'
  BY PhaseStep DEF Compare, files
<1>3. CallbackPhase' /\ DocumentIsPayload'
  BY DEF ExecutionInv, CallbackPhase, DocumentIsPayload, Compare, NotExited, Payload, files
<1> QED BY <1>1, <1>2, <1>3 DEF ExecutionInv

LEMMA WriteReportStep == ExecutionInv /\ WriteReport => ExecutionInv'
<1> SUFFICES ASSUME ExecutionInv, WriteReport PROVE ExecutionInv'
  OBVIOUS
<1>1. PICK index \in Missing : Complete(index)
  BY DEF WriteReport
<1>2. /\ stage = "write" /\ stage' = "answer" /\ UNCHANGED <<vars, run, document, exit_code>>
      /\ reply \in Verdicts /\ exit_code = NotExited
  BY <1>1 DEF WriteReport, Complete, ExecutionInv, CallbackPhase
<1>3. /\ SearchInv' /\ SameArguments' /\ Indices' = Indices /\ Missing' = Missing /\ cache' = cache
  BY <1>2, SearchStays DEF ExecutionInv
<1>4. /\ index \in Indices /\ cache[index] = Unset
      /\ \A i \in Indices : completed[i] # Unset => cache[i] # Unset
      /\ \A i \in Missing : i = index
  BY <1>1, <1>2, OneIsRequested DEF Missing, Requested, ExecutionInv, CompletedAreAsked, SearchInv, IInv
<1>5. CallbackPhase' /\ DocumentIsPayload'
  <2>1. reply' = reply \/ reply' = "raises"
    BY <1>1 DEF Complete
  <2> QED BY <1>2, <2>1 DEF CallbackPhase, DocumentIsPayload, NotExited
<1>6. CASE /\ completed' = [completed EXCEPT ![index] = reply]
           /\ reports' = [reports EXCEPT ![index] = [run |-> run, status |-> reply]]
           /\ reply' = reply
  <2>1. /\ completed' \in [Indices -> Verdicts \cup {Unset}]
        /\ completed'[index] = reply
        /\ \A i \in Indices : i # index => completed'[i] = completed[i]
    BY <1>2, <1>4, <1>6 DEF ExecutionInv, CompletedAreReported
  <2>2. /\ DOMAIN reports' = Indices /\ reports' = [i \in Indices |-> reports'[i]]
        /\ reports'[index] = [run |-> run, status |-> reply]
        /\ \A i \in Indices : i # index => reports'[i] = reports[i]
    BY <1>4, <1>6 DEF ExecutionInv, CompletedAreReported
  <2>3. CompletedAreReported'
    BY <1>2, <1>3, <2>1, <2>2 DEF ExecutionInv, CompletedAreReported, Row
  <2>4. CompletedAreAsked'
    BY <1>1, <1>2, <1>3, <1>4, <1>6, <2>1 DEF CompletedAreAsked
  <2>5. DecisiveAreCompleted'
    BY <1>1, <1>2, <1>3, <1>4, <1>6, <2>1 DEF ExecutionInv, DecisiveAreCompleted, Unset
  <2> QED BY <1>3, <1>5, <2>3, <2>4, <2>5 DEF ExecutionInv
<1>7. CASE /\ reports' \in {reports, [reports EXCEPT ![index] = [run |-> run, status |-> reply]]}
           /\ reply' = "raises" /\ completed' = completed
  <2>1. /\ DOMAIN reports' = Indices /\ reports' = [i \in Indices |-> reports'[i]]
        /\ \A i \in Indices : i # index => reports'[i] = reports[i]
    BY <1>4, <1>7 DEF ExecutionInv, CompletedAreReported
  <2>2. completed[index] = Unset
    BY <1>4
  <2>3. CompletedAreReported'
    BY <1>2, <1>3, <1>7, <2>1, <2>2 DEF ExecutionInv, CompletedAreReported, Row
  <2>4. CompletedAreAsked'
    BY <1>3, <1>4, <1>7 DEF CompletedAreAsked
  <2>5. DecisiveAreCompleted'
    BY <1>3, <1>7 DEF ExecutionInv, DecisiveAreCompleted
  <2> QED BY <1>3, <1>5, <2>3, <2>4, <2>5 DEF ExecutionInv
<1> QED BY <1>1, <1>6, <1>7 DEF Complete

LEMMA EngineStepStep == ExecutionInv /\ EngineStep => ExecutionInv'
<1> SUFFICES ASSUME ExecutionInv, EngineStep PROVE ExecutionInv'
  OBVIOUS
<1>1. /\ [Next]_vars /\ UNCHANGED <<run, reply, completed, reports, document, exit_code>>
      /\ stage' = "engine" /\ stage \in {"engine", "answer"} /\ exit_code = NotExited
      /\ stage = "engine" => Missing = {}
      /\ \A i \in Missing : cache'[i] = Normalize(reply)
  BY DEF EngineStep, files, Recorded, ExecutionInv, CallbackPhase
<1>2. SearchInv' /\ UNCHANGED arguments
  BY <1>1, SearchInvStep, ArgumentsStay DEF ExecutionInv
<1>3. Indices' = Indices /\ SameArguments'
  BY <1>2 DEF ExecutionInv, SameArguments, Indices, arguments
<1>4. \A i \in Indices : i \notin Missing => cache'[i] = cache[i]
  BY <1>1, NextAsksMissing DEF ExecutionInv, SearchInv
<1>5. \A i \in Missing : i \in Indices /\ cache[i] = Unset /\ stage = "answer"
  BY <1>1 DEF Missing, Requested
<1>6. stage = "answer" => reply \in Verdicts \cup {"raises"}
  BY DEF ExecutionInv, CallbackPhase
<1>7. \A i \in Missing : cache'[i] # Unset
  BY <1>1, <1>5, <1>6, VerdictValues DEF Unset, BisectStatus
<1>8. CallbackPhase' /\ DocumentIsPayload'
  BY <1>1 DEF CallbackPhase, DocumentIsPayload, NotExited
<1>9. CompletedAreReported'
  BY <1>1, <1>3 DEF ExecutionInv, CompletedAreReported, Row
<1>10. CompletedAreAsked'
  BY <1>1, <1>3, <1>4, <1>7 DEF ExecutionInv, CompletedAreAsked
<1>11. DecisiveAreCompleted'
  <2>1. ASSUME NEW i \in Indices, cache'[i] \in {"pass", "block"}
        PROVE  completed[i] # Unset /\ cache'[i] = Normalize(completed[i])
    <3>1. CASE i \notin Missing
      BY <1>4, <2>1, <3>1 DEF ExecutionInv, DecisiveAreCompleted
    <3>2. CASE i \in Missing
      <4>1. cache'[i] = Normalize(reply) /\ stage = "answer"
        BY <1>1, <1>5, <3>2
      <4>2. reply # "raises"
        BY <2>1, <4>1, VerdictValues
      <4>3. completed[i] = reply
        BY <3>2, <4>1, <4>2 DEF ExecutionInv, DecisiveAreCompleted
      <4> QED BY <1>6, <4>1, <4>3, VerdictValues
    <3> QED BY <3>1, <3>2
  <2> QED BY <1>1, <1>3, <2>1 DEF DecisiveAreCompleted
<1> QED BY <1>2, <1>3, <1>8, <1>9, <1>10, <1>11 DEF ExecutionInv

LEMMA ExitCodeValues == ExitCode \in {0, 2, 3}
<1>1. CASE result.outcome = "inconclusive"
  BY <1>1 DEF ExitCode
<1>2. CASE result.outcome \in {"first_failing", "regression_bounded", "non_monotonic"}
  BY <1>2 DEF ExitCode
<1>3. CASE result.outcome \notin {"inconclusive", "first_failing", "regression_bounded",
                                  "non_monotonic"}
  BY <1>3 DEF ExitCode
<1> QED BY <1>1, <1>2, <1>3

LEMMA DocumentStep == ExecutionInv /\ (OpenDocument \/ WriteDocument) => ExecutionInv'
<1> SUFFICES ASSUME ExecutionInv, OpenDocument \/ WriteDocument PROVE ExecutionInv'
  OBVIOUS
<1>1. /\ UNCHANGED <<vars, run, reply, completed, reports>> /\ pc = "done"
      /\ stage \in {"engine", "document"} /\ exit_code = NotExited
  BY DEF OpenDocument, WriteDocument, ExecutionInv, CallbackPhase
<1>2. /\ SearchInv' /\ SameArguments' /\ Indices' = Indices /\ pc' = pc /\ result' = result
  BY <1>1, SearchStays DEF ExecutionInv
<1>3. CompletedAreReported' /\ CompletedAreAsked' /\ DecisiveAreCompleted'
  BY <1>1, PhaseStep DEF OpenDocument, WriteDocument, Exit
<1>4. CallbackPhase'
  BY <1>1, <1>2, ExitCodeValues DEF CallbackPhase, OpenDocument, WriteDocument, Exit, NotExited
<1>5. DocumentIsPayload'
  <2>1. Payload' = Payload
    BY <1>1, <1>2 DEF Payload, Executed, Row
  <2> QED BY <1>1, <1>2, <2>1 DEF DocumentIsPayload, OpenDocument, WriteDocument, Exit, NotExited
<1> QED BY <1>2, <1>3, <1>4, <1>5 DEF ExecutionInv

LEMMA RunAgainStep == ExecutionInv /\ RunAgain => ExecutionInv'
<1> SUFFICES ASSUME ExecutionInv, RunAgain PROVE ExecutionInv'
  OBVIOUS
<1>1. Init' /\ SameArguments' /\ Indices' = Indices
  BY DEF RunAgain, Init, ExecutionInv, SameArguments, arguments, Indices
<1>2. SearchInv'
  BY <1>1, SearchInvInit, PTL
<1>3. CallbackPhase' /\ DocumentIsPayload'
  BY DEF RunAgain, CallbackPhase, DocumentIsPayload, NotExited
<1>4. CompletedAreReported'
  BY <1>1 DEF RunAgain, CompletedAreReported, ExecutionInv, files
<1>5. CompletedAreAsked' /\ DecisiveAreCompleted'
  BY <1>1 DEF RunAgain, CompletedAreAsked, DecisiveAreCompleted, Unset
<1> QED BY <1>1, <1>2, <1>3, <1>4, <1>5 DEF ExecutionInv

LEMMA ExecutionInvStep == ExecutionInv /\ [ExecutionNext]_allVars => ExecutionInv'
<1> SUFFICES ASSUME ExecutionInv, [ExecutionNext]_allVars PROVE ExecutionInv'
  OBVIOUS
<1>1. CASE UNCHANGED allVars
  <2>1. UNCHANGED <<vars, run, stage, reply, completed, reports, document, exit_code>>
    BY <1>1 DEF allVars, callback, files
  <2>2. SearchInv' /\ SameArguments' /\ Indices' = Indices /\ Missing' = Missing /\ pc' = pc
           /\ cache' = cache /\ result' = result
    BY <2>1, SearchStays DEF ExecutionInv
  <2> QED BY <2>1, <2>2 DEF ExecutionInv, CallbackPhase, CompletedAreReported, CompletedAreAsked,
                           DecisiveAreCompleted, DocumentIsPayload, Payload, Executed, Row
<1> QED BY <1>1, LoadBaselineStep, CompareStep, WriteReportStep, EngineStepStep, DocumentStep,
           RunAgainStep DEF ExecutionNext

\* The invariant of an execution-driven search: which checkpoints are completed,
\* reported and asked for at each point of the callback, run after run.
THEOREM ExecutionInvariance == ExecutionSpec => []ExecutionInv
<1>1. ExecutionInit => ExecutionInv
  BY ExecutionInvInit
<1>2. ExecutionInv /\ [ExecutionNext]_allVars => ExecutionInv'
  BY ExecutionInvStep
<1> QED BY <1>1, <1>2, PTL DEF ExecutionSpec

\* Whatever fails, and however often the command is run over the files of earlier
\* runs, a verdict rests on reports of the run that gives it.
THEOREM VerdictsAreReported == ExecutionSpec => []ConclusiveIsReported
<1>1. ExecutionInv => ConclusiveIsReported
  <2> SUFFICES ASSUME ExecutionInv, pc = "done", result.outcome # "inconclusive",
                      NEW i \in Evaluated
               PROVE  /\ reports[i] # Absent /\ reports[i].run = run
                      /\ cache[i] = Normalize(reports[i].status)
    BY DEF ConclusiveIsReported
  <2>1. i \in Indices /\ cache[i] \in {"pass", "block"}
    BY DEF Evaluated, ExecutionInv, SearchInv, InconclusiveIffUncertain, IInv, TypeOK, BisectStatus
  <2>2. /\ completed[i] \in Verdicts /\ reports[i] = [run |-> run, status |-> completed[i]]
        /\ cache[i] = Normalize(completed[i]) /\ run \in Nat
    BY <2>1 DEF ExecutionInv, DecisiveAreCompleted, CompletedAreReported, Row
  <2>3. reports[i] \in [run : Nat, status : Verdicts]
    BY <2>2
  <2> QED BY <2>2, <2>3, ExecutionAssumption
<1> QED BY <1>1, ExecutionInvariance, PTL

\* The result document of a run that ended with a verdict is that run's, and each
\* of its rows names the report that is in the row's directory.
THEOREM DocumentsNameReports == ExecutionSpec => []RowsNameTheirReports
<1>1. ExecutionInv => RowsNameTheirReports
  <2> SUFFICES ASSUME ExecutionInv, exit_code \in {0, 2, 3}, pc = "done"
               PROVE  /\ document.result = result
                      /\ \A row \in document.rows : reports[row[1]] = row[2]
    BY DEF RowsNameTheirReports
  <2>1. document.result = result /\ document.rows = {<<i, Row(i)>> : i \in Executed}
    BY DEF ExecutionInv, DocumentIsPayload, Payload
  <2>2. \A i \in Executed : reports[i] = Row(i)
    BY DEF ExecutionInv, CompletedAreReported, Executed
  <2> QED BY <2>1, <2>2
<1> QED BY <1>1, ExecutionInvariance, PTL

-----------------------------------------------------------------------------
(* The scripts that judge a sequence of builds *)

\* The directory r of a script of that kind tells one story of the builds.
StoryOf(builds, kind, r) ==
    LET receipt == r[<<"receipt", 0>>]
        first   == receipt.first_bad
        verdict(i) == Normalize(r[<<"bundle", i>>].decision)
    IN  /\ \A i \in builds :
              /\ r[<<"bundle", i>>].of = <<r[<<"results", 0>>], r[<<"results", i>>]>>
              /\ RestsOnResults(r[<<"bundle", i>>])
              /\ r[<<"evidence", i>>] = <<r[<<"results", 0>>], r[<<"results", i>>]>>
              /\ r[<<"bundle", i>>].decision = receipt.decisions[i + 1]
        /\ r[<<"search", 0>>] = first
        /\ kind = "demo" => r[<<"rows", 0>>] = receipt.decisions
        /\ first # NoIndex => verdict(first) = "block" /\ (first > 0 => verdict(first - 1) = "pass")
        /\ \A k \in builds :
              (\A i \in builds : verdict(i) = IF i < k THEN "pass" ELSE "block") => first = k

StoryTold(r) == StoryOf(Indices, script, r)

AfterReports == {"rows", "searching", "search", "receipt", "manifest"}

\* Where the script is, and whether the search has run.
ScriptPhase ==
    /\ task \in {"results", "bundle", "evidence", "ended"} \cup AfterReports
    /\ script \in {"vertical", "demo"} /\ mode = "monotonic" /\ checkpoint_count \in Nat \ {0}
    /\ done \in Indices
    /\ task \in AfterReports => done = 0
    /\ task \in {"results", "bundle", "evidence", "rows"} => pc = "call"
    /\ task \in {"search", "receipt", "manifest"} => pc = "done"
    /\ task # "ended" => script_exit = NotEnded
    /\ root = [f \in OutputFiles |-> root[f]]

\* One decision for each report that is there.
DecisionsMade ==
    /\ decisions \in Seq(Decisions)
    /\ task = "results" => decisions = <<>>
    /\ task = "bundle" => Len(decisions) = done
    /\ task = "evidence" => Len(decisions) = done + 1
    /\ task \in AfterReports => Len(decisions) = checkpoint_count

\* What is made in this attempt is there, and says so.
ResultsAreOfAttempt ==
    \A i \in Indices :
        task \notin {"results", "ended"} \/ (task = "results" /\ i < done) =>
            root[<<"results", i>>] \in [engine : Measurements, attempt : {attempt}]

\* An entry is about the engine its key names, and is of the run that has its key,
\* if only one run has it.
Sound(found) ==
    \A e \in found :
        /\ e.result \in [engine : Measurements, attempt : Nat]
        /\ e.result.engine = e.key.engine
        /\ e.authentication[1] = "local" => e.result.attempt = e.authentication[2]

EntriesAreSound ==
    attempt \in Nat /\ authentication \in Authentications(attempt) /\ Sound(entries)

IsReportOf(report, subjects, decision) ==
    report.of = subjects /\ report.decision = decision /\ RestsOnResults(report)

\* The reports of this attempt are about the results of this attempt, and rest on
\* them or, with a shared cache, on results of the same engines.
ReportsAreOfAttempt ==
    \A i \in Indices :
        task # "ended" /\ i < Len(decisions) =>
            /\ IsReportOf(root[<<"bundle", i>>], Subjects(i), decisions[i + 1])
            /\ ~(task = "evidence" /\ i = done) => root[<<"evidence", i>>] = Subjects(i)

\* The search is told the decisions of the reports, and what it finds is written.
SearchIsOfAttempt ==
    /\ task \in {"searching", "search", "receipt", "manifest"} =>
          /\ \A i \in Indices : cache[i] # Unset => cache[i] = Told(i)
          /\ script = "demo" => root[<<"rows", 0>>] = decisions
    /\ task \in {"rows", "manifest"} => script = IF task = "rows" THEN "demo" ELSE "vertical"
    /\ task \in {"receipt", "manifest"} => root[<<"search", 0>>] = FirstBad
    /\ task = "manifest" => root[<<"receipt", 0>>] = Summary

\* What was sealed, or ended well, is a story, however it is written over later.
SealedIsStory ==
    /\ (script = "vertical" /\ rootManifest # NotRetained) =>
          /\ StoryTold(rootManifest.files)
          /\ rootManifest.first_bad = rootManifest.files[<<"receipt", 0>>].first_bad
    /\ (script = "demo" /\ script_exit = 0) => StoryTold(root)

SequenceInv ==
    /\ SearchInv
    /\ SameArguments
    /\ ScriptPhase
    /\ DecisionsMade
    /\ ResultsAreOfAttempt /\ EntriesAreSound
    /\ ReportsAreOfAttempt
    /\ SearchIsOfAttempt
    /\ SealedIsStory

\* The files of a directory, by name.
LEMMA NamedFiles ==
    /\ \A i \in Indices : /\ <<"results", i>> \in OutputFiles
                          /\ <<"bundle", i>> \in OutputFiles
                          /\ <<"evidence", i>> \in OutputFiles
    /\ <<"rows", 0>> \in OutputFiles /\ <<"search", 0>> \in OutputFiles
    /\ <<"receipt", 0>> \in OutputFiles
BY DEF OutputFiles, PerBuild

\* Writing one file leaves the others as they are.
LEMMA PutEffect ==
    ASSUME root = [f \in OutputFiles |-> root[f]], CurrentFile \in OutputFiles,
           NEW content, Put(content), OutputFiles' = OutputFiles
    PROVE  /\ root'[CurrentFile] = content
           /\ \A f \in OutputFiles : f # CurrentFile => root'[f] = root[f]
           /\ root' = [f \in OutputFiles' |-> root'[f]]
<1> DEFINE F == OutputFiles
           c == CurrentFile
<1>1. root = [f \in F |-> root[f]] /\ root' = [root EXCEPT ![c] = content] /\ c \in F /\ F' = F
  BY DEF Put
<1> HIDE DEF F, c
<1>2. /\ root'[c] = content /\ \A f \in F : f # c => root'[f] = root[f]
      /\ root' = [f \in F |-> root'[f]]
  BY <1>1
<1> QED BY <1>1, <1>2 DEF F, c

\* The length of the list does not change, so nor do the indices or the files.
LEMMA ListStays ==
    ASSUME UNCHANGED arguments
    PROVE  Indices' = Indices /\ OutputFiles' = OutputFiles /\ mode' = mode
           /\ checkpoint_count' = checkpoint_count /\ (SameArguments => SameArguments')
BY DEF arguments, Indices, OutputFiles, SameArguments

\* A story stays one whatever a step leaves of its attempt.
LEMMA SealStays ==
    ASSUME SealedIsStory, UNCHANGED <<arguments, script, rootManifest>>, script_exit' # 0
    PROVE  SealedIsStory'
BY ListStays DEF SealedIsStory, StoryTold

\* What the decisions of the reports say, the search finds.
LEMMA SearchFindsOnset ==
    ASSUME SequenceInv, pc = "done", \A i \in Indices : cache[i] # Unset => cache[i] = Told(i)
    PROVE  /\ FirstBad # NoIndex => /\ FirstBad \in Indices /\ Told(FirstBad) = "block"
                                    /\ FirstBad > 0 => Told(FirstBad - 1) = "pass"
           /\ \A k \in Indices :
                 (\A i \in Indices : Told(i) = IF i < k THEN "pass" ELSE "block") => FirstBad = k
<1>1. /\ OutcomeIsSeen /\ OnsetIsSeen /\ ModeIsKept /\ InconclusiveIffUncertain
      /\ result.outcome \in BisectOutcome /\ mode = "monotonic"
      /\ checkpoint_count \in Nat \ {0}
  BY DEF SequenceInv, SearchInv, ResultRests, ScriptPhase, IInv, ResultIffDone
<1>2. /\ checkpoint_count - 1 \in Indices
      /\ \A i \in Indices : i \in Int /\ 0 <= i /\ i <= checkpoint_count - 1
      /\ \A i \in Indices : i > 0 => i - 1 \in Indices
  BY <1>1 DEF Indices
<1>3. FirstBad # NoIndex => /\ FirstBad \in Indices /\ Told(FirstBad) = "block"
                            /\ FirstBad > 0 => Told(FirstBad - 1) = "pass"
  BY <1>1, <1>2 DEF OnsetIsSeen, FirstBad, Unset
<1>4. ASSUME NEW k \in Indices, \A i \in Indices : Told(i) = IF i < k THEN "pass" ELSE "block"
      PROVE  FirstBad = k
  <2>1. \A i \in Indices : cache[i] # Unset => cache[i] = IF i < k THEN "pass" ELSE "block"
    BY <1>4
  <2>2. result.outcome # "inconclusive"
    <3>1. \A i \in Indices : cache[i] \notin {"warn", "error"}
      BY <2>1 DEF Unset
    <3> QED BY <1>1, <3>1 DEF InconclusiveIffUncertain
  <2>3. result.outcome \notin {"all_pass", "no_failure_observed"}
    BY <1>1, <1>2, <2>1 DEF OutcomeIsSeen, Unset
  <2>4. result.outcome # "non_monotonic"
    <3>1. \A i, j \in Indices : i < j /\ cache[i] = "block" => cache[j] # "pass"
      BY <1>2, <2>1 DEF Unset
    <3> QED BY <1>1, <3>1 DEF OutcomeIsSeen
  <2>5. result.outcome = "first_failing"
    BY <1>1, <2>2, <2>3, <2>4 DEF ModeIsKept, BisectOutcome
  <2>6. FirstBad # NoIndex
    BY <1>1, <2>5 DEF OnsetIsSeen, FirstBad
  <2>7. /\ FirstBad \in Indices /\ ~(FirstBad < k)
        /\ FirstBad > 0 => FirstBad - 1 < k
    BY <1>2, <1>3, <1>4, <2>6
  <2> QED BY <1>2, <2>7
<1> QED BY <1>3, <1>4

\* A directory in which the receipt joins what the attempt has written is a story.
LEMMA ReceiptConcludes ==
    ASSUME SequenceInv, task \in {"receipt", "manifest"}, NEW r, r[<<"receipt", 0>>] = Summary,
           \A f \in OutputFiles : f # <<"receipt", 0>> => r[f] = root[f]
    PROVE  StoryTold(r) /\ r[<<"receipt", 0>>].first_bad = FirstBad
<1>1. /\ pc = "done" /\ Len(decisions) = checkpoint_count /\ checkpoint_count \in Nat \ {0}
      /\ \A i \in Indices : cache[i] # Unset => cache[i] = Told(i)
      /\ script = "demo" => root[<<"rows", 0>>] = decisions
      /\ root[<<"search", 0>>] = FirstBad
  BY DEF SequenceInv, ScriptPhase, DecisionsMade, SearchIsOfAttempt, AfterReports
<1>2. \A i \in Indices : i < Len(decisions) /\ i \in Nat
  BY <1>1 DEF Indices
<1>3. \A i \in Indices :
         /\ IsReportOf(root[<<"bundle", i>>], Subjects(i), decisions[i + 1])
         /\ root[<<"evidence", i>>] = Subjects(i)
  BY <1>2 DEF SequenceInv, ReportsAreOfAttempt
<1>4. \A i \in Indices :
         /\ r[<<"bundle", i>>] = root[<<"bundle", i>>] /\ r[<<"evidence", i>>] = root[<<"evidence", i>>]
         /\ r[<<"results", i>>] = root[<<"results", i>>]
  BY NamedFiles
<1>5. r[<<"rows", 0>>] = root[<<"rows", 0>>] /\ r[<<"search", 0>>] = root[<<"search", 0>>]
  BY NamedFiles
<1>6. 0 \in Indices
  BY <1>1 DEF Indices
<1>7. r[<<"receipt", 0>>].decisions = decisions /\ r[<<"receipt", 0>>].first_bad = FirstBad
  BY DEF Summary
<1>8. \A i \in Indices :
         /\ r[<<"bundle", i>>].of = <<r[<<"results", 0>>], r[<<"results", i>>]>>
         /\ RestsOnResults(r[<<"bundle", i>>])
         /\ r[<<"evidence", i>>] = <<r[<<"results", 0>>], r[<<"results", i>>]>>
         /\ r[<<"bundle", i>>].decision = r[<<"receipt", 0>>].decisions[i + 1]
         /\ Normalize(r[<<"bundle", i>>].decision) = Told(i)
  <2> TAKE i \in Indices
  <2>1. Subjects(i) = <<r[<<"results", 0>>], r[<<"results", i>>]>>
    BY <1>4, <1>6 DEF Subjects
  <2>2. /\ r[<<"bundle", i>>].of = Subjects(i) /\ RestsOnResults(r[<<"bundle", i>>])
        /\ r[<<"bundle", i>>].decision = decisions[i + 1]
        /\ r[<<"evidence", i>>] = Subjects(i)
    <3>1. r[<<"bundle", i>>] = root[<<"bundle", i>>] /\ r[<<"evidence", i>>] = root[<<"evidence", i>>]
      BY <1>4
    <3>2. /\ IsReportOf(root[<<"bundle", i>>], Subjects(i), decisions[i + 1])
          /\ root[<<"evidence", i>>] = Subjects(i)
      BY <1>3
    <3> QED BY <3>1, <3>2 DEF IsReportOf
  <2> QED BY <1>7, <2>1, <2>2 DEF Told
<1>9. /\ FirstBad # NoIndex => /\ FirstBad \in Indices /\ Told(FirstBad) = "block"
                               /\ FirstBad > 0 => FirstBad - 1 \in Indices /\ Told(FirstBad - 1) = "pass"
      /\ \A k \in Indices :
            (\A i \in Indices : Told(i) = IF i < k THEN "pass" ELSE "block") => FirstBad = k
  BY <1>1, SearchFindsOnset DEF Indices
<1>10. /\ FirstBad # NoIndex =>
             /\ Normalize(r[<<"bundle", FirstBad>>].decision) = "block"
             /\ FirstBad > 0 => Normalize(r[<<"bundle", FirstBad - 1>>].decision) = "pass"
       /\ \A k \in Indices :
             (\A i \in Indices : Normalize(r[<<"bundle", i>>].decision) = IF i < k THEN "pass" ELSE "block")
                => FirstBad = k
  BY <1>8, <1>9
<1> QED BY <1>1, <1>5, <1>7, <1>8, <1>10 DEF StoryTold, StoryOf

LEMMA SequenceInvInit == SequenceInit => SequenceInv
<1> SUFFICES ASSUME SequenceInit PROVE SequenceInv
  OBVIOUS
<1>1. SearchInv
  BY SearchInvInit DEF SequenceInit
<1>2. SameArguments /\ checkpoint_count \in Nat \ {0} /\ 0 \in Indices
  BY ArgumentTypes DEF SequenceInit, Init, SameArguments, Indices
<1>3. ScriptPhase
  BY <1>2 DEF SequenceInit, Init, ScriptPhase, AfterReports
<1>4. DecisionsMade /\ ReportsAreOfAttempt
  <2>1. decisions = <<>> /\ Len(decisions) = 0 /\ \A i \in Indices : i \in Nat
    BY <1>2 DEF SequenceInit, Indices
  <2> QED BY <2>1 DEF SequenceInit, DecisionsMade, ReportsAreOfAttempt, AfterReports
<1>5. SearchIsOfAttempt /\ SealedIsStory
  BY DEF SequenceInit, SearchIsOfAttempt, SealedIsStory, NotEnded
<1>6. ResultsAreOfAttempt /\ EntriesAreSound
  <2>1. \A i \in Indices : ~(i < 0)
    BY <1>2 DEF Indices
  <2> QED BY <2>1 DEF SequenceInit, ResultsAreOfAttempt, EntriesAreSound, Sound
<1> QED BY <1>1, <1>2, <1>3, <1>4, <1>5, <1>6 DEF SequenceInv

\* A step that leaves the search, the kind of script and the manifest alone.
LEMMA ScriptStays ==
    ASSUME SequenceInv, UNCHANGED <<vars, script, rootManifest>>
    PROVE  /\ SearchInv' /\ SameArguments'
           /\ Indices' = Indices /\ OutputFiles' = OutputFiles
           /\ pc' = pc /\ cache' = cache /\ result' = result /\ mode' = mode
           /\ checkpoint_count' = checkpoint_count
           /\ script_exit' # 0 => SealedIsStory'
<1>1. UNCHANGED arguments
  BY DEF vars
<1>2. SearchInv' /\ SameArguments'
  BY SearchStays DEF SequenceInv
<1>3. script_exit' # 0 => SealedIsStory'
  BY <1>1, SealStays DEF SequenceInv
<1> QED BY <1>1, <1>2, <1>3, ListStays DEF vars, evaluator

\* A step that writes the next file of the attempt.
LEMMA FileWritten ==
    ASSUME SequenceInv, UNCHANGED <<vars, script, rootManifest>>, script_exit' # 0,
           CurrentFile \in OutputFiles, NEW content, Put(content)
    PROVE  /\ SearchInv' /\ SameArguments' /\ SealedIsStory'
           /\ Indices' = Indices /\ pc' = pc /\ cache' = cache /\ result' = result /\ mode' = mode
           /\ checkpoint_count' = checkpoint_count
           /\ root'[CurrentFile] = content
           /\ \A f \in OutputFiles : f # CurrentFile => root'[f] = root[f]
           /\ root' = [f \in OutputFiles' |-> root'[f]]
<1>1. root = [f \in OutputFiles |-> root[f]]
  BY DEF SequenceInv, ScriptPhase
<1> QED BY <1>1, ScriptStays, PutEffect

\* The numbers of a list of builds.
LEMMA BuildNumbers ==
    ASSUME ScriptPhase
    PROVE  /\ checkpoint_count \in Nat \ {0} /\ done \in Nat /\ 0 \in Indices
           /\ \A i \in Indices : i \in Nat /\ i < checkpoint_count
           /\ done + 1 < checkpoint_count => done + 1 \in Indices
           /\ ~(done + 1 < checkpoint_count) => done + 1 = checkpoint_count
BY DEF ScriptPhase, Indices

\* What was made and what is cached, when a step leaves them alone.
LEMMA BuildsStay ==
    ASSUME SequenceInv, Indices' = Indices, UNCHANGED <<attempt, authentication, entries>>,
           task' = "ended" \/ (task \notin {"results", "ended"} /\ task' # "results"),
           task' # "ended" => \A i \in Indices : root'[<<"results", i>>] = root[<<"results", i>>]
    PROVE  ResultsAreOfAttempt' /\ EntriesAreSound'
<1>1. ResultsAreOfAttempt'
  BY DEF SequenceInv, ResultsAreOfAttempt
<1>2. EntriesAreSound'
  BY DEF SequenceInv, EntriesAreSound, Sound, Authentications
<1> QED BY <1>1, <1>2

\* What is put beside sound entries is of this attempt, and its key is of its engine.
LEMMA StoredIsSound ==
    ASSUME SequenceInv, NEW found, Sound(found), NEW i, NEW side \in Sides, NEW last,
           Subjects(i)[side] \in [engine : Measurements, attempt : {attempt}]
    PROVE  Sound(Stored(found, i, side, last))
<1> DEFINE key    == Key(i, side)
           missed == {case \in Cases : case <= last /\ Hits(found, key, case) = {}}
           new    == [key : {key}, case : missed, authentication : {authentication},
                      result : {Subjects(i)[side]}]
<1>1. key.engine = Subjects(i)[side].engine
  BY DEF Key
<1>2. attempt \in Nat /\ (authentication[1] = "local" => authentication[2] = attempt)
  BY DEF SequenceInv, EntriesAreSound, Authentications
<1> HIDE DEF key, missed
<1>3. Sound(new)
  BY <1>1, <1>2 DEF Sound
<1>4. \A e \in Stored(found, i, side, last) : e \in found \/ e \in new
  BY DEF Stored, key, missed
<1> HIDE DEF new
<1> QED BY <1>3, <1>4 DEF Sound

\* What a comparison finds, or has found when it is cut short.
LEMMA FilledIsSound ==
    ASSUME SequenceInv, NEW i \in Indices, task = "bundle"
    PROVE  /\ \A side \in Sides : Subjects(i)[side] \in [engine : Measurements, attempt : {attempt}]
           /\ \A last : Sound(Filled(i, last))
           /\ \A found \in PartlyFilled(i) : Sound(found)
<1>1. /\ 0 \in Indices /\ Sound(entries)
      /\ \A k \in Indices : root[<<"results", k>>] \in [engine : Measurements, attempt : {attempt}]
  BY BuildNumbers DEF SequenceInv, ResultsAreOfAttempt, EntriesAreSound
<1>2. \A side \in Sides : Subjects(i)[side] \in [engine : Measurements, attempt : {attempt}]
  BY <1>1 DEF Subjects, Sides
<1>3. \A last : Sound(Stored(entries, i, 1, last))
  BY <1>1, <1>2, StoredIsSound DEF Sides
<1>4. \A last : Sound(Filled(i, last))
  BY <1>2, <1>3, StoredIsSound DEF Filled, Sides
<1> QED BY <1>2, <1>3, <1>4 DEF PartlyFilled

\* A new report rests on the results of this attempt or says that it may not.
LEMMA ReportRestsOnResults ==
    ASSUME SequenceInv, NEW i \in Indices, task = "bundle", NEW d
    PROVE  IsReportOf(ReportAfter(i, d), Subjects(i), d)
<1> DEFINE report == ReportAfter(i, d)
<1>1. /\ report.of = Subjects(i) /\ report.decision = d
      /\ report.observed = Observed(i) /\ report.cache = authentication[1]
  BY DEF ReportAfter
<1>2. ASSUME NEW o \in Observed(i)
      PROVE  /\ o.result.engine = Subjects(i)[o.side].engine
             /\ authentication[1] = "local" => o.result = Subjects(i)[o.side]
  <2>1. PICK side \in Sides, e \in Filled(i, CaseCount) :
            /\ e \in Hits(Filled(i, CaseCount), Key(i, side), e.case)
            /\ o.side = side /\ o.result = e.result
    BY DEF Observed
  <2>2. e.key = Key(i, side) /\ e.authentication = authentication
    BY <2>1 DEF Hits
  <2>3. /\ e.result \in [engine : Measurements, attempt : Nat] /\ e.result.engine = e.key.engine
        /\ e.authentication[1] = "local" => e.result.attempt = e.authentication[2]
    BY <2>2, FilledIsSound DEF Sound
  <2>4. Subjects(i)[side] \in [engine : Measurements, attempt : {attempt}]
    BY FilledIsSound
  <2>5. e.key.engine = Subjects(i)[side].engine
    BY <2>2 DEF Key
  <2>6. authentication[1] = "local" => authentication[2] = attempt
    BY DEF SequenceInv, EntriesAreSound, Authentications
  <2> QED BY <2>1, <2>2, <2>3, <2>4, <2>5, <2>6
<1> HIDE DEF report
<1>3. RestsOnResults(report)
  BY <1>1, <1>2 DEF RestsOnResults
<1> QED BY <1>1, <1>3 DEF IsReportOf, report

LEMMA PrepareBuildStep == SequenceInv /\ PrepareBuild => SequenceInv'
<1> SUFFICES ASSUME SequenceInv, PrepareBuild PROVE SequenceInv'
  OBVIOUS
<1>1. PICK m \in Measurements : Put([engine |-> m, attempt |-> attempt])
  BY DEF PrepareBuild
<1>2. /\ task = "results" /\ pc = "call" /\ decisions = <<>> /\ script_exit = NotEnded
      /\ UNCHANGED <<vars, script, decisions, rootManifest, script_exit>>
      /\ UNCHANGED <<attempt, authentication, entries>>
      /\ \/ task' = "results" /\ done' = done + 1 /\ done + 1 < checkpoint_count
         \/ task' = "bundle" /\ done' = 0 /\ ~(done + 1 < checkpoint_count)
      /\ script \in {"vertical", "demo"} /\ mode = "monotonic" /\ ScriptPhase
      /\ CurrentFile = <<"results", done>> /\ CurrentFile \in OutputFiles /\ done \in Indices
  BY NamedFiles DEF PrepareBuild, SequenceInv, ScriptPhase, DecisionsMade, CurrentFile, runVars
<1>3. /\ SearchInv' /\ SameArguments' /\ SealedIsStory'
      /\ Indices' = Indices /\ pc' = pc /\ mode' = mode /\ checkpoint_count' = checkpoint_count
      /\ root'[<<"results", done>>] = [engine |-> m, attempt |-> attempt]
      /\ \A f \in OutputFiles : f # <<"results", done>> => root'[f] = root[f]
      /\ root' = [f \in OutputFiles' |-> root'[f]]
  BY <1>1, <1>2, FileWritten DEF NotEnded
<1>4. ScriptPhase'
  BY <1>2, <1>3, BuildNumbers DEF ScriptPhase, AfterReports
<1>5. DecisionsMade'
  BY <1>2, <1>3 DEF DecisionsMade, AfterReports
<1>6. ReportsAreOfAttempt'
  BY <1>2, <1>3, BuildNumbers DEF ReportsAreOfAttempt
<1>7. SearchIsOfAttempt'
  BY <1>2 DEF SearchIsOfAttempt
<1>8. EntriesAreSound'
  BY <1>2 DEF SequenceInv, EntriesAreSound, Sound, Authentications
<1>9. ResultsAreOfAttempt'
  <2> SUFFICES ASSUME NEW i \in Indices, task' = "bundle" \/ i < done'
               PROVE  root'[<<"results", i>>] \in [engine : Measurements, attempt : {attempt}]
    BY <1>2, <1>3 DEF ResultsAreOfAttempt
  <2>1. i = done \/ i < done
    BY <1>2, BuildNumbers
  <2>2. CASE i = done
    BY <1>3, <2>2
  <2>3. CASE i < done /\ i # done
    <3>1. root[<<"results", i>>] \in [engine : Measurements, attempt : {attempt}]
      BY <1>2, <2>3 DEF SequenceInv, ResultsAreOfAttempt
    <3>2. root'[<<"results", i>>] = root[<<"results", i>>]
      BY <1>3, <2>3, NamedFiles
    <3> QED BY <3>1, <3>2
  <2> QED BY <1>2, <2>1, <2>2, <2>3, BuildNumbers
<1> QED BY <1>3, <1>4, <1>5, <1>6, <1>7, <1>8, <1>9 DEF SequenceInv

LEMMA CompareBuildStep == SequenceInv /\ CompareBuild => SequenceInv'
<1> SUFFICES ASSUME SequenceInv, CompareBuild PROVE SequenceInv'
  OBVIOUS
<1>1. PICK d \in Decisions : Put(ReportAfter(done, d)) /\ decisions' = Append(decisions, d)
  BY DEF CompareBuild
<1>2. /\ task = "bundle" /\ task' = "evidence" /\ pc = "call" /\ script_exit = NotEnded
      /\ UNCHANGED <<vars, script, done, rootManifest, script_exit, attempt, authentication>>
      /\ entries' = Filled(done, CaseCount)
      /\ done \in Indices /\ ScriptPhase /\ decisions \in Seq(Decisions) /\ Len(decisions) = done
      /\ CurrentFile = <<"bundle", done>> /\ CurrentFile \in OutputFiles
  BY NamedFiles DEF CompareBuild, SequenceInv, ScriptPhase, DecisionsMade, CurrentFile, runVars
<1>3. /\ SearchInv' /\ SameArguments' /\ SealedIsStory'
      /\ Indices' = Indices /\ pc' = pc /\ mode' = mode /\ checkpoint_count' = checkpoint_count
      /\ root'[<<"bundle", done>>] = ReportAfter(done, d)
      /\ \A f \in OutputFiles : f # <<"bundle", done>> => root'[f] = root[f]
      /\ root' = [f \in OutputFiles' |-> root'[f]]
  BY <1>1, <1>2, FileWritten DEF NotEnded
<1>4. /\ decisions' \in Seq(Decisions) /\ Len(decisions') = done + 1
      /\ decisions'[done + 1] = d
      /\ \A i \in Indices : i < done => decisions'[i + 1] = decisions[i + 1]
  BY <1>1, <1>2, BuildNumbers
<1>5. ScriptPhase'
  BY <1>2, <1>3 DEF ScriptPhase, AfterReports
<1>6. DecisionsMade'
  BY <1>2, <1>3, <1>4 DEF DecisionsMade, AfterReports
<1>7. \A i \in Indices :
         /\ root'[<<"results", i>>] = root[<<"results", i>>]
         /\ root'[<<"evidence", i>>] = root[<<"evidence", i>>]
         /\ i # done => root'[<<"bundle", i>>] = root[<<"bundle", i>>]
  BY <1>3, NamedFiles
<1>8. ReportsAreOfAttempt'
  <2>1. ASSUME NEW i \in Indices, i < done
        PROVE  /\ IsReportOf(root'[<<"bundle", i>>], <<root'[<<"results", 0>>], root'[<<"results", i>>]>>,
                             decisions'[i + 1])
               /\ root'[<<"evidence", i>>] = <<root'[<<"results", 0>>], root'[<<"results", i>>]>>
    <3>1. /\ IsReportOf(root[<<"bundle", i>>], Subjects(i), decisions[i + 1])
          /\ root[<<"evidence", i>>] = Subjects(i) /\ i # done
      BY <1>2, <2>1, BuildNumbers DEF SequenceInv, ReportsAreOfAttempt
    <3>2. <<root'[<<"results", 0>>], root'[<<"results", i>>]>> = Subjects(i)
      BY <1>2, <1>7, BuildNumbers DEF Subjects
    <3> QED BY <1>4, <1>7, <2>1, <3>1, <3>2
  <2>2. IsReportOf(root'[<<"bundle", done>>], <<root'[<<"results", 0>>], root'[<<"results", done>>]>>,
                   decisions'[done + 1])
    <3>1. <<root'[<<"results", 0>>], root'[<<"results", done>>]>> = Subjects(done)
      BY <1>2, <1>7, BuildNumbers DEF Subjects
    <3> QED BY <1>2, <1>3, <1>4, <3>1, ReportRestsOnResults
  <2>3. \A i \in Indices : i < done + 1 => i < done \/ i = done
    BY <1>2, BuildNumbers
  <2> QED BY <1>2, <1>3, <1>4, <2>1, <2>2, <2>3 DEF ReportsAreOfAttempt, Subjects
<1>9. SearchIsOfAttempt'
  BY <1>2 DEF SearchIsOfAttempt
<1>10. ResultsAreOfAttempt'
  BY <1>2, <1>3, <1>7 DEF SequenceInv, ResultsAreOfAttempt
<1>11. EntriesAreSound'
  BY <1>2, FilledIsSound DEF SequenceInv, EntriesAreSound, Sound, Authentications
<1> QED BY <1>3, <1>5, <1>6, <1>8, <1>9, <1>10, <1>11 DEF SequenceInv

\* Reports and documents that a write elsewhere leaves as they are.
LEMMA ReportsStay ==
    ASSUME SequenceInv, task # "ended", UNCHANGED <<arguments, decisions>>,
           task # "evidence",
           \A i \in Indices : /\ root'[<<"results", i>>] = root[<<"results", i>>]
                              /\ root'[<<"bundle", i>>] = root[<<"bundle", i>>]
                              /\ root'[<<"evidence", i>>] = root[<<"evidence", i>>]
    PROVE  ReportsAreOfAttempt'
<1>1. Indices' = Indices /\ 0 \in Indices
  BY ListStays, BuildNumbers DEF SequenceInv
<1>2. ASSUME NEW i \in Indices, i < Len(decisions)
      PROVE  /\ IsReportOf(root'[<<"bundle", i>>], <<root'[<<"results", 0>>], root'[<<"results", i>>]>>,
                           decisions'[i + 1])
             /\ root'[<<"evidence", i>>] = <<root'[<<"results", 0>>], root'[<<"results", i>>]>>
  <2>1. /\ IsReportOf(root[<<"bundle", i>>], Subjects(i), decisions[i + 1])
        /\ root[<<"evidence", i>>] = Subjects(i)
    BY <1>2 DEF SequenceInv, ReportsAreOfAttempt
  <2>2. <<root'[<<"results", 0>>], root'[<<"results", i>>]>> = Subjects(i)
    BY <1>1 DEF Subjects
  <2> QED BY <2>1, <2>2
<1> QED BY <1>1, <1>2 DEF ReportsAreOfAttempt, Subjects

LEMMA WriteEvidenceStep == SequenceInv /\ WriteEvidence => SequenceInv'
<1> SUFFICES ASSUME SequenceInv, WriteEvidence PROVE SequenceInv'
  OBVIOUS
<1>1. /\ task = "evidence" /\ pc = "call" /\ script_exit = NotEnded /\ ScriptPhase
      /\ UNCHANGED <<vars, script, decisions, rootManifest>>
      /\ UNCHANGED <<attempt, authentication, entries>>
      /\ Put(Subjects(done))
      /\ done \in Indices /\ Len(decisions) = done + 1
      /\ CurrentFile = <<"evidence", done>> /\ CurrentFile \in OutputFiles
      /\ \/ task' = "ended" /\ script_exit' = 3 /\ done' = done
         \/ /\ task' = "bundle" /\ done' = done + 1 /\ done + 1 < checkpoint_count
            /\ script_exit' = script_exit
         \/ /\ task' = IF script = "demo" THEN "rows" ELSE "searching"
            /\ done' = 0 /\ script_exit' = script_exit /\ ~(done + 1 < checkpoint_count)
  BY NamedFiles DEF WriteEvidence, SequenceInv, ScriptPhase, DecisionsMade, CurrentFile, End, runVars
<1>2. /\ SearchInv' /\ SameArguments' /\ SealedIsStory'
      /\ Indices' = Indices /\ pc' = pc /\ cache' = cache /\ mode' = mode
      /\ checkpoint_count' = checkpoint_count
      /\ root'[<<"evidence", done>>] = Subjects(done)
      /\ \A f \in OutputFiles : f # <<"evidence", done>> => root'[f] = root[f]
      /\ root' = [f \in OutputFiles' |-> root'[f]]
  <2>1. script_exit' # 0
    BY <1>1 DEF NotEnded
  <2>2. UNCHANGED <<vars, script, rootManifest>> /\ Put(Subjects(done))
    BY <1>1
  <2>3. CurrentFile = <<"evidence", done>> /\ CurrentFile \in OutputFiles
    BY <1>1
  <2> QED BY <2>1, <2>2, <2>3, FileWritten
<1>3. ScriptPhase'
  BY <1>1, <1>2, BuildNumbers DEF ScriptPhase, AfterReports
<1>4. DecisionsMade'
  BY <1>1, <1>2, BuildNumbers DEF SequenceInv, DecisionsMade, AfterReports
<1>5. \A i \in Indices :
         /\ root'[<<"results", i>>] = root[<<"results", i>>]
         /\ root'[<<"bundle", i>>] = root[<<"bundle", i>>]
         /\ i # done => root'[<<"evidence", i>>] = root[<<"evidence", i>>]
  BY <1>2, NamedFiles
<1>6. ReportsAreOfAttempt'
  <2>1. ASSUME NEW i \in Indices, i < Len(decisions)
        PROVE  /\ IsReportOf(root'[<<"bundle", i>>], <<root'[<<"results", 0>>], root'[<<"results", i>>]>>,
                             decisions'[i + 1])
               /\ root'[<<"evidence", i>>] = <<root'[<<"results", 0>>], root'[<<"results", i>>]>>
    <3>1. /\ IsReportOf(root[<<"bundle", i>>], Subjects(i), decisions[i + 1])
          /\ i # done => root[<<"evidence", i>>] = Subjects(i)
      BY <1>1, <2>1 DEF SequenceInv, ReportsAreOfAttempt
    <3>2. <<root'[<<"results", 0>>], root'[<<"results", i>>]>> = Subjects(i)
      BY <1>1, <1>5, BuildNumbers DEF Subjects
    <3>3. root'[<<"evidence", i>>] = Subjects(i)
      BY <1>2, <1>5, <3>1
    <3> QED BY <1>1, <1>5, <3>1, <3>2, <3>3
  <2> QED BY <1>1, <1>2, <2>1 DEF ReportsAreOfAttempt, Subjects
<1>7. SearchIsOfAttempt'
  <2>1. \A i \in Indices : cache[i] = Unset
    BY <1>1 DEF SequenceInv, SearchInv, IInv, Asked
  <2> QED BY <1>1, <1>2, <2>1 DEF ScriptPhase, SearchIsOfAttempt
<1>8. ResultsAreOfAttempt' /\ EntriesAreSound'
  BY <1>1, <1>2, <1>5, BuildsStay
<1> QED BY <1>2, <1>3, <1>4, <1>6, <1>7, <1>8 DEF SequenceInv

LEMMA WriteRowsStep == SequenceInv /\ WriteRows => SequenceInv'
<1> SUFFICES ASSUME SequenceInv, WriteRows PROVE SequenceInv'
  OBVIOUS
<1>1. /\ task = "rows" /\ task' = "searching" /\ pc = "call" /\ script_exit = NotEnded
      /\ script = "demo" /\ ScriptPhase /\ DecisionsMade /\ done = 0
      /\ UNCHANGED <<vars, script, done, decisions, rootManifest, script_exit>>
      /\ UNCHANGED <<attempt, authentication, entries>>
      /\ Put(decisions)
      /\ CurrentFile = <<"rows", 0>> /\ CurrentFile \in OutputFiles
  BY NamedFiles DEF WriteRows, SequenceInv, ScriptPhase, SearchIsOfAttempt, CurrentFile, AfterReports,
                    runVars
<1>2. /\ SearchInv' /\ SameArguments' /\ SealedIsStory'
      /\ Indices' = Indices /\ pc' = pc /\ cache' = cache /\ mode' = mode
      /\ checkpoint_count' = checkpoint_count
      /\ root'[<<"rows", 0>>] = decisions
      /\ \A f \in OutputFiles : f # <<"rows", 0>> => root'[f] = root[f]
      /\ root' = [f \in OutputFiles' |-> root'[f]]
  BY <1>1, FileWritten DEF NotEnded
<1>3. ScriptPhase' /\ DecisionsMade'
  BY <1>1, <1>2 DEF ScriptPhase, DecisionsMade, AfterReports
<1>4. ReportsAreOfAttempt'
  BY <1>1, <1>2, NamedFiles, ReportsStay DEF vars
<1>5. SearchIsOfAttempt'
  <2>1. \A i \in Indices : cache[i] = Unset
    BY <1>1 DEF SequenceInv, SearchInv, IInv, Asked
  <2> QED BY <1>1, <1>2, <2>1 DEF SearchIsOfAttempt
<1>6. ResultsAreOfAttempt' /\ EntriesAreSound'
  BY <1>1, <1>2, NamedFiles, BuildsStay
<1> QED BY <1>2, <1>3, <1>4, <1>5, <1>6 DEF SequenceInv

LEMMA SearchBuildsStep == SequenceInv /\ SearchBuilds => SequenceInv'
<1> SUFFICES ASSUME SequenceInv, SearchBuilds PROVE SequenceInv'
  OBVIOUS
<1>1. /\ task = "searching" /\ [Next]_vars
      /\ UNCHANGED <<script, task, done, decisions, root, rootManifest, script_exit>>
      /\ UNCHANGED <<attempt, authentication, entries>>
      /\ \A i \in Indices : cache'[i] # cache[i] => cache'[i] = Told(i)
      /\ ScriptPhase /\ script_exit = NotEnded
  BY DEF SearchBuilds, sequenceVars, runVars, SequenceInv, ScriptPhase
<1>2. SearchInv' /\ UNCHANGED arguments
  BY <1>1, SearchInvStep, ArgumentsStay DEF SequenceInv
<1>3. /\ Indices' = Indices /\ OutputFiles' = OutputFiles /\ mode' = mode
      /\ checkpoint_count' = checkpoint_count /\ SameArguments'
  BY <1>2, ListStays DEF SequenceInv
<1>4. ScriptPhase' /\ DecisionsMade'
  BY <1>1, <1>3 DEF SequenceInv, ScriptPhase, DecisionsMade, AfterReports
<1>5. ReportsAreOfAttempt'
  BY <1>1, <1>2, ReportsStay
<1>6. SearchIsOfAttempt'
  <2>1. \A i \in Indices : cache'[i] # Unset => cache'[i] = Told(i)
    BY <1>1 DEF SequenceInv, SearchIsOfAttempt
  <2> QED BY <1>1, <1>3, <2>1 DEF SequenceInv, SearchIsOfAttempt, Told
<1>7. SealedIsStory'
  BY <1>1, <1>2, SealStays DEF SequenceInv, NotEnded
<1>8. ResultsAreOfAttempt' /\ EntriesAreSound'
  BY <1>1, <1>3, BuildsStay
<1> QED BY <1>2, <1>3, <1>4, <1>5, <1>6, <1>7, <1>8 DEF SequenceInv

LEMMA WriteSearchStep == SequenceInv /\ WriteSearch => SequenceInv'
<1> SUFFICES ASSUME SequenceInv, WriteSearch PROVE SequenceInv'
  OBVIOUS
<1>1. /\ task = "searching" /\ task' = "search" /\ pc = "done" /\ script_exit = NotEnded
      /\ UNCHANGED <<vars, script, done, decisions, root, rootManifest, script_exit>>
      /\ UNCHANGED <<attempt, authentication, entries>>
  BY DEF WriteSearch, SequenceInv, ScriptPhase, runVars
<1>2. /\ SearchInv' /\ SameArguments' /\ SealedIsStory' /\ Indices' = Indices
      /\ OutputFiles' = OutputFiles /\ pc' = pc /\ cache' = cache /\ mode' = mode
      /\ checkpoint_count' = checkpoint_count
  BY <1>1, ScriptStays DEF NotEnded
<1>3. ScriptPhase' /\ DecisionsMade'
  BY <1>1, <1>2 DEF SequenceInv, ScriptPhase, DecisionsMade, AfterReports
<1>4. ReportsAreOfAttempt'
  BY <1>1, ReportsStay DEF vars
<1>5. SearchIsOfAttempt'
  BY <1>1, <1>2 DEF SequenceInv, SearchIsOfAttempt, Told
<1>6. ResultsAreOfAttempt' /\ EntriesAreSound'
  BY <1>1, <1>2, BuildsStay
<1> QED BY <1>2, <1>3, <1>4, <1>5, <1>6 DEF SequenceInv

LEMMA WriteResultStep == SequenceInv /\ WriteResult => SequenceInv'
<1> SUFFICES ASSUME SequenceInv, WriteResult PROVE SequenceInv'
  OBVIOUS
<1>1. /\ task = "search" /\ task' = "receipt" /\ script_exit = NotEnded /\ done = 0
      /\ UNCHANGED <<vars, script, done, decisions, rootManifest, script_exit>>
      /\ UNCHANGED <<attempt, authentication, entries>>
      /\ Put(FirstBad)
      /\ CurrentFile = <<"search", 0>> /\ CurrentFile \in OutputFiles
      /\ ScriptPhase /\ DecisionsMade
  BY NamedFiles DEF WriteResult, SequenceInv, ScriptPhase, CurrentFile, AfterReports, runVars
<1>2. /\ SearchInv' /\ SameArguments' /\ SealedIsStory'
      /\ Indices' = Indices /\ pc' = pc /\ cache' = cache /\ mode' = mode
      /\ result' = result /\ checkpoint_count' = checkpoint_count
      /\ root'[<<"search", 0>>] = FirstBad
      /\ \A f \in OutputFiles : f # <<"search", 0>> => root'[f] = root[f]
      /\ root' = [f \in OutputFiles' |-> root'[f]]
  BY <1>1, FileWritten DEF NotEnded
<1>3. ScriptPhase' /\ DecisionsMade'
  BY <1>1, <1>2 DEF ScriptPhase, DecisionsMade, AfterReports
<1>4. ReportsAreOfAttempt'
  BY <1>1, <1>2, NamedFiles, ReportsStay DEF vars
<1>5. SearchIsOfAttempt'
  <2>1. root'[<<"rows", 0>>] = root[<<"rows", 0>>]
    BY <1>2, NamedFiles
  <2> QED BY <1>1, <1>2, <2>1 DEF SequenceInv, SearchIsOfAttempt, Told, FirstBad
<1>6. ResultsAreOfAttempt' /\ EntriesAreSound'
  BY <1>1, <1>2, NamedFiles, BuildsStay
<1> QED BY <1>2, <1>3, <1>4, <1>5, <1>6 DEF SequenceInv

LEMMA WriteReceiptStep == SequenceInv /\ WriteReceipt => SequenceInv'
<1> SUFFICES ASSUME SequenceInv, WriteReceipt PROVE SequenceInv'
  OBVIOUS
<1>1. /\ task = "receipt" /\ task' = "manifest" /\ script_exit = NotEnded /\ done = 0
      /\ script = "vertical" /\ ScriptPhase /\ DecisionsMade
      /\ UNCHANGED <<vars, script, done, decisions, rootManifest, script_exit>>
      /\ UNCHANGED <<attempt, authentication, entries>>
      /\ Put(Summary)
      /\ CurrentFile = <<"receipt", 0>> /\ CurrentFile \in OutputFiles
  BY NamedFiles DEF WriteReceipt, SequenceInv, ScriptPhase, CurrentFile, AfterReports, runVars
<1>2. /\ SearchInv' /\ SameArguments' /\ SealedIsStory'
      /\ Indices' = Indices /\ pc' = pc /\ cache' = cache /\ mode' = mode
      /\ result' = result /\ checkpoint_count' = checkpoint_count
      /\ root'[<<"receipt", 0>>] = Summary
      /\ \A f \in OutputFiles : f # <<"receipt", 0>> => root'[f] = root[f]
      /\ root' = [f \in OutputFiles' |-> root'[f]]
  BY <1>1, FileWritten DEF NotEnded
<1>3. ScriptPhase' /\ DecisionsMade'
  BY <1>1, <1>2 DEF ScriptPhase, DecisionsMade, AfterReports
<1>4. ReportsAreOfAttempt'
  BY <1>1, <1>2, NamedFiles, ReportsStay DEF vars
<1>5. SearchIsOfAttempt'
  <2>1. root'[<<"search", 0>>] = root[<<"search", 0>>]
    BY <1>2, NamedFiles
  <2> QED BY <1>1, <1>2, <2>1 DEF SequenceInv, SearchIsOfAttempt, Told, FirstBad, Summary
<1>6. ResultsAreOfAttempt' /\ EntriesAreSound'
  BY <1>1, <1>2, NamedFiles, BuildsStay
<1> QED BY <1>2, <1>3, <1>4, <1>5, <1>6 DEF SequenceInv

LEMMA WriteSummaryStep == SequenceInv /\ WriteSummary => SequenceInv'
<1> SUFFICES ASSUME SequenceInv, WriteSummary PROVE SequenceInv'
  OBVIOUS
<1>1. /\ task = "receipt" /\ task' = "ended" /\ script_exit' = 0 /\ done = 0
      /\ script = "demo" /\ ScriptPhase /\ DecisionsMade
      /\ UNCHANGED <<vars, script, done, decisions, rootManifest>>
      /\ UNCHANGED <<attempt, authentication, entries>> /\ Put(Summary)
      /\ CurrentFile = <<"receipt", 0>> /\ CurrentFile \in OutputFiles
      /\ root = [f \in OutputFiles |-> root[f]]
  BY NamedFiles DEF WriteSummary, SequenceInv, ScriptPhase, CurrentFile, AfterReports, End,
                    runVars
<1>2. /\ SearchInv' /\ SameArguments' /\ Indices' = Indices /\ OutputFiles' = OutputFiles
      /\ mode' = mode /\ checkpoint_count' = checkpoint_count
  BY <1>1, ScriptStays
<1>3. /\ root'[<<"receipt", 0>>] = Summary
      /\ \A f \in OutputFiles : f # <<"receipt", 0>> => root'[f] = root[f]
      /\ root' = [f \in OutputFiles' |-> root'[f]]
  BY <1>1, <1>2, PutEffect
<1>4. ScriptPhase' /\ DecisionsMade'
  BY <1>1, <1>2, <1>3 DEF ScriptPhase, DecisionsMade, AfterReports
<1>5. ReportsAreOfAttempt' /\ SearchIsOfAttempt'
  BY <1>1 DEF ReportsAreOfAttempt, SearchIsOfAttempt
<1>6. StoryTold(root')
  BY <1>1, <1>3, ReceiptConcludes
<1>7. SealedIsStory'
  BY <1>1, <1>2, <1>6 DEF SealedIsStory, StoryTold
<1>8. ResultsAreOfAttempt' /\ EntriesAreSound'
  BY <1>1, <1>2, BuildsStay
<1> QED BY <1>2, <1>4, <1>5, <1>7, <1>8 DEF SequenceInv

LEMMA SealRootStep == SequenceInv /\ SealRoot => SequenceInv'
<1> SUFFICES ASSUME SequenceInv, SealRoot PROVE SequenceInv'
  OBVIOUS
<1>1. /\ task = "manifest" /\ task' = "ended" /\ script = "vertical"
      /\ UNCHANGED <<vars, script, done, decisions, root, attempt, authentication, entries>>
      /\ \/ rootManifest' = [files |-> root, cached |-> entries, first_bad |-> FirstBad] /\ script_exit' = 0
         \/ rootManifest' = rootManifest /\ script_exit' = 3
      /\ ScriptPhase /\ DecisionsMade /\ root[<<"receipt", 0>>] = Summary
  BY DEF SealRoot, SequenceInv, ScriptPhase, SearchIsOfAttempt, End, runVars
<1>2. UNCHANGED arguments /\ SearchInv' /\ SameArguments'
  BY <1>1, SearchStays DEF SequenceInv, vars
<1>3. /\ Indices' = Indices /\ OutputFiles' = OutputFiles
      /\ mode' = mode /\ checkpoint_count' = checkpoint_count
  BY <1>2, ListStays
<1>4. ScriptPhase' /\ DecisionsMade'
  BY <1>1, <1>3 DEF ScriptPhase, DecisionsMade, AfterReports
<1>5. ReportsAreOfAttempt' /\ SearchIsOfAttempt'
  BY <1>1 DEF ReportsAreOfAttempt, SearchIsOfAttempt
<1>6. SealedIsStory'
  <2>1. CASE rootManifest' = [files |-> root, cached |-> entries, first_bad |-> FirstBad]
    <3>1. StoryTold(root) /\ root[<<"receipt", 0>>].first_bad = FirstBad
      BY <1>1, ReceiptConcludes
    <3> QED BY <1>1, <1>3, <2>1, <3>1 DEF SealedIsStory, StoryTold
  <2>2. CASE rootManifest' = rootManifest /\ script_exit' = 3
    BY <1>1, <1>2, <2>2, SealStays DEF SequenceInv
  <2> QED BY <1>1, <2>1, <2>2
<1>7. ResultsAreOfAttempt' /\ EntriesAreSound'
  BY <1>1, <1>3, BuildsStay
<1> QED BY <1>2, <1>4, <1>5, <1>6, <1>7 DEF SequenceInv

LEMMA StopScriptStep == SequenceInv /\ StopScript => SequenceInv'
<1> SUFFICES ASSUME SequenceInv, StopScript PROVE SequenceInv'
  OBVIOUS
<1>1. /\ task' = "ended" /\ script_exit' \in {1, 3}
      /\ UNCHANGED <<vars, script, done, decisions, rootManifest, attempt, authentication>>
      /\ entries' \in IF task = "bundle" THEN PartlyFilled(done) ELSE {entries}
      /\ root' \in {root} \cup {[root EXCEPT ![f] = Damaged] : f \in OutputFiles \cap {CurrentFile}}
      /\ ScriptPhase /\ DecisionsMade
  BY DEF StopScript, SequenceInv, End, runVars
<1>2. /\ SearchInv' /\ SameArguments' /\ SealedIsStory' /\ Indices' = Indices
      /\ OutputFiles' = OutputFiles /\ mode' = mode /\ checkpoint_count' = checkpoint_count
  BY <1>1, ScriptStays
<1>3. root' = [f \in OutputFiles' |-> root'[f]]
  <2> DEFINE F == OutputFiles
  <2>1. root = [f \in F |-> root[f]] /\ \E f \in F : root' \in {root, [root EXCEPT ![f] = Damaged]}
    BY <1>1, NamedFiles DEF ScriptPhase
  <2> HIDE DEF F
  <2>2. root' = [f \in F |-> root'[f]]
    BY <2>1
  <2> QED BY <1>2, <2>2 DEF F
<1>4. ScriptPhase' /\ DecisionsMade'
  BY <1>1, <1>2, <1>3 DEF ScriptPhase, DecisionsMade, AfterReports
<1>5. ReportsAreOfAttempt' /\ SearchIsOfAttempt'
  BY <1>1 DEF ReportsAreOfAttempt, SearchIsOfAttempt
<1>6. ResultsAreOfAttempt'
  BY <1>1 DEF ResultsAreOfAttempt
<1>7. EntriesAreSound'
  <2>1. Sound(entries')
    BY <1>1, FilledIsSound DEF SequenceInv, EntriesAreSound, ScriptPhase
  <2> QED BY <1>1, <2>1 DEF SequenceInv, EntriesAreSound, Sound, Authentications
<1> QED BY <1>2, <1>4, <1>5, <1>6, <1>7 DEF SequenceInv

LEMMA RunScriptAgainStep == SequenceInv /\ RunScriptAgain => SequenceInv'
<1> SUFFICES ASSUME SequenceInv, RunScriptAgain PROVE SequenceInv'
  OBVIOUS
<1>1. /\ task' = "results" /\ done' = 0 /\ decisions' = <<>> /\ script_exit' = NotEnded
      /\ pc' = "call" /\ UNCHANGED <<arguments, script, root, entries, rootManifest>> /\ ScriptPhase
      /\ attempt' = attempt + 1 /\ authentication' \in Authentications(attempt + 1)
  BY DEF RunScriptAgain, SequenceInv
<1>2. /\ Indices' = Indices /\ OutputFiles' = OutputFiles /\ mode' = mode
      /\ checkpoint_count' = checkpoint_count /\ SameArguments'
  BY <1>1, ListStays DEF SequenceInv
<1>3. Init'
  BY <1>2 DEF RunScriptAgain, Init, SameArguments
<1>4. SearchInv'
  BY <1>3, SearchInvInit, PTL
<1>5. ScriptPhase'
  BY <1>1, <1>2, BuildNumbers DEF ScriptPhase, AfterReports
<1>6. DecisionsMade' /\ ReportsAreOfAttempt'
  BY <1>1, <1>2, BuildNumbers DEF DecisionsMade, ReportsAreOfAttempt, AfterReports
<1>7. SearchIsOfAttempt' /\ SealedIsStory'
  BY <1>1, SealStays DEF SearchIsOfAttempt, SequenceInv, NotEnded
<1>8. ResultsAreOfAttempt'
  BY <1>1, <1>2, BuildNumbers DEF ResultsAreOfAttempt
<1>9. EntriesAreSound'
  BY <1>1 DEF SequenceInv, EntriesAreSound, Sound, Authentications
<1> QED BY <1>2, <1>4, <1>5, <1>6, <1>7, <1>8, <1>9 DEF SequenceInv

LEMMA SequenceInvStep == SequenceInv /\ [SequenceNext]_buildVars => SequenceInv'
<1> SUFFICES ASSUME SequenceInv, [SequenceNext]_buildVars PROVE SequenceInv'
  OBVIOUS
<1>1. CASE UNCHANGED buildVars
  <2>1. /\ UNCHANGED <<vars, script, task, done, decisions, root, rootManifest, script_exit>>
        /\ UNCHANGED <<attempt, authentication, entries>>
    BY <1>1 DEF buildVars, sequenceVars, runVars
  <2>2. /\ SearchInv' /\ SameArguments' /\ Indices' = Indices /\ OutputFiles' = OutputFiles
        /\ pc' = pc /\ cache' = cache /\ result' = result /\ mode' = mode
        /\ checkpoint_count' = checkpoint_count
    BY <2>1, ScriptStays
  <2>3. ScriptPhase' /\ DecisionsMade'
    BY <2>1, <2>2 DEF SequenceInv, ScriptPhase, DecisionsMade
  <2>4. ReportsAreOfAttempt' /\ SearchIsOfAttempt'
    BY <2>1, <2>2 DEF SequenceInv, ReportsAreOfAttempt, SearchIsOfAttempt, Subjects, Told, FirstBad,
                      Summary
  <2>5. SealedIsStory'
    BY <2>1, <2>2 DEF SequenceInv, SealedIsStory, StoryTold
  <2>6. ResultsAreOfAttempt' /\ EntriesAreSound'
    BY <2>1, <2>2 DEF SequenceInv, ResultsAreOfAttempt, EntriesAreSound, Sound, Authentications
  <2> QED BY <2>2, <2>3, <2>4, <2>5, <2>6 DEF SequenceInv
<1> QED BY <1>1, PrepareBuildStep, CompareBuildStep, WriteEvidenceStep, WriteRowsStep,
           SearchBuildsStep, WriteSearchStep, WriteResultStep, WriteReceiptStep, WriteSummaryStep,
           SealRootStep, StopScriptStep, RunScriptAgainStep DEF SequenceNext

\* The invariant of the scripts: which files of the directory are of this attempt,
\* what the entries of its caches are of, whichever attempt made them, and that a
\* manifest describes a directory that tells one story.
THEOREM SequenceInvariance == SequenceSpec => []SequenceInv
<1>1. SequenceInit => SequenceInv
  BY SequenceInvInit
<1>2. SequenceInv /\ [SequenceNext]_buildVars => SequenceInv'
  BY SequenceInvStep
<1> QED BY <1>1, <1>2, PTL DEF SequenceSpec

\* A directory that verifies, for builds, cases and attempts of any number, tells
\* one story: the reports, the receipt, the search and the manifest are of one
\* attempt, whichever attempts stopped before it and wherever, and a report rests on
\* the results beside it or, if it says that its cache was shared, on those of an
\* earlier attempt for the very same engine (run_vertical.py, run_demo.py, cache.py).
THEOREM AcceptedRootIsStory == SequenceSpec => []RootTellsOneStory
<1>1. SequenceInv => RootTellsOneStory
  <2> SUFFICES ASSUME SequenceInv, IsAccepted PROVE RootTellsOneStory
    BY DEF RootTellsOneStory
  <2>1. /\ StoryTold(root)
        /\ script = "vertical" => rootManifest.first_bad = root[<<"receipt", 0>>].first_bad
    BY DEF SequenceInv, SealedIsStory, ScriptPhase, IsAccepted
  <2> QED BY <2>1 DEF RootTellsOneStory, StoryTold, StoryOf, Decided, Subjects
<1> QED BY <1>1, SequenceInvariance, PTL
=============================================================================
