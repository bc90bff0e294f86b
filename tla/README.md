# Verification of Merriv

Merriv (`src/src/merriv`, Python) compares a candidate model with a baseline on a
suite of cases, judges the difference with a statistical gate, publishes the
verdict as a Model Change Report (MCR) bundle that others can verify, and locates
the checkpoint of a sequence at which a regression begins.  This directory holds
TLA+ models of that program, the TLC runs that check them and proofs that TLAPS
checks.  `PROJECT.json` lists the components, the runs, the source lines each
definition stands for, the hazards of the code and the theorems.

## 1. The system

| Part | State it keeps | Operations | Talks to |
|---|---|---|---|
| Localisation engine `bisect/engine.py` | cache of answers, requests made, interval or audit schedule | `bisect_regression` | a callback per checkpoint |
| `bisect` command `cli.py` | rows of the manifest | replace the mode, run the engine, print, exit code | engine |
| Execution-driven localisation `bisect/execution.py` | completed checkpoints, report directories | `execute_bisect` | engine, pipeline, bundle writer |
| Observation cache `engine/cache.py` | files on disk, one per key; a key for the authentication tags | `get`, `put` | processes that share the directory |
| Paired runner `engine/runner.py` | hits and misses of each side | `run`, `_run_side`, `_validate_observations` | cache, execution backend, adapter |
| Gate `gate/policy.py` | none: a function of evidence and policy | `evaluate_gate`, Holm correction | pipeline |
| Statistics `stats/paired.py` | none | intervals, tests, minimum detectable effects | pipeline |
| Pipeline `pipeline.py`, `evidence.py` | none beyond a call | compile, run, analyse, gate, report | all of the above |
| Bundle writer `reports/io.py` | six files of a directory | `write_report_bundle` | anyone who reads the directory |
| Bundle verifier `reports/verify.py` | documents verified so far, byte budget, warnings | `verify_report_bundle` | bundle directory |
| Report contracts `reports/models.py`, identities `core/identity.py` | none | content-derived identifiers; reading a file while checking it does not change | all |
| Release plans `planning/` | none | bind rules to metrics, expand slices | registry, pipeline |
| Plugin registry `plugins/registry.py` | four tables with capacities | `register_*`, lookups with drift checks | planner, pipeline |
| OpenAI-compatible adapter `adapters/openai_compatible.py` | deadline, attempt counter | `run` with retries | an HTTP server |
| OCI layout `oci.py`, attestations `attestation.py` | blobs and an index on disk | `create_mcr_oci_layout` | report, other writers of the destination |
| Target bundles `target.py` | retained files and a manifest | create, write, verify | verifier |
| Conformance `conformance.py` | none | producer vectors, consumer receipts | verifier |
| Build sequence scripts `examples/*/run_vertical.py`, `run_demo.py` | the output directory | judge every build, search, seal | all of the above |
| Artifacts, importers, loaders, rendering, metrics | none | parsing, formatting, scoring | - |

The behaviours that are hard here: several processes share a cache directory and
a report directory with no lock; every single file is replaced atomically but a
bundle is six of them; a run may die between any two file operations and be
started again; one side of a paired run may fail after the other has stored its
observations; a backend may return too much, too little or another case's
answer; a verdict is the outcome of a long case analysis in which an error must
never end as a success; a search asks an unreliable oracle for a few points of a
long list; plug-ins say what they are anew each time they are asked; and whoever
verifies reads many files one after another while others may write them.

## 2. What makes each part correct

* Engine: an outcome is justified by what was observed, an uncertain answer
  always surfaces, one checkpoint has one status, O(log n) callbacks, termination.
* Cache and runner: evidence is only paired with evidence of the same case, seed
  and snapshot; what is stored was validated; a failed run stores nothing
  unvalidated; a stored entry is what some process really observed.
* Gate: insufficient evidence and errors never become PASS; Holm's step-down
  procedure rejects exactly what the textbook procedure rejects; exit codes.
* Bundle writer and verifier: whatever a reader accepts as one report was
  written by one run.
* Execution-driven localisation: each answered checkpoint has its report.
* Adapter: only what failed is asked for again, pauses and answers respect the
  deadline of the case, every run ends.
* Statistics: interval and test of one metric say the same, levels are nested.
* Registry: a registration is all or nothing, names are unambiguous, capacities
  hold.
* Pipeline: what is analysed is what was planned, every block is explained by
  evidence the manifest holds, equal runs have equal identities.
* Verification of evidence, of one file, of a target root: every claim ends in
  bytes that were read, and what was read was there at one moment.
* OCI layout: an index names only what is there, a retry completes what a crash
  interrupted.
* Conformance: what is certified is the normative vector.
* Build sequences: reports, receipt, search and seal of a directory tell one story.

## 3. The modules

| Module | Models | Builds on |
|---|---|---|
| `OnsetSearch` | abstract: what a localisation promises, with no strategy | - |
| `Bisect` | one call of `bisect_regression` | implements `OnsetSearch` |
| `BisectCommand` | the `bisect` command | extends `Bisect` |
| `ExecutedBisect` | the `bisect-run` command and its files | extends `Bisect` |
| `PairedEvidence` | abstract: what paired execution promises, with no cache and no backend | - |
| `ObservationCache` | the files of the cache and what reads as a hit | - |
| `PairedRun` | processes that run both sides of a comparison over one cache | extends `ObservationCache`, implements `PairedEvidence` |
| `Gate` | `evaluate_gate`, the levels the pipeline computes, the exit code | - |
| `PairedStatistics` | the evidence of one metric: bootstrap, McNemar, Tango | - |
| `Registry` | registration and lookup of plug-ins | - |
| `ReleasePlan` | the release plan compiler | extends `Registry` |
| `Comparison` | `compare_release` and the commands around it | extends `ReleasePlan` |
| `ReportBundle` | writers of one report directory, verifiers that read it | - |
| `EvidenceBundle` | verification of the evidence a bundle declares | - |
| `VerifiedFile` | `read_verified_file` against a file that changes | - |
| `TargetBundle` | manifest of a target root: making, writing, verifying | - |
| `OciLayout` | writers of an OCI layout | - |
| `Conformance` | producer vectors and consumer receipts | - |
| `BuildSequence` | the two scripts that judge a sequence of builds | extends `Bisect` |
| `RemoteAdapter` | one run of the OpenAI-compatible adapter | - |
| `BisectProofs`, `RemoteAdapterProofs`, `PairedRunProofs` | theorems and proofs | extend the module they are named after |
| `EvaluationProofs` | proofs of the gate and of the evidence it judges | extends `Gate`, `PairedStatistics` |
| `BisectCommandProofs` | proofs of the three programs around the search | extends `BisectProofs`, `BisectCommand`, `ExecutedBisect`, `BuildSequence` |
| `ComparisonProofs` | proofs of the registry and the comparison | extends `Comparison` |
| `FileProofs` | proofs of what is on disk and read from it | extends `VerifiedFile`, `OciLayout`, `TargetBundle` |
| `ReportProofs` | proofs of what a reader of results may rely on | extends `ReportBundle`, `EvidenceBundle`, `Conformance` |
| `MC*` | constants for TLC, and which programs one run puts together | extend the modules they instantiate |

The model is cut where the code hands over a finished value: a report directory, a
decision, the answer of a backend, the evidence of a metric.  Programs that never
run against each other's state share a run all the same: `MCBisectCommands`,
`MCDistribution` and `MCEvaluation` choose one program at the start, which then
acts alone while the variables of the others rest in one state.

Operators `X_Variant` that stand before a definition `X` are plausible bugs of that
definition.  `PROJECT.json` names for every property one of them that breaks it.

### Localisation: `Bisect`, `OnsetSearch`

The variables are the arguments, the local variables of `engine.py` and the
`_CachedEvaluator` (`cache`, `requests`).  Each `evaluator.get` is a step, because
the callback behind it may run a model; the reply is chosen at that step from the
four statuses, the gate's `insufficient_power`, an unsupported value and an
exception.  `pc` goes from `call` (argument checks) through `first` and `last` (the
endpoint requests) to `search` (halving) or `plan` and `audit` (sparse or linear
schedule) and ends in `done` or `rejected`.

`OnsetSearch` keeps only the set of onsets no observation has ruled out.
`KeepsPromise` maps a search to it: `possible` is the set of onsets that agree with
all decisive statuses, the claim is read off the result.  Every request is an
`Observe` step (or a stutter), every result a `Conclude` step whose claim the
onsets still possible justify.

`BisectCommand` adds the manifest, the replacement of the mode by a linear audit
when a row is uncertain or a reversal is known, the printed confidence and the
exit code.  `ExecutedBisect` adds the callback that executes a checkpoint, gates it
and writes its report, the completed checkpoints, the result document (opened,
which truncates it, then written) and further runs of the command over the files
earlier runs left.

### Evidence: `ObservationCache`, `PairedRun`, `PairedEvidence`

A cache file is absent, damaged (or of another format), or an envelope: key,
observation and the HMAC key it was authenticated with.  `get` is one read.  `put`
is what the code does, operation by operation: look for the root directory, make
it, look for the shard, make it, write the temporary file, replace the entry or
unlink the temporary file.  Other processes act between any two of them, and a
process may die before any of them, which loses its memory and leaves the disk.

A process validates its suite, describes the executor of a side, looks its cases
up, executes what is missing, validates the whole answer and stores it entry by
entry; then it runs the candidate in the same way.  A backend may answer with any
sequence up to `MaxReturned` over a set `Returned` of right and wrong
observations, or raise.  `PairedEvidence` states what must come out whatever
happens: a run fails, or ends with one observation for every side and case, each
made by some real execution of just that request under the HMAC key of the run.

### Verdict: `Gate`

A state is one evaluation: the estimates of every rule and the policy are chosen
in `Init`; `Adjust` is one iteration of Holm's loop, then `Decide`, `Aggregate`
and `Report` follow.  Probabilities are integers on a scale of `Scale`, compared
exactly.  The estimate of a rule is abstracted to what the gate compares: whether
evidence, samples, a test and power are there, its p-value, and on which side of
the margin the interval lies, for each level the pipeline computed.

### Publication: `ReportBundle`

A writer checks the identities of plan and manifest against the report, makes the
directory if it saw none and replaces the six files in order (`queue` is what it has left,
`NextFile` the first of them in the order of the code); it may fail at each
file, die between any two, and be run again with newly measured evidence.  A
reader takes report, manifest and plan in the verifier's order, between the steps
of the writers.  Each file is examined (`ExamineFile`, the `lstat` of
`read_verified_file`) and then opened (`Open`); `Overtake` is what a replacement does
to a reader in between, who refuses the file (`RefuseReplaced`) unless a second replacement
has brought the inode number back.  What is open is read as it was when it was opened,
since writers never write in place.  `Emit` is the second reading of
`_load_strict_mcr`, which is a plain one.

### Localisation in scripts: `BuildSequence`

`run_vertical.py` and `run_demo.py` make and compare every build before they
search, so all decisions are known to `Bisect`, whose callback only looks them up.
`task` is where a script is (builds, search, receipt, reports, seal, verification),
`root` what the output directory holds; the script may stop anywhere and be run
again into the same directory, where it overwrites some files and keeps others.
Among those it keeps are the observation caches: one in each report directory of
`run_vertical.py`, a single one of `run_demo.py`.  `entries` is what they hold, and
`authentication` the key of the attempt, which is its own or that of
`MERRIV_CACHE_KEY`.  A comparison takes what its key finds (`Hits`), executes and
stores the rest (`Stored`), and may be cut short after any entry (`PartlyFilled`).
A result is an engine and the attempt that executed it: with a shared key an
attempt that finds a bit-identical engine reports observations of an earlier one beside
the results it has just recorded.  `RootTellsOneStory` says when that may be: only in
a report that names its cache as shared (`_report_limitations`), and only for the
very same engine.

### Evidence of a metric: `PairedStatistics`

Two kinds of input, chosen in `Init`: counts of the four outcomes of a binary
metric, or differences of a numeric one.  The random resamples and sign flips are
any resamples and flips.  Arithmetic is exact, in integers: a null value is a
fraction, the score test is compared squared, and a sum of binomials is the number
of subsets it counts (`Choices`).  `phase` goes through the bootstrap
(one resample per step, then the interval of every level) or through the inversion
of Tango's test, one halving per step and bound as in the code, to the test.

### Plug-ins, plan and comparison: `Registry`, `ReleasePlan`, `Comparison`

An object is a model value whose description (`described`) may change between any
two steps (`drifts`).  Registration asks the object, compares with the manifest,
checks names and capacities in the code's order and commits; lookups compare the
description of now with that of the registration.  `Compiles` and `Plan` are
operators: the code's checks in order, on what the metrics say at that moment.
`LookUp` and `Compile` are two steps, since `registry.metrics()` compares a metric
with its registration and `_declare_metrics` of the compiler asks it once more
without comparing.  A metric that changes in between (`strayed` is the history of
such runs) is planned and analysed with its new terms; what holds then is
`AnalysedAsPlanned`: the rules are bound to just these terms, and no later change
reaches the analysis.
`Comparison` walks through `compare_release`: lookup, plan, paired run (one step
with any outputs; its proceeding is `PairedRun`'s), the groups of every metric and
slice, findings, evidence sets with their identities, manifest and report, then the
exit code; the same request may be run again with equal outputs and other
latencies.  Identities are the contents they digest, so two are equal exactly when
the contents are.  The cases of a group are a set: the code keeps them in the order of
the suite, which nothing but the digest of the group depends on, and that order is the
same in every run of one suite.

### Carrying results: `EvidenceBundle`, `VerifiedFile`, `TargetBundle`, `OciLayout`, `Conformance`

* `EvidenceBundle`: each declared reference is classified, read and recorded, then
  each file its document binds is hashed, one step each; links are checked at the
  end.  An editor may change any file in between; `hashed` is a history of the
  bytes read.  `Ancestry` is the closure under parents that the code reaches by
  following them one by one.
* `VerifiedFile`: a path names an inode; an inode has content and modification
  time, a clock tick may contain several writes.  The steps are those of the code:
  examine the path, open, examine the descriptor, read chunk by chunk, examine
  again.  The editor replaces the file, puts a link there or leaves any content in
  place.
* `TargetBundle`: the tree is listed, then hashed file by file, the reports are
  verified, the manifest is written through a temporary file and everything is
  verified again; others edit the tree, the writer may die before the replacement.
* `OciLayout`: five files in place per layout: look, open (which truncates), fill.
  Writers overlap, die between opening and filling, and are run again, also with
  another report.
* `Conformance`: each vector is verified and its report read a second time and
  compared with the normative one; then the negatives, then the consumer's receipt.
  The suite may be edited between any two readings.

### Remote execution: `RemoteAdapter`

`Tick` lets time pass between any two steps.  `elapsed` counts from the start of a
case and saturates at its deadline, since the code tells later times not apart;
`timer` is what is left of the timeout of the current network operation or of the
current pause.  An attempt is a request to the endpoint (external), which may
carry it out at any later time or never; a success needs that it was carried out.
The response is one of success, retryable (429 and 5xx) and any other; a body is
read chunk by chunk up to `max_response_bytes`.  Parsing, the scan for secrets and
the extraction of the text are one step each that may fail.  `ended` is a history
variable.  `PairedRun` uses an adapter only through its answer.

## 4. Runs

| Run | Bounds | Shows |
|---|---|---|
| `bisect` | 0 to 6 checkpoints, 1 to 4 sparse points, all modes | uncertainty always surfaces, an exhaustive audit is exact, O(log n) questions, refinement of `OnsetSearch`, termination |
| `bisect_commands` | `bisect`: 0 to 5 rows, every manifest; `bisect-run`: up to 3 checkpoints, 2 runs; scripts: 2 measurements, 3 decisions, 2 cases, 1 shared key; 3 attempts with 1 build, 2 with 2, 1 with 3 | exit code and published onset are right for every row, also those the search did not ask for; a conclusive search rests on reports of its own run; rows name the reports that are there; an accepted directory tells one story, and its reports rest on the results in it or on cached ones of the same engines |
| `paired_run` | 3 processes, 2 cases, 2 snapshots, 1 restart | refinement of `PairedEvidence`; a validated batch is storable; entries never degrade |
| `evaluation` | 5 binary or 3 numeric pairs, 3 levels, 4 halvings, 3 resamples, exact tests up to 2 differences; 3 rules, 3 policies | the interval separates what the test separates; McNemar is the sign test; levels are nested and agree with the test; Holm decides as the closed test; exit codes 0 and 2 are justified; the selected interval was computed |
| `release` | 5 plug-ins, 3 cases, 2 runs, 1 change of a description | the registry holds what it uses and is unambiguous; what is analysed was planned, and registered unless it changed between lookup and plan; blocks are explained; a replay of one plan keeps its identity |
| `distribution` | bundle: 2 writers, 1 restart, 1 reader; evidence: 2 edits; file: 2 inodes, 2 chunks to begin with and 3 at most, 2 edits of any extent, 2 ticks; target: 3 edits, 1 death; OCI: 2 writers, 3 layouts, 1 death; conformance: 2 edits | what verifies was published by one run, a rejection means a real mixture or a file replaced while it was being opened, a retry repairs; claims end in bytes read; a read is one version; an accepted target is exact; an index is backed, only torn blobs are refused; what is certified is normative |
| `remote_adapter` | 2 cases, 2 retries, 3 units of time | what is recorded is timely and the case's own; only failures are repeated; pauses leave time; every run ends |
| `bisect_reason`, `report_atomic`, `report_emitted`, `executed_reports`, `release_identity` | as above | the disagreements of section 6 |

Why the bounds are enough.  Six checkpoints are the first length at which a sparse
schedule leaves gaps on both sides of a reversal and halving needs three probes.
Three builds are the least with one before and one after the first bad one; a
second attempt needs no more than two of them, the baseline and a candidate, to find
entries of both sides, and a third attempt over one build separates keys of its own
from the shared one.  Two cases are the least of which one is cached and the other not.
Three rules give Holm's loop a first, a middle and a last rank with ties between
them, and the p-values lie on either side of each of its three thresholds.  Five
binary pairs cover every mixture of discordant counts up to the first that is
significant under a low level; four halvings move each end of the inversion in both
orders.  Two processes that race plus one of invalid suite, one restart, one
unstable case and two HMAC keys are what it takes for every pair of file operations
of `put` to meet another process's, a partial batch and a foreign entry.  The five
plug-ins are two metrics that compete for a name, one that may change, an executor
and an adapter, over tables with room for two metrics and one of each other kind.
Two writers and a restart give three publications, more than the two a reader's
mixture consists of; three layouts by two writers let a blob be shared, torn and
found again.  Two edits in one clock tick of a file of two chunks tear a read in
the middle, and one more tick tells such edits from noticeable ones.  Two
retries give an attempt before and after each kind of attempt, three units of time
allow a pause that just fits and one that just does not, and two cases show that
the deadline and the attempts of one do not leak into the next.  What is proved
(section 5) does not depend on these bounds.

Deadlock checking is off in every run because every modelled program ends: a call
returns, a command exits, a process has no further restart.  That they reach the
end is `Terminates` where fairness is assumed.

Fairness is assumed in two places.  `Bisect!FairSpec` has weak fairness of `Next`:
the engine is one thread, and a callback that returns lets it go on.
`RemoteAdapter!FairSpec` has weak fairness of the clock and of the adapter's own
steps (`Client`: begin, time out, wake, parse, record); nothing is assumed of the
endpoint or the network, which may stay silent or drip.  The other models are
about safety: processes may stop anywhere.

## 5. Proofs

Eight modules of theorems, for every value of the constants that the named
assumptions admit.

* `BisectProofs`.  Assumption: `ArgumentTypes` (counts are integers, modes are the
  three modes).  `Invariance` proves the inductive invariant `IInv`: beside types,
  it says that arguments were checked before the first request (`ArgumentsChecked`),
  that a result exists exactly at the end, which indices have been asked at each
  point (`Asked`), that the lower end of the halved interval was seen to pass, the
  upper to block and nothing asked lies strictly between (`SearchInterval`), and
  that a schedule keeps covering what it has not asked (`AuditCoverage`).  Without
  `SearchInterval` the final claim does not follow from a state; without `Asked` a
  claim of an onset would not be known to be the only possible one.  `TypeCorrect`
  and `Refinement` (`Spec => Promise!Spec`: the engine implements `OnsetSearch` for
  every length) follow.  `UncertaintyIsReported` and `ExhaustiveIsExact` are proved
  from `IInv` at the steps that return a result; the latter needs that without a
  descent between neighbours everything from the least blocking checkpoint on blocks
  (`OnsetSplits`, by the least element of a set of indices).
  `SearchIsLogarithmic` has an invariant of its own, `HalvedSoFar`: two to the number
  of requests, times the untested checkpoints between the ends, is at most four times
  all those between the endpoints.  The prover knows nothing of powers with a variable
  exponent; `PowersDouble` gets what is needed from the number of subsets of a set.
  `CallIsFinite` is what can be proved of `Terminates`: `StepsLeft`, at most five more
  than there are checkpoints, is less after every step, since a halving narrows the
  interval and a request shortens the schedule.
* `EvaluationProofs`, the gate.  Assumption: `GateAssumption` (finitely many rules, p-values within
  the scale, policies of the declared type) and `NoneAssumption` (the absent value
  is none of the others).  `IInv` is `TypeOK`, `HolmInv` and
  `DecisionInv`.  `HolmInv` says of the rules adjusted so far that they come before
  the others in p-value, that one of them is within alpha exactly if the closed
  Bonferroni test rejects it, and, once the running maximum exceeds alpha, names an
  intersection hypothesis that keeps all rules still to come: that is what makes
  the running maximum right and is not visible in `TypeOK`.  `ClosedTesting`,
  `SelectedInterval`, `AllowedJustified`, `BlockJustified` and `TypeCorrect` follow
  for every family, every policy and all evidence.
* `EvaluationProofs`, the evidence of a metric.  Assumption: `StatisticsAssumption`
  (tails and critical values are positive, tails at least two and ordered as the
  critical values are, differences are integers, the absent value is none of the
  others).  `StatisticsInv` says that differences are those of the counted outcomes
  (`InputInv`), that an interval consists of quantiles of one sorted sequence of
  resamples or of ends the inversion reached (`IntervalInv`, with `Reached` following
  it halving by halving), that levels are inverted from the lowest up (`SolvingInv`)
  and what a test counted or accepted (`TestInv`).  `EvidenceCoheres` follows for the bootstrap
  because quantiles of one sequence grow with the part (`QuantilesGrow`).  For
  Tango's inversion it needs no convexity: a null value that one level accepts every
  higher level accepts (`HigherLevelsAccept`, on `AtMostRoot`, which squares instead
  of taking a root), so two levels that halve the same ends either still hold the
  same ends or have parted, and then the higher level is outside for good
  (`ReachedApart`).  `McNemarIsSigns` counts: assignments of signs that are as extreme
  as the observed one are the sets of at most `smaller` or at least `larger`
  discordant pairs, times any signs of the others (`SignsAreChoices`), and both tails
  together are twice one of them or everything (`BothTails`).  Sums over a sequence
  are followed by the least index at which a claim would fail (`UpTo`); powers of two
  and sums of binomials are numbers of subsets.
* `EvaluationProofs`, the inversion of the score test, from the same assumption.
  Halving finds the last accepted null value only if those accepted form one interval
  around the effect, which the code takes for granted.  `IntervalIsInversion` proves it
  in the integers.  Squaring away the root leaves two polynomials in the null value that
  are both positive exactly where the test rejects (`AcceptedIsNotRefused`).  The second
  of them is, but for a positive factor, the distance from the effect (`Lead`) times a
  `Balance` of two products that rise with that distance, one of them faster than the
  toll it pays, so that beyond the effect it changes sign once (`ExcessFactors`,
  `AboveRises`, `BelowRises`, `RiseTogether`), whichever of the two discordant counts is
  the larger; and the first follows from the second (`SideOfExcess`).  Below the
  effect the same holds with baseline and candidate exchanged (`Mirrors`).  A null value
  is judged alike over every denominator (`RefusalScales`), which lets one statement
  speak of the units of the inversion and of the margin (`RefusedOutward`).  The inner
  end that a level reached was accepted, or is the effect, which always is, and the outer one was
  rejected, or is the end of the range (`EndsAreJudged`); the rest follows.
* `RemoteAdapterProofs`.  Assumption: `AdapterAssumption` (the ranges that
  `_validate_execution_limits` admits, in whole units).  `IInv` adds to the
  properties which requests of each case were begun (`SentInv`: of a case done, the
  attempts up to the recorded one; of the current one, those before the current
  attempt, and this one once it is under way), how the attempts of the current case
  ended (`CurrentInv`), and the same attempt by attempt for repeated requests
  (`RepeatInv`).  `Justified` needs `SentInv` to know that no later request of a
  recorded case exists, `OnlyFailures` that the one in flight is the last.
  `RunIsFinite` is what can be proved of `Terminates`: a lexicographic measure, written
  as one number, that every step other than a stutter lowers.  It counts the cases, the
  attempts, the network operations and the bytes that are left (`TurnsLeft`), the time
  that may pass until the next turn (`TimeLeft`) and the requests that the endpoint
  has not carried out (`RequestsLeft`); it needs that no timer runs for longer than the
  timeout and the longest pause together (`TimerInv`).  Network operations before an
  answer are at most `NetworkSteps`, the bound of the model.
* `PairedRunProofs`.  Assumptions: `RunAssumption` (each process has a secret for
  each start, and one is shared; answers consist of observations; `None` is no
  observation) and those of `ObservationCache` (the markers of an absent or damaged
  file are no envelopes).  `RunInvariant` says that every entry on disk, everything
  about to be stored and everything held as evidence was executed for just its key,
  under the HMAC key it carries or the run has (`EntriesWereExecuted`,
  `FreshWasExecuted`, `EvidenceWasExecuted`), and that no case of a suite is
  forgotten on the way from lookup through the misses to the store
  (`NothingForgotten`); the last is what makes the evidence of an ended run total
  and is not visible in its end state.  `EvidenceIsExecuted` is the refinement of
  `PairedEvidence`; a step is a stutter, an observation, a failure or the end with
  evidence.  `BatchesAreStorable` and `EntriesAreSafe` follow from the same
  invariant.
* `BisectCommandProofs`.  Assumptions: those of `Bisect`, `ExecutionAssumption` (the
  callback answers one of the statuses the engine knows; a missing report is none)
  and `SequenceAssumption`.  All three programs need one more invariant of the search,
  `ResultRests`: an outcome that fails a release saw a BLOCK, a clean one saw the last
  checkpoint pass and none block, an onset was seen to block and its predecessor to
  pass, and a linear audit asked everything.  `CommandInv` adds that the search is told
  the rows in the mode they call for (`RowsAreTold`); `ExecutionInv` that each
  completed checkpoint has the report of this run and that no decision of the search
  lacks a completed one; `SequenceInv` follows a script from the results through the
  reports to the seal and says which files are already of this attempt
  (`ResultsAreOfAttempt`, `ReportsAreOfAttempt`, `SearchIsOfAttempt`) and that a cache
  entry is sound (`EntriesAreSound`): it holds the result of an engine with the content
  its key names and, unless its authentication key is shared, one of the attempt that
  signed it.  Without that nothing bounds what an earlier attempt may have left for
  this one; with it, what a comparison observes rests on the results in the directory
  (`StoredIsSound`, `FilledIsSound`, `ReportRestsOnResults`).  `ExitIsAVerdict`, `OnsetIsPublished`,
  `VerdictsAreReported`, `DocumentsNameReports` and `AcceptedRootIsStory` follow for
  every number of rows, checkpoints, runs and attempts.
* `ComparisonProofs`.  Assumptions: `RegistryAssumption`, `PlanAssumption` and
  `ComparisonAssumption` (the critical and redacted cases are cases, each has an
  expectation, a missing value is no value; a scope of a slice is not the scope of
  all).  `RegistryInvariant` joins the two properties of the registry with the
  finiteness of its tables, which the capacities need; `ComparisonDrivesRegistry` shows
  that every step of a comparison is a step of the registry or leaves it alone, so that
  they hold there too.  `ComparisonInvariant` says that a plan is whole, whichever
  descriptions it was made from: each metric stands on every scope, with the same terms
  on each, and every rule has a metric of its direction (`IsWhole`).  It says that the
  plan is a function of request and registrations (`FrozenPlan`) unless a metric
  changed between its lookup and the plan (`LookedUpIsUnchanged`, `PlanHolds`), that
  what each step found is still what it would find (`StepsAgree`), and that the
  identity of a report is a function of the plan, the request, the outputs and the
  cases that were measured, and of no latency (`HasItsIdentity`).
  `AnalysisIsPlanned`, `AnalysisCoversThePlan`,
  `BlocksAreExplained` and `ReplaysAreStable` follow.
* `FileProofs`.  Assumptions: `FileAssumption` of `VerifiedFile`, `LayoutAssumption`
  (the markers of an absent or torn file are none of the contents) and
  `TargetAssumption` (reports are evidence files, temporary files are not; `Gone` is no
  content).  `FileInvariant` says that times only advance, and that an inode which still
  has the time it had when it was opened, and was not written in that tick, still has
  the content it was opened with: what was read so far is then a prefix of it.
  `LayoutInvariant`: a blob is absent, whole, or torn by a writer that has it open or
  died over it, and a writer past a blob leaves it whole or refused.
  `TargetInvariant`: each path is written down once, and what a verifier has compared
  was there when it did and, as long as the tree is quiet, still is (`VerifierInv`).
* `ReportProofs`.  Assumptions: `BundleAssumption` and `PublicationAssumption` (the
  markers of a missing file or argument are none of the documents),
  `EvidenceAssumption`, `ConformanceAssumption`.  `PublicationInvariant`: a file once
  there stays and is that of a publication (`FilesArePublished`), what a writer no
  longer has to write is there (`WritersProceed`), nobody finds a report before the
  manifest it refers to (`ManifestComesFirst`), what a reader has passed agrees with
  its report (`ReadersProceed`), what it has examined is there to be opened
  (`ExaminedIsThere`), and without overlap the only writer is the latest
  (`LatestPrevails`).  `EvidenceInvariant`: a recorded document was read with its own
  identity, met its contract and had the files it binds hashed, and of an accepted bundle the
  links hold.  `ClaimsHaveBytes` needs in addition that following parents ends in a
  root.  That is the last part of `EvidenceAssumption`: among builds whose identity is
  that of their content there is always one that came from none of the others, since
  a document that names another by its digest was made after it.
  `ConformanceInvariant`: one identity is recorded for each vector done, and it is the
  vector's report unless the vector was exchanged between its two readings.

Only model-checked: `Terminates` of `Bisect` and of `RemoteAdapter`, since liveness under
fairness is out of the prover's reach.  `CallIsFinite` and `RunIsFinite` show that neither can
take steps for ever; that a step is possible until the end, and is taken, is what TLC
adds.
Every other property that the passing runs check is stated by a theorem.

## 6. Disagreements found

* `UnknownOnsetHasNoIndex` (`bisect_reason`): a sparse audit whose first checkpoint
  blocks returns the exact onset 0 together with the reason "exact onset remains
  unknown".
* `ReportAndManifestTogether` (`report_atomic`): `SECURITY.md` promises that report
  and manifest are published atomically; they are two replacements, and a crash or
  a failure between them leaves the old report beside the new manifest.  The
  verifier notices (`VerifiedWasPublished` holds).
* `EmittedIsVerified` (`report_emitted`): the Statement command verifies the bundle
  and then reads the report again; what it emits may be another report.
* `EveryEvaluatedIsReported` (`executed_reports`): `CHANGELOG.md` promises a full
  report for every evaluated checkpoint; one whose comparison or report raised has
  none.
* `LatencyIsExcluded` (`release_identity`): the documentation says that run-scoped
  latency is excluded from `evidence_id`.  Its set of observations is
  part of the manifest: when a latency is missing in one of two runs with equal
  outputs, their `evidence_id` differ.

Met while modelling, with no run of their own:

* `docs/architecture.md:128` announces a warning for evidence that is not local;
  the remote branch of the verifier gives none, and `--strict` accepts it.
* `docs/mcr-conformance.md:71` says the Rust verifier covers decision consistency; it
  accepts `INSUFFICIENT_POWER` with `allowed` true, which the Python contracts refuse.
* The registry refuses a metric whose declaration changed after registration
  (`plugins/registry.py:228`), but only at lookup.  One that changes between
  `registry.metrics()` and `compile_release_plan` raises nothing: the compiler asks it
  again (`planning/compiler.py:105`) and plans what it says then.
* `docs/plugin-sdk.md:17` says capabilities are checked at registration;
  `register_metric` checks none.  The identity scope of a metric is no part of its
  declaration (`pipeline.py:170`), so a change of it is not noticed as drift.
* A plan may name 10 000 metrics, a manifest hold 4096 sets: a plan that compiles may
  fail after both models have run.
* Two snapshot manifests with one snapshot identity make the verdict on provenance
  depend on the order of the references; an empty directory counts as a rejected
  negative vector.
* A writer of a target manifest that dies leaves its temporary file in the root: the
  next manifest lists it, an older one refuses the root.  A torn OCI blob is refused
  for ever.  A write of the same size within the tick of the recorded time goes
  unnoticed by `read_verified_file`.
* `run_vertical.py:632` builds `BisectStatus` from the lower-case status and so raises
  for `INSUFFICIENT_POWER`, which `_normalize_status` (`bisect/engine.py:115`) accepts:
  the script ends with exit 3.  It searches monotonically although it knows every
  decision, so a sequence that passes again at its end names no first bad build; and
  with `MERRIV_CACHE_KEY` set it takes cached observations of an earlier attempt for an
  engine that is bit-identical, beside results recorded anew.
* A verifier may refuse a bundle while the very same evidence is published again:
  `read_verified_file` refuses a file that is replaced between its `lstat` and its
  `open`.  Verifying once more succeeds.

## 7. Not modelled

`PROJECT.json` lists every component with its status.

* Artifact inspection, numerical diffs and artifact diffs: sequential parsing of ONNX
  and aggregation in floating point, no state and no interaction.
* Loaders, importers, rendering, schema export, option parsing: parsing and
  formatting.  They enter as the outcomes they may have.
* Local adapters: one synchronous call per suite; the runner sees an answer.
* Floating-point rounding in the statistics and its tolerances; the integers of the
  code are unbounded.
* The integrations, the release tools and the second verifier in Rust, which share no
  state with the package.
* Of the build scripts, the checks of the machine before they start and the making
  of their data; of the contracts, the validators of single fields and the hashing of
  directories.
* Symbolic links and platform permissions of the cache, the bundle directory and the
  target root, which only refuse.

## 8. Plan

What is left, in this order:

1. The composition of `PairedRun` with `Comparison`, so that the outputs of a run are
   those of its evidence, and of `EvidenceBundle` with `VerifiedFile`, so that each
   hash is a read of several steps.
2. The Rust verifier against `EvidenceBundle`: the same bundles, the same verdicts.
