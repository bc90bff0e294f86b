----------------------------- MODULE BuildSequence -----------------------------
(***************************************************************************)
(* The two scripts that judge a sequence of builds of one model:           *)
(* examples/nvidia_tensorrt_vertical/run_vertical.py and                   *)
(* examples/onnx_quantization/run_demo.py.  Every build is made, compared  *)
(* with the first one and reported; the decisions, all of them known by    *)
(* then, are searched with Bisect for the first bad build; what was found  *)
(* is written beside the reports, and run_vertical.py seals the directory  *)
(* with a target manifest.  A script may stop anywhere, and be run again   *)
(* into the same directory, where it finds the observations that earlier   *)
(* runs of it have cached (merriv/engine/cache.py).                        *)
(*                                                                         *)
(* The comparison may decide anything (Comparison, Gate); the files of a   *)
(* report, and how a manifest is made and verified, are one step here      *)
(* (ReportBundle, EvidenceBundle, TargetBundle).  Temporary files that a   *)
(* stop leaves beside cache entries, and --preflight, which only prints,   *)
(* are left out.                                                           *)
(***************************************************************************)
EXTENDS Bisect

CONSTANTS
    Measurements,   \* what may be built: engines, or models, by content
    CaseCount,      \* cases of the suite, which are 1 .. CaseCount
    SharedKeys,     \* what MERRIV_CACHE_KEY may be
    Decisions,      \* decisions a report may hold
    MaxAttempts,    \* bound: runs of the script, by the number of builds
    NotRetained,    \* no file, no manifest
    Damaged         \* a file whose writing was interrupted

ASSUME SequenceAssumption ==
    /\ Decisions \subseteq BisectStatus \cup {"insufficient_power"}
    /\ CaseCount \in Nat \ {0} /\ MaxAttempts \in [CheckpointCounts -> Nat \ {0}]

VARIABLES
    script,         \* "vertical" or "demo"
    attempt,        \* which run of the script this is
    authentication, \* the key it authenticates cache entries with
    task,           \* what it does
    done,           \* builds that task is done with
    decisions,      \* statuses, checkpoint_rows
    root,           \* the output directory: file -> content
    entries,        \* what is in its .cache directories
    rootManifest,   \* target-evidence-manifest.json
    script_exit

runVars == <<script, attempt, authentication>>
sequenceVars == <<runVars, task, done, decisions, root, entries, rootManifest, script_exit>>
buildVars == <<vars, sequenceVars>>

PerBuild == {"results", "bundle", "evidence"}

OutputFiles == (PerBuild \X Indices) \cup ({"rows", "search", "receipt"} \X {0})

NotEnded == -1

Cases == 1..CaseCount

\* Without MERRIV_CACHE_KEY a process has a key of its own.
Authentications(run) == ({"shared"} \X SharedKeys) \cup {<<"local", run>>}

SequenceInit ==
    /\ Init /\ mode = "monotonic" /\ checkpoint_count >= 1
    /\ script \in {"vertical", "demo"}
    /\ attempt = 1 /\ authentication \in Authentications(1)
    /\ task = "results" /\ done = 0
    /\ decisions = <<>>
    /\ root = [f \in OutputFiles |-> NotRetained] /\ entries = {}
    /\ rootManifest = NotRetained
    /\ script_exit = NotEnded

\* The file the script is about to write.
CurrentFile == <<task, done>>

Put(content) == root' = [root EXCEPT ![CurrentFile] = content]

-----------------------------------------------------------------------------
(* Builds and reports *)

\* One build is made, and run_vertical.py executes it; engine, results and what was
\* recorded of them are copied into the directory.  Executed once more, the same
\* engine need not answer the same.
PrepareBuild ==
    /\ task = "results"
    /\ \E m \in Measurements : Put([engine |-> m, attempt |-> attempt])
    /\ IF done + 1 < checkpoint_count THEN done' = done + 1 /\ UNCHANGED task
                                      ELSE done' = 0 /\ task' = "bundle"
    /\ UNCHANGED <<vars, runVars, decisions, entries, rootManifest, script_exit>>

\* What a comparison of the build with the first one is about.
Subjects(i) == <<root[<<"results", 0>>], root[<<"results", i>>]>>

Sides == {1, 2}

\* Mutant: an entry is found by the name of its build.
Key_Name(i, side) ==
    [directory |-> IF script = "vertical" THEN i ELSE 0,
     role |-> IF script = "vertical" THEN "either" ELSE side,
     build |-> IF side = 1 THEN 0 ELSE i]

\* run_vertical.py has a cache in every report directory, run_demo.py one for all,
\* where the adapter's fingerprint names the role.  The snapshot has the label of
\* the build, and its content; profile, cases and executor stay the same.
Key(i, side) ==
    [directory |-> IF script = "vertical" THEN i ELSE 0,
     role |-> IF script = "vertical" THEN "either" ELSE side,
     build |-> IF side = 1 THEN 0 ELSE i,
     engine |-> Subjects(i)[side].engine]

\* ObservationCache.get: what another key has signed is no entry.
Hits(found, key, case) ==
    {e \in found : e.key = key /\ e.case = case /\ e.authentication = authentication}

\* The cache after the cases up to last of one side: those it does not have are
\* executed and put one after another, over entries that are none (_run_side).
Stored(found, i, side, last) ==
    LET key    == Key(i, side)
        missed == {case \in Cases : case <= last /\ Hits(found, key, case) = {}}
    IN  {e \in found : e.key # key \/ e.case \notin missed} \cup
        [key : {key}, case : missed, authentication : {authentication}, result : {Subjects(i)[side]}]

\* The cache after the cases up to last of the build, the first one's before them.
Filled(i, last) == Stored(Stored(entries, i, 1, CaseCount), i, 2, last)

\* The observations the comparison pairs: whose result each one of them is.
Observed(i) ==
    LET found == Filled(i, CaseCount)
        used  == {o \in Sides \X found : o[2] \in Hits(found, Key(i, o[1]), o[2].case)}
    IN  {[side |-> o[1], case |-> o[2].case, result |-> o[2].result] : o \in used}

\* write_report_bundle replaces what is there.  The limitations of a report say
\* which kind of key the cache had.
ReportAfter(i, decision) ==
    [of |-> Subjects(i), observed |-> Observed(i), cache |-> authentication[1], decision |-> decision]

\* The first build is compared with itself, too.
CompareBuild ==
    /\ task = "bundle"
    /\ \E d \in Decisions : Put(ReportAfter(done, d)) /\ decisions' = Append(decisions, d)
    /\ entries' = Filled(done, CaseCount)
    /\ task' = "evidence"
    /\ UNCHANGED <<vars, runVars, done, rootManifest, script_exit>>

\* verify_report_bundle with require_complete.
IsComplete(i) ==
    root[<<"bundle", i>>] \notin {NotRetained, Damaged} /\ root[<<"bundle", i>>].of = root[<<"evidence", i>>]

End(code) == task' = "ended" /\ script_exit' = code

\* run_vertical.py makes a BisectStatus of every decision, which there is not for
\* INSUFFICIENT_POWER; run_demo.py leaves that to the engine.
IsSearchable(decision) == script = "demo" \/ decision \in BisectStatus

\* The documents the report refers to, and copies of the files they bind;
\* run_vertical.py then verifies the bundle.
WriteEvidence ==
    /\ task = "evidence"
    /\ Put(Subjects(done))
    /\ IF ~IsSearchable(decisions[done + 1])
         THEN End(3) /\ UNCHANGED done
         ELSE /\ IF done + 1 < checkpoint_count
                   THEN done' = done + 1 /\ task' = "bundle"
                   ELSE done' = 0 /\ task' = IF script = "demo" THEN "rows" ELSE "searching"
              /\ UNCHANGED script_exit
    /\ UNCHANGED <<vars, runVars, decisions, entries, rootManifest>>

\* checkpoints.jsonl and artifact-checkpoints.jsonl.
WriteRows ==
    /\ task = "rows"
    /\ Put(decisions) /\ task' = "searching"
    /\ UNCHANGED <<vars, runVars, done, decisions, entries, rootManifest, script_exit>>

-----------------------------------------------------------------------------
(* The search and what is published *)

\* What the engine is told of a build.
Told(i) == Normalize(decisions[i + 1])

SearchBuilds ==
    /\ task = "searching" /\ Next
    /\ \A i \in Indices : cache'[i] # cache[i] => cache'[i] = Told(i)
    /\ UNCHANGED sequenceVars

\* bisect-result.json.
WriteSearch ==
    /\ task = "searching" /\ pc = "done"
    /\ task' = "search"
    /\ UNCHANGED <<vars, runVars, done, decisions, root, entries, rootManifest, script_exit>>

FirstBad == result.first_failing_index

WriteResult ==
    /\ task = "search"
    /\ Put(FirstBad) /\ task' = "receipt"
    /\ UNCHANGED <<vars, runVars, done, decisions, entries, rootManifest, script_exit>>

Summary == [decisions |-> decisions, first_bad |-> FirstBad]

\* gpu-receipt.json.
WriteReceipt ==
    /\ task = "receipt" /\ script = "vertical"
    /\ Put(Summary) /\ task' = "manifest"
    /\ UNCHANGED <<vars, runVars, done, decisions, entries, rootManifest, script_exit>>

\* README.md of the demo, which ends there.
WriteSummary ==
    /\ task = "receipt" /\ script = "demo"
    /\ Put(Summary) /\ End(0)
    /\ UNCHANGED <<vars, runVars, done, decisions, entries, rootManifest>>

\* create_, write_ and verify_target_evidence_manifest; nobody else writes into
\* the directory meanwhile.
SealRoot ==
    /\ task = "manifest"
    /\ IF \A i \in Indices : IsComplete(i)
         THEN rootManifest' = [files |-> root, cached |-> entries, first_bad |-> FirstBad] /\ End(0)
         ELSE End(3) /\ UNCHANGED rootManifest
    /\ UNCHANGED <<vars, runVars, done, decisions, root, entries>>

\* What a comparison that is cut short has put in the cache.
PartlyFilled(i) ==
    {Stored(entries, i, 1, last) : last \in 0..CaseCount} \cup {Filled(i, last) : last \in 0..CaseCount}

\* An error, or the end of the process: the file that was being written is left
\* as it was or half written.
StopScript ==
    /\ task # "ended"
    /\ End(IF script = "demo" THEN 1 ELSE 3)
    /\ root' \in {root} \cup {[root EXCEPT ![f] = Damaged] : f \in OutputFiles \cap {CurrentFile}}
    /\ entries' \in IF task = "bundle" THEN PartlyFilled(done) ELSE {entries}
    /\ root' # root /\ task = "bundle" => entries' = Filled(done, CaseCount)
    /\ UNCHANGED <<vars, runVars, done, decisions, rootManifest>>

RunScriptAgain ==
    /\ task = "ended" /\ attempt < MaxAttempts[checkpoint_count]
    /\ attempt' = attempt + 1 /\ authentication' \in Authentications(attempt + 1)
    /\ task' = "results" /\ done' = 0 /\ decisions' = <<>> /\ script_exit' = NotEnded
    /\ pc' = "call" /\ cache' = [i \in Indices |-> Unset] /\ requests' = <<>>
    /\ lower_pass' = NoIndex /\ upper_block' = NoIndex /\ pending' = {}
    /\ result' = NoResult
    /\ UNCHANGED <<arguments, script, root, entries, rootManifest>>

SequenceNext ==
    \/ PrepareBuild \/ CompareBuild \/ WriteEvidence \/ WriteRows
    \/ SearchBuilds \/ WriteSearch \/ WriteResult \/ WriteReceipt \/ WriteSummary
    \/ SealRoot \/ StopScript \/ RunScriptAgain

SequenceSpec == SequenceInit /\ [][SequenceNext]_buildVars

-----------------------------------------------------------------------------
(* Properties *)

\* What a stranger would accept: a root that mcr verify-target accepts, or the
\* output of a demo that ended well.
IsAccepted ==
    IF script = "demo" THEN script_exit = 0
    ELSE /\ rootManifest # NotRetained
         /\ rootManifest.files = root /\ rootManifest.cached = entries
         /\ \A i \in Indices : IsComplete(i)

Decided(i) == Normalize(root[<<"bundle", i>>].decision)

\* What the observations of a report are: the results in the directory or, if the
\* report says that its cache was shared, others of the very same engine.
RestsOnResults(report) ==
    \A o \in report.observed :
        /\ o.result.engine = report.of[o.side].engine
        /\ report.cache = "local" => o.result = report.of[o.side]

\* An accepted directory tells one story, whatever earlier attempts left in it
\* and wherever they stopped: the reports are about the engines and results that
\* are there and rest on them; receipt, search result and manifest name the same
\* first bad build and the decisions of the reports; that build blocks where the
\* one before it passes, and a sequence that passes up to some build and blocks
\* from it on has that one named (run_vertical.py, run_demo.py).
RootTellsOneStory ==
    IsAccepted =>
        LET receipt == root[<<"receipt", 0>>]
            first   == receipt.first_bad
        IN  /\ \A i \in Indices :
                  /\ root[<<"bundle", i>>].of = Subjects(i) /\ RestsOnResults(root[<<"bundle", i>>])
                  /\ root[<<"evidence", i>>] = Subjects(i)
                  /\ root[<<"bundle", i>>].decision = receipt.decisions[i + 1]
            /\ root[<<"search", 0>>] = first
            /\ script = "demo" => root[<<"rows", 0>>] = receipt.decisions
            /\ script = "vertical" => rootManifest.first_bad = first
            /\ first # NoIndex =>
                  Decided(first) = "block" /\ (first > 0 => Decided(first - 1) = "pass")
            /\ \A k \in Indices :
                  (\A i \in Indices : Decided(i) = IF i < k THEN "pass" ELSE "block") => first = k
=============================================================================
