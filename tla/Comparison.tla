------------------------------ MODULE Comparison ------------------------------
(***************************************************************************)
(* A release comparison (merriv/pipeline.py, compare_release, and the      *)
(* commands plan, compare and compare-api of cli.py) by a host that        *)
(* registers its plug-ins first: lookup, plan, paired run, analysis of     *)
(* every group of cases, gate, evidence manifest, report.  The same        *)
(* request may be run again: its outputs repeat, its latencies need not.   *)
(*                                                                         *)
(* Abstracted here and modelled elsewhere: how a run proceeds and fails    *)
(* (PairedRun), estimates and tests (PairedStatistics), the gate's rules   *)
(* (Gate) and the files of a bundle (ReportBundle).                        *)
(***************************************************************************)
EXTENDS ReleasePlan

CONSTANTS
    Requests,      \* what the host may ask for
    Outputs,       \* outputs of the two models: [Sides -> [Cases -> values]]
    Timings,       \* latencies of one run: [Sides -> [Cases -> Nat \cup {Missing}]]
    Expected,      \* Expected[c]: the expected output of a case, or Missing
    Critical,      \* cases that must not fail
    Redacted,      \* cases whose output is kept as a digest
    Exact, Latency,   \* identifiers of the two built-in metrics
    MaxSets,       \* the most evidence sets a manifest holds
    MaxRuns,       \* bound: runs of a request
    Missing        \* no expected output, no latency, no evidence

Sides == {"baseline", "candidate"}

ASSUME ComparisonAssumption ==
    /\ Critical \subseteq Cases /\ Redacted \subseteq Cases
    /\ DOMAIN Expected = Cases
    /\ {Exact, Latency} \subseteq Ids
    /\ MaxSets \in Nat /\ MaxRuns \in Nat
    /\ \A r \in Requests : r.suite \in Seq(Cases)
    /\ Missing \notin Outputs /\ Missing \notin Ids
    /\ \A c \in Cases : \A key \in DOMAIN CaseSlices[c] : Overall # <<key, CaseSlices[c][key]>>

VARIABLES
    pc,
    request,
    runs,         \* how often the request was run
    strayed,      \* history: runs in which a description changed before the plan
    plan,
    outputs, timings,
    groups,       \* metric_evidence
    findings,     \* of the gate decision
    evidence,     \* _ReportEvidence: entries and sets of the manifest
    report,
    earlier,      \* history: the report of the run before this one
    exit

running == <<plan, timings, groups, findings, evidence, report>>
vars == <<registry, pc, request, runs, strayed, outputs, running, earlier, exit>>

Init ==
    /\ RegistryInit
    /\ pc = "host" /\ request = Missing /\ runs = 0 /\ strayed = {}
    /\ plan = Missing /\ outputs = Missing /\ timings = Missing
    /\ groups = {} /\ findings = {} /\ evidence = Missing
    /\ report = Missing /\ earlier = Missing /\ exit = Missing

Goto(label) == pc' = label

\* Every error ends the command with 3.
Fail == Goto("done") /\ exit' = 3

-----------------------------------------------------------------------------
(* The host and the plan *)

\* The host prepares its registry before it asks for anything.
ConfigureHost ==
    /\ pc = "host" /\ RegistryNext
    /\ UNCHANGED <<pc, request, runs, strayed, outputs, running, earlier, exit>>

\* Plug-in code may change what an object says of itself at any later moment, the
\* one between lookup and plan included.
DriftMeanwhile ==
    /\ pc # "host"
    /\ \E p \in Plugins : Drift(p)
    /\ strayed' = IF pc = "compile" THEN strayed \cup {runs} ELSE strayed
    /\ UNCHANGED <<pc, request, runs, outputs, running, earlier, exit>>

RegisteredMetrics == {r.plugin : r \in OfKind("metric")}

\* registry.metrics() and metric_plugin_records(), or the caller's own records.
Provenance(r) == IF r.records = "registry" THEN MetricPlugins ELSE r.records

\* Lookup refuses a metric, an executor or an adapter that changed.
LookUpSucceeds(r) ==
    /\ MayList("metric") /\ MayLookUp("executor", r.executor) /\ MayLookUp("adapter", r.adapter)

LookUp(r) ==
    /\ request' = r
    /\ runs' = runs + 1
    /\ plan' = Missing /\ timings' = Missing /\ groups' = {} /\ findings' = {}
    /\ evidence' = Missing /\ report' = Missing
    /\ IF LookUpSucceeds(r) THEN Goto("compile") /\ UNCHANGED exit ELSE Fail
    /\ UNCHANGED <<registry, strayed, outputs>>

Start ==
    /\ pc = "host"
    /\ \E r \in Requests : LookUp(r)
    /\ UNCHANGED earlier

\* The same request again, after a run that ended with a report.
RunAgain ==
    /\ pc = "done" /\ report # Missing /\ runs < MaxRuns
    /\ LookUp(request)
    /\ earlier' = report

\* The metrics that were looked up are asked again.  The plan comes before any
\* model runs; the plan command ends with it.
Compile ==
    /\ pc = "compile"
    /\ IF Compiles(request, RegisteredMetrics, Provenance(request))
         THEN /\ plan' = Plan(request, RegisteredMetrics, Provenance(request))
              /\ IF request.command = "plan" THEN Goto("done") /\ exit' = 0
                                             ELSE Goto("run") /\ UNCHANGED exit
         ELSE plan' = Missing /\ Fail
    /\ UNCHANGED <<registry, request, runs, strayed, outputs, timings, groups, findings,
                   evidence, report, earlier>>

-----------------------------------------------------------------------------
(* Run and analysis *)

Execute ==
    /\ pc = "run"
    /\ \/ /\ IF outputs = Missing THEN outputs' \in Outputs ELSE UNCHANGED outputs
          /\ timings' \in Timings
          /\ Goto("analyse") /\ UNCHANGED exit
       \/ Fail /\ UNCHANGED <<outputs, timings>>
    /\ UNCHANGED <<registry, request, runs, strayed, plan, groups, findings, evidence, report, earlier>>

IsRight(s, c) == outputs[s][c] = Expected[c]

\* The sample of the two built-in metrics for one pair.
Sample(id, c) ==
    [s \in Sides |-> IF id = Latency THEN timings[s][c]
                     ELSE IF IsRight(s, c) THEN 1 ELSE 0]

\* sample returns None when a latency is missing.
IsMeasured(id, c) == \A s \in Sides : Sample(id, c)[s] # Missing

\* Mutant: a case without the key belongs to every slice of it.
InScope_AnyWithoutKey(c, scope) ==
    scope # Overall => (HasKey(c, scope[1]) => CaseSlices[c][scope[1]] = scope[2])

InScope(c, scope) ==
    scope # Overall => HasKey(c, scope[1]) /\ CaseSlices[c][scope[1]] = scope[2]

\* Mutant: the metric is asked again.
Declared_Again(base) ==
    LET r == CHOOSE s \in OfKind("metric") : s.id = base
    IN  IF described[r.plugin] = Invalid THEN r.declaration ELSE described[r.plugin]

\* The declaration the plan froze.
Declared(base) ==
    CHOOSE m \in plan.metrics : m.base = base /\ m.scope = Overall

\* _analyze_group: the measured pairs of a scope.  They stand in the order of the
\* suite, which holds no case twice, so that the set of them says the same.
Group(base, scope) ==
    LET measured == {c \in ToSet(request.suite) : InScope(c, scope) /\ IsMeasured(base, c)}
    IN  [base |-> base, scope |-> scope, terms |-> Declared(base).terms, cases |-> measured,
         samples |-> [c \in measured |-> Sample(base, c)]]

\* _metric_groups: the scopes the cases that ran give rise to.
RunScopes ==
    {Overall} \cup
    UNION {{<<key, CaseSlices[c][key]>> : key \in {k \in ToSet(request.slice_keys) : HasKey(c, k)}}
           : c \in ToSet(request.suite)}

\* A group without a measured pair has no evidence.
Groups ==
    {g \in {Group(m.base, scope) : m \in plan.metrics, scope \in RunScopes} : g.cases # {}}

\* The exact-match metric raises without an expected output; a metric declared
\* binary must emit zeros and ones.
AnalysisFails ==
    \/ /\ \E m \in plan.metrics : m.base = Exact
       /\ \E c \in ToSet(request.suite) : Expected[c] = Missing
    \/ \E g \in Groups : /\ g.terms.binary
                         /\ \E c \in g.cases, s \in Sides : g.samples[c][s] \notin {0, 1}

Analyse ==
    /\ pc = "analyse"
    /\ IF AnalysisFails THEN Fail /\ UNCHANGED groups
                        ELSE groups' = Groups /\ Goto("judge") /\ UNCHANGED exit
    /\ UNCHANGED <<registry, request, runs, strayed, plan, outputs, timings, findings, evidence, report, earlier>>

-----------------------------------------------------------------------------
(* Gate, evidence and report *)

\* The identifier of an observation digests its content; so do those of a set
\* of evidence and of a manifest.
ObservationRef(s, c) == [id |-> <<s, c, outputs[s][c]>>, redacted |-> c \in Redacted]

\* Like the pairs, the references to them follow the order of the suite.
EvidenceSet(cases) == {ObservationRef(s, c) : s \in Sides, c \in cases}

PairRefs(c) == EvidenceSet({c})

Total(g, s) == FoldFunction(+, 0, [c \in g.cases |-> g.samples[c][s]])

\* Stands for the gate: a rule without evidence has insufficient power, one
\* whose metric became worse blocks.
Verdict(rule) ==
    LET evidenceOf == {g \in groups : g.base = rule.base /\ g.scope = rule.scope}
    IN  IF evidenceOf = {} THEN "insufficient_power"
        ELSE LET g == CHOOSE h \in evidenceOf : TRUE
                 worse == IF rule.direction = "higher" THEN Total(g, "candidate") < Total(g, "baseline")
                                                       ELSE Total(g, "candidate") > Total(g, "baseline")
             IN  IF worse THEN "block" ELSE "pass"

\* _critical_failures.
CriticalFailures ==
    {c \in ToSet(request.suite) \cap Critical : ~IsRight("candidate", c)}

\* _report_findings; the sets a finding points to follow in Assemble.
RuleFinding(rule) ==
    [rule |-> rule.rule, base |-> rule.base, scope |-> rule.scope, status |-> Verdict(rule),
     set |-> LET g == {h \in groups : h.base = rule.base /\ h.scope = rule.scope}
             IN  IF g = {} THEN Missing ELSE EvidenceSet((CHOOSE h \in g : TRUE).cases)]

CriticalFinding(c) ==
    [rule |-> c, base |-> Missing, scope |-> Overall, status |-> "block", set |-> PairRefs(c)]

RuleFindings == {RuleFinding(rule) : rule \in request.policy.rules}

Judge ==
    /\ pc = "judge"
    /\ findings' = RuleFindings \cup {CriticalFinding(c) : c \in CriticalFailures}
    /\ Goto("assemble")
    /\ UNCHANGED <<registry, request, runs, strayed, plan, outputs, timings, groups, evidence, report, earlier, exit>>

\* Mutant: the sets of the critical cases stay out of the manifest.
EvidenceSets_OfMetrics == {EvidenceSet(g.cases) : g \in groups}

\* _report_evidence: one set for every group and for every critical failure.
EvidenceSets ==
    {EvidenceSet(g.cases) : g \in groups} \cup {PairRefs(c) : c \in CriticalFailures}

Entries == UNION EvidenceSets

\* _record_evidence, _supplemental_evidence: one record for an identifier.
Conflicts(references) ==
    \E a, b \in references : a.id = b.id /\ a # b

\* The evidence manifest is refused when it holds too many sets, after the run.
Assemble ==
    /\ pc = "assemble"
    /\ IF Conflicts(Entries \cup request.supplemental) \/ Cardinality(EvidenceSets) > MaxSets
         THEN Fail /\ UNCHANGED evidence
         ELSE /\ evidence' = [sets |-> EvidenceSets, entries |-> Entries,
                              supplemental |-> request.supplemental \ Entries]
              /\ Goto("report") /\ UNCHANGED exit
    /\ UNCHANGED <<registry, request, runs, strayed, plan, outputs, timings, groups, findings, report, earlier>>

GateStatus ==
    IF CriticalFailures # {} /\ request.policy.block_on_any_critical_failure THEN "block"
    ELSE IF \E f \in RuleFindings : f.status = "block" THEN "block"
    ELSE IF \E f \in RuleFindings : f.status = "insufficient_power" THEN "insufficient_power"
    ELSE "pass"

\* Mutant: the metrics of one run are part of the evidence.
StableGroups_All == groups

\* Wall-clock latency is scoped to the run.
StableGroups == {g \in groups : g.base # Latency}

\* create_report: what replays is told apart from the verdict and from the run.
EvidenceId ==
    [plan |-> plan, metrics |-> StableGroups,
     finding_evidence |->
         {[rule |-> f.rule, set |-> f.set] :
             f \in {h \in findings : \/ h.base = Missing
                                     \/ \E g \in StableGroups : /\ g.base = h.base
                                                                /\ g.scope = h.scope}},
     manifest |-> <<evidence.sets, evidence.entries>>, evidence |-> evidence.supplemental]

ReportId == [evidence_id |-> EvidenceId, status |-> GateStatus, findings |-> findings]

RunId == [id |-> ReportId, run |-> runs, metrics |-> groups]

Finish ==
    /\ pc = "report"
    /\ report' = [plan |-> plan, evidence_id |-> EvidenceId, id |-> ReportId, run_id |-> RunId,
                  status |-> GateStatus, findings |-> findings, groups |-> groups,
                  sets |-> evidence.sets, entries |-> evidence.entries]
    /\ Goto("done")
    /\ exit' = [pass |-> 0, block |-> 2, insufficient_power |-> 4][GateStatus]
    /\ UNCHANGED <<registry, request, runs, strayed, plan, outputs, timings, groups, findings, evidence, earlier>>

Next ==
    \/ ConfigureHost \/ DriftMeanwhile \/ Start \/ RunAgain \/ Compile
    \/ Execute \/ Analyse \/ Judge \/ Assemble \/ Finish

Spec == Init /\ [][Next]_vars

-----------------------------------------------------------------------------
(* Properties *)

\* Lookup, plan and analysis read what a metric says of itself at three moments
\* (registry.metrics, compile_release_plan, _analyze_metrics), and the plan is not
\* compared with the registration.  Whatever the metric says in between, a group
\* is analysed in the direction of the rule that judges it, all groups of a
\* metric on the same terms, and these are the registered ones unless the metric
\* changed after its lookup and before its plan.
AnalysedAsPlanned ==
    \A g \in groups :
        /\ \A rule \in request.policy.rules :
              rule.base = g.base /\ rule.scope = g.scope => rule.direction = g.terms.direction
        /\ \A h \in groups : h.base = g.base => h.terms = g.terms
        /\ \/ runs \in strayed
           \/ \E r \in OfKind("metric") : r.id = g.base /\ r.declaration.terms = g.terms

GroupsOn(base, key) == {g \in groups : g.base = base /\ g.scope # Overall /\ g.scope[1] = key}

\* The plan and the analysis derive the slices on their own, one from the suite
\* before the run, the other from the cases that ran.  They agree: what is
\* analysed was planned, what was planned and has no evidence was not measured
\* on any of its cases, and the slices of a key divide the measured cases that
\* have the key among themselves (_slice_values, _metric_groups).
EvidenceCoversThePlan ==
    pc \in {"judge", "assemble", "report"} =>
        /\ \A g \in groups : \E m \in plan.metrics : m.base = g.base /\ m.scope = g.scope
        /\ \A m \in plan.metrics :
              \/ \E g \in groups : g.base = m.base /\ g.scope = m.scope
              \/ \A g \in groups : g.base = m.base /\ g.scope = Overall =>
                     \A c \in g.cases : ~(HasKey(c, m.scope[1]) /\ CaseSlices[c][m.scope[1]] = m.scope[2])
        /\ \A overall \in {g \in groups : g.scope = Overall} :
              \A key \in ToSet(request.slice_keys) :
                  LET slices == GroupsOn(overall.base, key)
                  IN  /\ UNION {g.cases : g \in slices} =
                             {c \in overall.cases : HasKey(c, key)}
                      /\ \A g, h \in slices : g.cases \cap h.cases # {} => g = h

\* docs/architecture.md: findings point directly to evidence sets, so a consumer
\* never sees an unexplained BLOCK.  Behind every report that blocks stands a
\* finding whose set is in the manifest, not empty, and made of entries of the
\* manifest, whether a rule or a critical case caused it (_report_evidence,
\* _report_findings).
BlockIsExplained ==
    report # Missing =>
        /\ report.status = "block" => \E f \in report.findings : f.status = "block"
        /\ \A f \in report.findings : f.status = "block" =>
              /\ f.set \in report.sets /\ f.set # {}
              /\ f.set \subseteq report.entries

MeasuredCases(r) == {<<g.base, g.scope, g.cases>> : g \in r.groups}

\* A replay of a plan whose outputs repeat has the evidence identity of the first
\* run, however fast either was, as long as latencies were measured on the same
\* cases (create_report, "replay-stable").  Only a metric that changes between
\* lookup and plan gives the same request another plan.
ReplayIsStable ==
    report # Missing /\ earlier # Missing /\ MeasuredCases(report) = MeasuredCases(earlier) =>
        /\ report.plan = earlier.plan => report.evidence_id = earlier.evidence_id
        /\ strayed = {} => report.plan = earlier.plan

\* docs/architecture.md: run-scoped metrics such as wall-clock latency are
\* intentionally excluded from evidence_id.
LatencyIsExcluded ==
    report # Missing /\ earlier # Missing /\ report.plan = earlier.plan =>
        report.evidence_id = earlier.evidence_id
=============================================================================
