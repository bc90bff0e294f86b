------------------------------ MODULE ReleasePlan ------------------------------
(***************************************************************************)
(* The release plan compiler (merriv/planning/compiler.py): the policy,    *)
(* the suite and what the metrics say of themselves are checked against    *)
(* each other before anything runs, and the result is frozen in a plan.    *)
(* An identifier of a plan is the plan: identities digest contents.        *)
(***************************************************************************)
EXTENDS Registry, Sequences, SequencesExt

CONSTANTS
    Cases,
    CaseSlices,        \* CaseSlices[c]: values of the slice keys case c has
    SafeValues,        \* slice values that are safe identifiers
    MaxPlanned,        \* MAX_PLANNED_METRICS
    MaxSliceKeys,      \* MAX_PLAN_SLICE_KEYS
    Overall            \* the scope of a metric that is not sliced

ASSUME PlanAssumption ==
    /\ DOMAIN CaseSlices = Cases
    /\ MaxPlanned \in Nat /\ MaxSliceKeys \in Nat

HasKey(c, key) == key \in DOMAIN CaseSlices[c]

IsDuplicateFree(s) == Cardinality(ToSet(s)) = Len(s)

\* _validate_cases.
CasesAreValid(suite) == suite # <<>> /\ IsDuplicateFree(suite)

\* _declare_metrics: what the metrics say of themselves now, not what they said
\* when they were registered.
Declarations(metrics) == {described[p] : p \in metrics}

MetricsAreValid(metrics) ==
    /\ metrics # {}
    /\ Cardinality(metrics) <= Capacity["metric"]
    /\ Invalid \notin Declarations(metrics)
    /\ \A p, q \in metrics : described[p].id = described[q].id => p = q

Values(suite, key) == {CaseSlices[c][key] : c \in {d \in ToSet(suite) : HasKey(d, key)}}

\* _slice_values.
SlicesAreValid(suite, slice_keys) ==
    /\ IsDuplicateFree(slice_keys) /\ Len(slice_keys) <= MaxSliceKeys
    /\ \A key \in ToSet(slice_keys) :
          Values(suite, key) # {} /\ Values(suite, key) \subseteq SafeValues

Scopes(suite, slice_keys) ==
    {Overall} \cup UNION {{key} \X Values(suite, key) : key \in ToSet(slice_keys)}

\* _validate_plugin_provenance: [id, plugin] pairs.
ProvenanceIsValid(metrics, provenance) ==
    \A r \in provenance :
        /\ \E d \in Declarations(metrics) : d.id = r.id
        /\ r.plugin.kind \in {"metric", "unknown"}

\* _plan_metrics: every metric overall and on every value of every key.
PlannedMetrics(metrics, suite, slice_keys) ==
    {[base |-> d.id, scope |-> scope, terms |-> d.terms] :
        d \in Declarations(metrics), scope \in Scopes(suite, slice_keys)}

\* _bind_rules: the rule's metric is planned, with the rule's direction.
IsBound(rule, planned) ==
    \E m \in planned : /\ m.base = rule.base /\ m.scope = rule.scope
                       /\ m.terms.direction = rule.direction

\* compile_release_plan for the metrics, with who owns them.
Compiles(request, metrics, provenance) ==
    /\ CasesAreValid(request.suite)
    /\ MetricsAreValid(metrics)
    /\ request.resamples >= 1
    /\ SlicesAreValid(request.suite, request.slice_keys)
    /\ ProvenanceIsValid(metrics, provenance)
    /\ LET planned == PlannedMetrics(metrics, request.suite, request.slice_keys)
       IN  /\ Cardinality(planned) <= MaxPlanned
           /\ \A rule \in request.policy.rules : IsBound(rule, planned)

Plan(request, metrics, provenance) ==
    [suite |-> request.suite, policy |-> request.policy, resamples |-> request.resamples,
     slice_keys |-> request.slice_keys,
     metrics |-> PlannedMetrics(metrics, request.suite, request.slice_keys),
     plugins |-> {r.plugin : r \in provenance}]
=============================================================================
