--------------------------- MODULE ComparisonProofs ---------------------------
(***************************************************************************)
(* A release comparison for every set of plug-ins, requests, cases and     *)
(* outputs: what registrations and refusals in any order leave in the      *)
(* registry, that a comparison drives the registry as its specification    *)
(* allows, that it analyses what it planned, explains its blocks, and that *)
(* a replay keeps its identity.                                            *)
(***************************************************************************)
EXTENDS Comparison, FiniteSetTheorems, TLAPS

-----------------------------------------------------------------------------
(* The registry *)

\* The inductive invariant: the two properties need each other, since a new
\* manifest is compared with the stored ones and not with the registrations.
RegistryInvariant ==
    /\ IsFiniteSet(registered) /\ IsFiniteSet(manifests)
    /\ EveryManifestIsUsed
    /\ RegistryIsUnambiguous

\* The initial registry is empty.
LEMMA RegistryInitially == RegistryInit => RegistryInvariant
<1> SUFFICES ASSUME RegistryInit PROVE RegistryInvariant
  OBVIOUS
<1>1. registered = {} /\ manifests = {}
  BY DEF RegistryInit
<1>2. IsFiniteSet({}) /\ Cardinality({}) = 0
  BY FS_EmptySet
<1>3. \A kind \in Kinds : OfKind(kind) = {}
  BY <1>1 DEF OfKind
<1>4. \A kind \in Kinds : Cardinality(OfKind(kind)) <= Capacity[kind]
  <2> TAKE kind \in Kinds
  <2>1. Cardinality(OfKind(kind)) = 0
    BY <1>2, <1>3
  <2>2. Capacity[kind] \in Nat
    BY RegistryAssumption
  <2> QED
    BY <2>1, <2>2
<1>5. Cardinality(manifests) <= ManifestCapacity
  BY <1>1, <1>2, RegistryAssumption
<1> QED
  BY <1>1, <1>2, <1>4, <1>5 DEF RegistryInvariant, EveryManifestIsUsed, RegistryIsUnambiguous

\* A registration that is refused, or a description that changes, changes
\* neither table.
LEMMA QuietRegistryStep ==
    ASSUME RegistryInvariant, registered' = registered, manifests' = manifests
    PROVE  RegistryInvariant'
BY DEF RegistryInvariant, EveryManifestIsUsed, RegistryIsUnambiguous, OfKind

\* One more registration in a kind with room keeps every kind in its capacity.
LEMMA RoomForOneMore ==
    ASSUME RegistryInvariant, NEW r, r.kind \in Kinds,
           Cardinality(OfKind(r.kind)) < Capacity[r.kind],
           registered' = registered \cup {r}
    PROVE  \A kind \in Kinds : Cardinality(OfKind(kind)') <= Capacity[kind]
<1> TAKE kind \in Kinds
<1>1. IsFiniteSet(OfKind(kind))
  BY FS_Subset DEF RegistryInvariant, OfKind
<1>2. Cardinality(OfKind(kind)) \in Nat /\ Capacity[kind] \in Nat
  BY <1>1, FS_CardinalityType, RegistryAssumption
<1>3. CASE r.kind = kind
  <2>1. OfKind(kind)' = OfKind(kind) \cup {r}
    BY <1>3 DEF OfKind
  <2>2. Cardinality(OfKind(kind) \cup {r}) <= Cardinality(OfKind(kind)) + 1
    BY <1>1, <1>2, FS_AddElement
  <2>3. IsFiniteSet(OfKind(kind) \cup {r})
    BY <1>1, FS_AddElement
  <2>4. Cardinality(OfKind(kind) \cup {r}) \in Nat
    BY <2>3, FS_CardinalityType
  <2> QED
    BY <1>2, <1>3, <2>1, <2>2, <2>4
<1>4. CASE r.kind # kind
  <2>1. OfKind(kind)' = OfKind(kind)
    BY <1>4 DEF OfKind
  <2> QED
    BY <2>1 DEF RegistryInvariant, RegistryIsUnambiguous
<1> QED
  BY <1>3, <1>4

\* The manifest of a registration is stored already, or there is room for it.
LEMMA RoomForItsManifest ==
    ASSUME RegistryInvariant, NEW m, ManifestFits(m)
    PROVE  /\ IsFiniteSet(manifests \cup {m})
           /\ Cardinality(manifests \cup {m}) <= ManifestCapacity
<1>1. IsFiniteSet(manifests \cup {m})
  BY FS_AddElement DEF RegistryInvariant
<1>2. CASE m \in manifests
  <2>1. manifests \cup {m} = manifests
    BY <1>2
  <2> QED
    BY <1>1, <2>1 DEF RegistryInvariant, RegistryIsUnambiguous
<1>3. CASE m \notin manifests
  <2>1. Cardinality(manifests) < ManifestCapacity
    BY <1>3 DEF ManifestFits
  <2>2. Cardinality(manifests \cup {m}) = Cardinality(manifests) + 1
    BY <1>3, FS_AddElement DEF RegistryInvariant
  <2>3. Cardinality(manifests) \in Nat
    BY FS_CardinalityType DEF RegistryInvariant
  <2> QED
    BY <1>1, <2>1, <2>2, <2>3, RegistryAssumption
<1> QED
  BY <1>2, <1>3

\* An accepted registration, of whichever kind.
LEMMA AcceptedRegistration ==
    ASSUME RegistryInvariant, NEW p \in Plugins, NEW m, NEW id,
           MayRegister(p, m, id), Register(p, m, id, TRUE)
    PROVE  RegistryInvariant'
<1> DEFINE r == Registration(p, m, id)
<1>1. r.kind = KindOf[p] /\ r.kind \in Kinds /\ r.id = id /\ r.plugin = p /\ r.manifest = m
  BY RegistryAssumption DEF Registration
<1>2. registered' = registered \cup {r} /\ manifests' = manifests \cup {m}
  BY DEF Register, ManifestsAfter
<1>3. /\ m.kind = KindOf[p]
      /\ Cardinality(OfKind(KindOf[p])) < Capacity[KindOf[p]]
      /\ \A s \in registered : s.kind = KindOf[p] => s.id # id
      /\ ManifestFits(m)
  BY DEF MayRegister, IsTaken, OfKind
<1> HIDE DEF r
<1>4. IsFiniteSet(registered') /\ IsFiniteSet(manifests')
  BY <1>2, <1>3, RoomForItsManifest, FS_AddElement DEF RegistryInvariant
<1>5. EveryManifestIsUsed'
  BY <1>1, <1>2 DEF RegistryInvariant, EveryManifestIsUsed
<1>6. \A s, t \in registered' : s.kind = t.kind /\ s.id = t.id => s = t
  BY <1>1, <1>2, <1>3 DEF RegistryInvariant, RegistryIsUnambiguous
<1>7. \A s, t \in registered' :
          Names(s.manifest) = Names(t.manifest) => s.manifest = t.manifest
  <2>1. \A s \in registered : Names(s.manifest) = Names(m) => s.manifest = m
    BY <1>3 DEF RegistryInvariant, EveryManifestIsUsed, ManifestFits
  <2> QED
    BY <1>1, <1>2, <2>1 DEF RegistryInvariant, RegistryIsUnambiguous
<1>8. \A s \in registered' : s.kind = KindOf[s.plugin] /\ s.kind = s.manifest.kind
  BY <1>1, <1>2, <1>3 DEF RegistryInvariant, RegistryIsUnambiguous
<1>9. \A kind \in Kinds : Cardinality(OfKind(kind)') <= Capacity[kind]
  BY <1>1, <1>2, <1>3, RoomForOneMore
<1>10. Cardinality(manifests') <= ManifestCapacity
  BY <1>2, <1>3, RoomForItsManifest
<1> QED
  BY <1>4, <1>5, <1>6, <1>7, <1>8, <1>9, <1>10 DEF RegistryInvariant, RegistryIsUnambiguous

\* A registration, accepted or not.
LEMMA RegistrationKeepsInvariant ==
    ASSUME RegistryInvariant, NEW p \in Plugins, NEW m, NEW id,
           NEW accepted \in BOOLEAN, accepted => MayRegister(p, m, id),
           Register(p, m, id, accepted)
    PROVE  RegistryInvariant'
<1>1. CASE accepted
  <2>1. Register(p, m, id, TRUE)
    BY <1>1 DEF Register, ManifestsAfter
  <2> QED
    BY <1>1, <2>1, AcceptedRegistration
<1>2. CASE ~accepted
  <2>1. registered' = registered /\ manifests' = manifests
    BY <1>2 DEF Register, ManifestsAfter
  <2> QED
    BY <2>1, QuietRegistryStep
<1> QED
  BY <1>1, <1>2

LEMMA RegistryStep == RegistryInvariant /\ [RegistryNext]_registry => RegistryInvariant'
<1> SUFFICES ASSUME RegistryInvariant, [RegistryNext]_registry PROVE RegistryInvariant'
  OBVIOUS
<1>1. ASSUME NEW p \in Plugins, NEW m \in PluginManifests, RegisterMetric(p, m)
      PROVE  RegistryInvariant'
  <2> DEFINE accepted == MayRegister(p, m, DescribedId(p))
  <2>1. accepted \in BOOLEAN
    BY DEF MayRegister
  <2>2. Register(p, m, DescribedId(p), accepted)
    BY <1>1 DEF RegisterMetric
  <2> QED
    BY <2>1, <2>2, RegistrationKeepsInvariant
<1>2. ASSUME NEW p \in Plugins, NEW m \in PluginManifests, RegisterExecutor(p, m)
      PROVE  RegistryInvariant'
  <2> DEFINE accepted == MayRegister(p, m, DescribedId(p)) /\ MatchesManifest(p, m)
  <2>1. accepted \in BOOLEAN
    BY DEF MayRegister
  <2>2. Register(p, m, DescribedId(p), accepted)
    BY <1>2 DEF RegisterExecutor
  <2> QED
    BY <2>1, <2>2, RegistrationKeepsInvariant
<1>3. ASSUME NEW p \in Plugins, NEW m \in PluginManifests, NEW id \in Ids,
             RegisterAdapter(p, m, id)
      PROVE  RegistryInvariant'
  <2> DEFINE accepted == MayRegister(p, m, id) /\ MatchesManifest(p, m)
  <2>1. accepted \in BOOLEAN
    BY DEF MayRegister
  <2>2. Register(p, m, id, accepted)
    BY <1>3 DEF RegisterAdapter
  <2> QED
    BY <2>1, <2>2, RegistrationKeepsInvariant
<1>4. ASSUME NEW p \in Plugins, Drift(p)
      PROVE  RegistryInvariant'
  BY <1>4, QuietRegistryStep DEF Drift
<1>5. CASE UNCHANGED registry
  BY <1>5, QuietRegistryStep DEF registry
<1> QED
  BY <1>1, <1>2, <1>3, <1>4, <1>5 DEF RegistryNext

\* Every manifest the registry stores belongs to something registered under it,
\* however many registrations were refused in between.
THEOREM RegistryLeavesNoTraceOfRefusals == RegistrySpec => []EveryManifestIsUsed
<1>1. RegistryInvariant => EveryManifestIsUsed
  BY DEF RegistryInvariant
<1> QED
  BY <1>1, RegistryInitially, RegistryStep, PTL DEF RegistrySpec

\* One owner for an identifier, one identity for a package, and no table above
\* its capacity.
THEOREM RegistryStaysUnambiguous == RegistrySpec => []RegistryIsUnambiguous
<1>1. RegistryInvariant => RegistryIsUnambiguous
  BY DEF RegistryInvariant
<1> QED
  BY <1>1, RegistryInitially, RegistryStep, PTL DEF RegistrySpec
-----------------------------------------------------------------------------
(* The comparison as a host of the registry *)

\* Besides the host's own calls, plug-in code that changes its mind is all that
\* reaches the registry.
LEMMA HostSteps == [Next]_vars => [RegistryNext]_registry
<1> SUFFICES ASSUME [Next]_vars PROVE [RegistryNext]_registry
  OBVIOUS
<1>1. CASE ConfigureHost
  BY <1>1 DEF ConfigureHost
<1>2. CASE DriftMeanwhile
  BY <1>2 DEF DriftMeanwhile, RegistryNext
<1>3. CASE Start \/ RunAgain \/ Compile
  BY <1>3 DEF Start, RunAgain, LookUp, Compile
<1>4. CASE Execute \/ Analyse \/ Judge \/ Assemble \/ Finish
  BY <1>4 DEF Execute, Analyse, Judge, Assemble, Finish
<1>5. CASE UNCHANGED vars
  BY <1>5 DEF vars
<1> QED
  BY <1>1, <1>2, <1>3, <1>4, <1>5 DEF Next

\* What a comparison does to the registry is a behaviour of the registry alone.
THEOREM ComparisonDrivesRegistry == Spec => RegistrySpec
<1>1. Init => RegistryInit
  BY DEF Init
<1> QED
  BY <1>1, HostSteps, PTL DEF Spec, RegistrySpec

-----------------------------------------------------------------------------
(* The inductive invariant of a comparison *)

\* The identifier of a metric is the one it declared.
MetricsAreNamed == \A r \in OfKind("metric") : r.declaration.id = r.id

\* The metrics of the plan, from what was registered and nothing else.
FrozenMetrics(r) ==
    {[base |-> s.id, scope |-> scope, terms |-> s.declaration.terms] :
        s \in OfKind("metric"), scope \in Scopes(r.suite, r.slice_keys)}

FrozenPlan(r) ==
    [suite |-> r.suite, policy |-> r.policy, resamples |-> r.resamples,
     slice_keys |-> r.slice_keys, metrics |-> FrozenMetrics(r),
     plugins |-> {s.plugin : s \in Provenance(r)}]

\* What the compiler lets pass, from whichever descriptions it was made: every
\* metric stands on every scope and on no other, with the same terms on each, and
\* every rule has a metric of its direction.
IsWhole(p, r) ==
    /\ \A m \in p.metrics : m.scope \in Scopes(r.suite, r.slice_keys)
    /\ \A m \in p.metrics : \A scope \in Scopes(r.suite, r.slice_keys) :
          \E n \in p.metrics : n.base = m.base /\ n.scope = scope
    /\ \A m, n \in p.metrics : m.base = n.base => m.terms = n.terms
    /\ \A rule \in r.policy.rules : IsBound(rule, p.metrics)

\* A metric that was looked up is still what it was registered as, unless one
\* changed since.
LookedUpIsUnchanged ==
    pc = "compile" =>
        runs \in strayed \/ \A r \in OfKind("metric") : IsUnchanged(r)

PlanHolds ==
    pc \in {"run", "analyse", "judge", "assemble", "report"} =>
        /\ IsWhole(plan, request)
        /\ runs \in strayed \/ plan = FrozenPlan(request)

\* Nothing has been asked for while the host may still register.
HostIsFirst ==
    pc = "host" => groups = {} /\ report = Missing /\ earlier = Missing

RequestIsKnown == pc # "host" => request \in Requests

\* Outputs are there from the first run on.
OutputsRepeat ==
    /\ pc \in {"analyse", "judge", "assemble", "report"} => outputs # Missing
    /\ outputs = Missing => report = Missing /\ earlier = Missing

\* What each step found is still what it would find.
StepsAgree ==
    /\ pc \in {"judge", "assemble", "report"} => groups = Groups
    /\ pc \in {"assemble", "report"} =>
          findings = RuleFindings \cup {CriticalFinding(c) : c \in CriticalFailures}
    /\ pc = "report" => evidence = [sets |-> EvidenceSets, entries |-> Entries,
                                    supplemental |-> request.supplemental \ Entries]

-----------------------------------------------------------------------------
(* What replays *)

TermsIn(p, base) == (CHOOSE m \in p.metrics : m.base = base /\ m.scope = Overall).terms

\* Samples of everything but latency.
StableSample(c) == [s \in Sides |-> IF IsRight(s, c) THEN 1 ELSE 0]

Measured(gs) == {<<g.base, g.scope, g.cases>> : g \in gs}

Stable(M) == {t \in M : t[1] # Latency}

SetsOf(M) == {EvidenceSet(t[3]) : t \in M} \cup {PairRefs(c) : c \in CriticalFailures}

SetOf(rule, M) ==
    LET found == {t \in M : t[1] = rule.base /\ t[2] = rule.scope}
    IN  IF found = {} THEN Missing ELSE EvidenceSet((CHOOSE t \in found : TRUE)[3])

Replays(rule, M) ==
    rule.base = Missing \/ \E t \in Stable(M) : t[1] = rule.base /\ t[2] = rule.scope

\* The evidence identity as a function of the request, the plan, the outputs and
\* the cases that were measured: of no latency.
Identity(p, M) ==
    [plan |-> p,
     metrics |-> {[base |-> t[1], scope |-> t[2], terms |-> TermsIn(p, t[1]), cases |-> t[3],
                   samples |-> [c \in t[3] |-> StableSample(c)]] : t \in Stable(M)},
     finding_evidence |->
         {[rule |-> rule.rule, set |-> SetOf(rule, M)] :
             rule \in {r \in request.policy.rules : Replays(r, M)}}
         \cup {[rule |-> c, set |-> PairRefs(c)] : c \in CriticalFailures},
     manifest |-> <<SetsOf(M), UNION SetsOf(M)>>,
     evidence |-> request.supplemental \ UNION SetsOf(M)]

HasItsIdentity(r) ==
    r # Missing =>
        /\ \A M : M = MeasuredCases(r) => r.evidence_id = Identity(r.plan, M)
        /\ strayed = {} => r.plan = FrozenPlan(request)

ComparisonInvariant ==
    /\ RegistryInvariant
    /\ MetricsAreNamed
    /\ LookedUpIsUnchanged
    /\ PlanHolds
    /\ HostIsFirst
    /\ RequestIsKnown
    /\ OutputsRepeat
    /\ StepsAgree
    /\ AnalysedAsPlanned
    /\ BlockIsExplained
    /\ HasItsIdentity(report) /\ HasItsIdentity(earlier)

-----------------------------------------------------------------------------
(* What does not change while its inputs do not *)

\* The frozen plan depends on the registrations only.
LEMMA FrozenPlanStays ==
    ASSUME registered' = registered
    PROVE  \A r : FrozenPlan(r)' = FrozenPlan(r) /\ FrozenMetrics(r)' = FrozenMetrics(r)
<1> SUFFICES ASSUME NEW r
             PROVE  FrozenPlan(r)' = FrozenPlan(r) /\ FrozenMetrics(r)' = FrozenMetrics(r)
  OBVIOUS
<1>1. OfKind("metric")' = OfKind("metric")
  BY DEF OfKind
<1>2. FrozenMetrics(r)' = FrozenMetrics(r)
  BY <1>1 DEF FrozenMetrics
<1>3. MetricPlugins' = MetricPlugins
  BY <1>1 DEF MetricPlugins
<1>4. Provenance(r)' = Provenance(r)
  BY <1>3 DEF Provenance
<1> QED
  BY <1>2, <1>4 DEF FrozenPlan

\* What the outputs say of the cases.
LEMMA OutputsStay ==
    ASSUME request' = request, outputs' = outputs
    PROVE  /\ \A s, c : IsRight(s, c)' <=> IsRight(s, c)
           /\ \A c : StableSample(c)' = StableSample(c)
           /\ CriticalFailures' = CriticalFailures
           /\ \A cases : EvidenceSet(cases)' = EvidenceSet(cases)
           /\ \A c : PairRefs(c)' = PairRefs(c) /\ CriticalFinding(c)' = CriticalFinding(c)
<1>1. \A s, c : IsRight(s, c)' <=> IsRight(s, c)
  BY DEF IsRight
<1>2. \A c : StableSample(c)' = StableSample(c)
  BY <1>1 DEF StableSample
<1>3. CriticalFailures' = CriticalFailures
  BY <1>1 DEF CriticalFailures
<1>4. \A s, c : ObservationRef(s, c)' = ObservationRef(s, c)
  BY DEF ObservationRef
<1>5. \A cases : EvidenceSet(cases)' = EvidenceSet(cases)
  BY <1>4 DEF EvidenceSet
<1>6. \A c : PairRefs(c)' = PairRefs(c)
  BY <1>5 DEF PairRefs
<1>7. \A c : CriticalFinding(c)' = CriticalFinding(c)
  BY <1>6 DEF CriticalFinding
<1> QED
  BY <1>1, <1>2, <1>3, <1>5, <1>6, <1>7

LEMMA IdentityStays ==
    ASSUME request' = request, outputs' = outputs, NEW p
    PROVE  \A M : Identity(p, M)' = Identity(p, M)
<1> SUFFICES ASSUME NEW M PROVE Identity(p, M)' = Identity(p, M)
  OBVIOUS
<1>2. \A base : TermsIn(p, base)' = TermsIn(p, base)
  BY DEF TermsIn
<1>3. SetsOf(M)' = SetsOf(M) /\ \A rule : SetOf(rule, M)' = SetOf(rule, M)
  BY OutputsStay DEF SetsOf, SetOf
<1>4. {[base |-> t[1], scope |-> t[2], terms |-> TermsIn(p, t[1]), cases |-> t[3],
        samples |-> [c \in t[3] |-> StableSample(c)]] : t \in Stable(M)}'
      = {[base |-> t[1], scope |-> t[2], terms |-> TermsIn(p, t[1]), cases |-> t[3],
          samples |-> [c \in t[3] |-> StableSample(c)]] : t \in Stable(M)}
  BY <1>2, OutputsStay DEF Stable
<1>5. ({[rule |-> rule.rule, set |-> SetOf(rule, M)] :
             rule \in {r \in request.policy.rules : Replays(r, M)}}
       \cup {[rule |-> c, set |-> PairRefs(c)] : c \in CriticalFailures})'
      = {[rule |-> rule.rule, set |-> SetOf(rule, M)] :
             rule \in {r \in request.policy.rules : Replays(r, M)}}
        \cup {[rule |-> c, set |-> PairRefs(c)] : c \in CriticalFailures}
  BY <1>3, OutputsStay DEF Replays, Stable
<1> QED
  BY <1>3, <1>4, <1>5 DEF Identity

\* The groups depend on the run, findings and evidence on the groups.
LEMMA AnalysisStays ==
    ASSUME request' = request, plan' = plan, outputs' = outputs, timings' = timings
    PROVE  Groups' = Groups
<1>1. \A id, c : Sample(id, c)' = Sample(id, c)
  BY OutputsStay DEF Sample
<1>2. \A id, c : IsMeasured(id, c)' <=> IsMeasured(id, c)
  BY <1>1 DEF IsMeasured
<1>3. RunScopes' = RunScopes
  BY DEF RunScopes
<1>4. \A base : Declared(base)' = Declared(base)
  BY DEF Declared
<1>5. \A base, scope :
          {c \in ToSet(request.suite) : InScope(c, scope) /\ IsMeasured(base, c)}'
          = {c \in ToSet(request.suite) : InScope(c, scope) /\ IsMeasured(base, c)}
  BY <1>2 DEF InScope
<1>6. \A base, scope : Group(base, scope)' = Group(base, scope)
  BY <1>1, <1>4, <1>5 DEF Group
<1> QED
  BY <1>3, <1>6 DEF Groups

LEMMA JudgementStays ==
    ASSUME request' = request, outputs' = outputs, groups' = groups
    PROVE  RuleFindings' = RuleFindings /\ EvidenceSets' = EvidenceSets /\ Entries' = Entries
<1>1. \A g, s : Total(g, s)' = Total(g, s)
  OBVIOUS
<1>2. \A rule : Verdict(rule)' = Verdict(rule)
  BY <1>1 DEF Verdict
<1>3. \A rule : RuleFinding(rule)' = RuleFinding(rule)
  BY <1>2, OutputsStay DEF RuleFinding
<1>4. RuleFindings' = RuleFindings
  BY <1>3 DEF RuleFindings
<1>5. EvidenceSets' = EvidenceSets
  BY OutputsStay DEF EvidenceSets
<1> QED
  BY <1>4, <1>5 DEF Entries

-----------------------------------------------------------------------------
(* The plan *)

LEMMA MetricsStayNamed == MetricsAreNamed /\ [RegistryNext]_registry => MetricsAreNamed'
<1> SUFFICES ASSUME MetricsAreNamed, [RegistryNext]_registry PROVE MetricsAreNamed'
  OBVIOUS
<1>1. ASSUME registered' = registered PROVE MetricsAreNamed'
  BY <1>1 DEF MetricsAreNamed, OfKind
<1>2. ASSUME NEW p \in Plugins, NEW m, NEW id, NEW accepted, Register(p, m, id, accepted),
             KindOf[p] = "metric" /\ accepted => described[p].id = id
      PROVE  MetricsAreNamed'
  <2>1. registered' \subseteq registered \cup {Registration(p, m, id)}
    BY <1>2 DEF Register
  <2>2. CASE ~accepted
    BY <1>1, <1>2, <2>2 DEF Register
  <2>3. CASE accepted
    <3>1. Registration(p, m, id).kind = KindOf[p] /\ Registration(p, m, id).id = id
          /\ Registration(p, m, id).declaration = described[p]
      BY DEF Registration
    <3> QED
      BY <1>2, <2>1, <2>3, <3>1 DEF MetricsAreNamed, OfKind
  <2> QED
    BY <2>2, <2>3
<1>3. ASSUME NEW p \in Plugins, NEW m \in PluginManifests, RegisterMetric(p, m)
      PROVE  MetricsAreNamed'
  <2>1. MayRegister(p, m, DescribedId(p)) => described[p].id = DescribedId(p)
    BY DEF MayRegister, DescribedId
  <2>2. Register(p, m, DescribedId(p), MayRegister(p, m, DescribedId(p)))
    BY <1>3 DEF RegisterMetric
  <2> QED
    BY <1>2, <2>1, <2>2
<1>4. ASSUME NEW p \in Plugins, NEW m \in PluginManifests, RegisterExecutor(p, m)
      PROVE  MetricsAreNamed'
  <2>1. /\ KindOf[p] = "executor"
        /\ Register(p, m, DescribedId(p),
                    MayRegister(p, m, DescribedId(p)) /\ MatchesManifest(p, m))
    BY <1>4 DEF RegisterExecutor
  <2> QED
    BY <1>2, <2>1
<1>5. ASSUME NEW p \in Plugins, NEW m \in PluginManifests, NEW id \in Ids,
             RegisterAdapter(p, m, id)
      PROVE  MetricsAreNamed'
  <2>1. /\ KindOf[p] = "adapter"
        /\ Register(p, m, id, MayRegister(p, m, id) /\ MatchesManifest(p, m))
    BY <1>5 DEF RegisterAdapter
  <2> QED
    BY <1>2, <2>1
<1>6. CASE (\E p \in Plugins : Drift(p)) \/ UNCHANGED registry
  BY <1>1, <1>6 DEF Drift, registry
<1> QED
  BY <1>3, <1>4, <1>5, <1>6 DEF RegistryNext

\* A plan of metrics that have not changed is that of their registrations.
LEMMA CompiledPlan ==
    ASSUME MetricsAreNamed, NEW r, \A s \in OfKind("metric") : IsUnchanged(s)
    PROVE  Plan(r, RegisteredMetrics, Provenance(r)) = FrozenPlan(r)
<1>1. \A s \in OfKind("metric") : described[s.plugin] = s.declaration /\ s.declaration.id = s.id
  BY DEF IsUnchanged, MetricsAreNamed
<1>2. Declarations(RegisteredMetrics) = {s.declaration : s \in OfKind("metric")}
  BY <1>1 DEF Declarations, RegisteredMetrics
<1>3. PlannedMetrics(RegisteredMetrics, r.suite, r.slice_keys) = FrozenMetrics(r)
  BY <1>1, <1>2 DEF PlannedMetrics, FrozenMetrics
<1> QED
  BY <1>3 DEF Plan, FrozenPlan

\* Every plan the compiler lets pass is whole, whatever the metrics say.
LEMMA CompiledIsWhole ==
    ASSUME NEW r, NEW metrics, NEW provenance, Compiles(r, metrics, provenance)
    PROVE  IsWhole(Plan(r, metrics, provenance), r)
<1> DEFINE scopes == Scopes(r.suite, r.slice_keys)
           D == Declarations(metrics)
           planned == PlannedMetrics(metrics, r.suite, r.slice_keys)
<1>1. Plan(r, metrics, provenance).metrics = planned
  BY DEF Plan
<1>2. planned = {[base |-> d.id, scope |-> scope, terms |-> d.terms] : d \in D, scope \in scopes}
  BY DEF PlannedMetrics
<1>3. \A d, e \in D : d.id = e.id => d = e
  BY DEF Compiles, MetricsAreValid, Declarations
<1>4. \A rule \in r.policy.rules : IsBound(rule, planned)
  BY DEF Compiles
<1> HIDE DEF scopes, D, planned
<1>5. \A m \in planned : \E d \in D : m.base = d.id /\ m.terms = d.terms /\ m.scope \in scopes
  BY <1>2
<1>6. \A m, n \in planned : m.base = n.base => m.terms = n.terms
  BY <1>3, <1>5
<1>7. ASSUME NEW m \in planned, NEW scope \in scopes
      PROVE  \E n \in planned : n.base = m.base /\ n.scope = scope
  <2>1. PICK d \in D : m.base = d.id
    BY <1>5
  <2>2. [base |-> d.id, scope |-> scope, terms |-> d.terms] \in planned
    BY <1>2
  <2> QED
    BY <2>1, <2>2
<1> QED
  BY <1>1, <1>4, <1>5, <1>6, <1>7 DEF IsWhole, scopes

\* The scopes the plan derives from the suite and those the analysis derives
\* from the cases are the same.
LEMMA SameScopes == RunScopes = Scopes(request.suite, request.slice_keys)
<1> DEFINE keys == ToSet(request.slice_keys)
           suite == ToSet(request.suite)
           planned == UNION {{key} \X Values(request.suite, key) : key \in keys}
           run == UNION {{<<key, CaseSlices[c][key]>> : key \in {k \in keys : HasKey(c, k)}} : c \in suite}
<1>1. ASSUME NEW scope \in planned PROVE scope \in run
  <2>1. PICK key \in keys : scope \in {key} \X Values(request.suite, key)
    OBVIOUS
  <2>2. PICK c \in suite : HasKey(c, key) /\ scope = <<key, CaseSlices[c][key]>>
    BY <2>1 DEF Values
  <2> QED
    BY <2>2
<1>2. ASSUME NEW scope \in run PROVE scope \in planned
  <2>1. PICK c \in suite : scope \in {<<key, CaseSlices[c][key]>> : key \in {k \in keys : HasKey(c, k)}}
    OBVIOUS
  <2>2. PICK key \in keys : HasKey(c, key) /\ scope = <<key, CaseSlices[c][key]>>
    BY <2>1
  <2>3. CaseSlices[c][key] \in Values(request.suite, key)
    BY <2>2 DEF Values
  <2> QED
    BY <2>2, <2>3
<1>3. run = planned
  BY <1>1, <1>2
<1> QED
  BY <1>3 DEF RunScopes, Scopes

\* A scope other than the whole suite is a value some case of it has.
LEMMA ScopeIsASlice ==
    ASSUME NEW scope \in RunScopes, scope # Overall
    PROVE  \E key \in ToSet(request.slice_keys) : \E c \in ToSet(request.suite) :
               HasKey(c, key) /\ scope = <<key, CaseSlices[c][key]>>
<1>1. PICK c \in ToSet(request.suite) :
          scope \in {<<key, CaseSlices[c][key]>> : key \in {k \in ToSet(request.slice_keys) : HasKey(c, k)}}
  BY DEF RunScopes
<1> QED
  BY <1>1

LEMMA SliceIsAScope ==
    ASSUME NEW c \in ToSet(request.suite), NEW key \in ToSet(request.slice_keys), HasKey(c, key)
    PROVE  <<key, CaseSlices[c][key]>> \in RunScopes
BY DEF RunScopes

\* A slice is never taken for the whole.
LEMMA SliceIsNotOverall ==
    ASSUME RequestIsKnown, pc # "host",
           NEW c \in ToSet(request.suite), NEW key, HasKey(c, key)
    PROVE  <<key, CaseSlices[c][key]>> # Overall
<1>1. request.suite \in Seq(Cases)
  BY ComparisonAssumption DEF RequestIsKnown
<1>2. c \in Cases
  BY <1>1 DEF ToSet
<1> QED
  BY <1>2, ComparisonAssumption DEF HasKey

-----------------------------------------------------------------------------
(* The groups *)

\* A group is that of its metric and its scope, and has a case.
LEMMA GroupOfItsScope ==
    ASSUME NEW g \in Groups
    PROVE  /\ g = Group(g.base, g.scope) /\ g.scope \in RunScopes /\ g.cases # {}
           /\ \E m \in plan.metrics : m.base = g.base
<1>1. PICK m \in plan.metrics, scope \in RunScopes : g = Group(m.base, scope) /\ g.cases # {}
  BY DEF Groups
<1>2. g.base = m.base /\ g.scope = scope
  BY <1>1 DEF Group
<1> QED
  BY <1>1, <1>2

LEMMA CasesOfGroup ==
    ASSUME NEW base, NEW scope
    PROVE  /\ Group(base, scope).base = base /\ Group(base, scope).scope = scope
           /\ Group(base, scope).cases =
                  {c \in ToSet(request.suite) : InScope(c, scope) /\ IsMeasured(base, c)}
BY DEF Group

\* What a metric measured in a scope is a group.
LEMMA GroupWithCase ==
    ASSUME NEW m \in plan.metrics, NEW scope \in RunScopes, NEW c \in ToSet(request.suite),
           InScope(c, scope), IsMeasured(m.base, c)
    PROVE  Group(m.base, scope) \in Groups /\ c \in Group(m.base, scope).cases
BY CasesOfGroup DEF Groups

\* The declaration the analysis reads is in the plan, and has the terms of its
\* metric.
LEMMA DeclaredIsPlanned ==
    ASSUME IsWhole(plan, request), NEW m \in plan.metrics
    PROVE  /\ Declared(m.base).terms = m.terms
           /\ Declared(m.base).terms = TermsIn(plan, m.base)
<1>1. Overall \in Scopes(request.suite, request.slice_keys)
  BY DEF Scopes
<1>2. \E d \in plan.metrics : d.base = m.base /\ d.scope = Overall
  BY <1>1 DEF IsWhole
<1>3. Declared(m.base) \in plan.metrics /\ Declared(m.base).base = m.base
  BY <1>2 DEF Declared
<1>4. Declared(m.base).terms = m.terms
  BY <1>3 DEF IsWhole
<1> QED
  BY <1>4 DEF Declared, TermsIn

\* Every metric is planned on every scope, and on no other.
LEMMA PlannedScopes ==
    ASSUME IsWhole(plan, request), NEW m \in plan.metrics
    PROVE  /\ m.scope \in RunScopes
           /\ \A scope \in RunScopes : \E d \in plan.metrics : d.base = m.base /\ d.scope = scope
BY SameScopes DEF IsWhole

-----------------------------------------------------------------------------
(* The analysis covers the plan *)

LEMMA GroupsArePlanned ==
    ASSUME IsWhole(plan, request), NEW g \in Groups
    PROVE  \E m \in plan.metrics : m.base = g.base /\ m.scope = g.scope
<1>1. PICK m \in plan.metrics : m.base = g.base
  BY GroupOfItsScope
<1>2. g.scope \in RunScopes
  BY GroupOfItsScope
<1> QED
  BY <1>1, <1>2, PlannedScopes

\* A planned scope without a group has none of the cases measured overall.
LEMMA UncoveredIsUnmeasured ==
    ASSUME IsWhole(plan, request), NEW m \in plan.metrics,
           ~\E g \in Groups : g.base = m.base /\ g.scope = m.scope,
           NEW g \in Groups, g.base = m.base, g.scope = Overall, NEW c \in g.cases
    PROVE  ~InScope(c, m.scope) /\ m.scope # Overall
<1>1. c \in ToSet(request.suite) /\ IsMeasured(m.base, c)
  BY GroupOfItsScope, CasesOfGroup
<1>2. m.scope \in RunScopes
  BY PlannedScopes
<1>3. ~InScope(c, m.scope)
  BY <1>1, <1>2, GroupWithCase, CasesOfGroup
<1> QED
  BY <1>3 DEF InScope

LEMMA SlicesDivideTheWhole ==
    ASSUME IsWhole(plan, request), groups = Groups, RequestIsKnown, pc # "host",
           NEW overall \in groups, overall.scope = Overall, NEW key \in ToSet(request.slice_keys)
    PROVE  /\ UNION {g.cases : g \in GroupsOn(overall.base, key)} = {c \in overall.cases : HasKey(c, key)}
           /\ \A g, h \in GroupsOn(overall.base, key) : g.cases \cap h.cases # {} => g = h
<1>1. overall.cases = {c \in ToSet(request.suite) : IsMeasured(overall.base, c)}
  BY GroupOfItsScope, CasesOfGroup DEF InScope
<1>2. ASSUME NEW g \in GroupsOn(overall.base, key), NEW c \in g.cases
      PROVE  /\ c \in overall.cases /\ HasKey(c, key)
             /\ g = Group(overall.base, <<key, CaseSlices[c][key]>>)
  <2>1. g \in Groups /\ g.base = overall.base /\ g.scope # Overall /\ g.scope[1] = key
    BY DEF GroupsOn
  <2>2. g = Group(overall.base, g.scope) /\ g.scope \in RunScopes
    BY <2>1, GroupOfItsScope
  <2>3. c \in ToSet(request.suite) /\ InScope(c, g.scope) /\ IsMeasured(overall.base, c)
    BY <2>2, CasesOfGroup
  <2>4. HasKey(c, key) /\ CaseSlices[c][key] = g.scope[2]
    BY <2>1, <2>3 DEF InScope
  <2>5. PICK k \in ToSet(request.slice_keys) : \E d \in ToSet(request.suite) :
            g.scope = <<k, CaseSlices[d][k]>>
    BY <2>1, <2>2, ScopeIsASlice
  <2>6. g.scope = <<key, CaseSlices[c][key]>>
    BY <2>1, <2>4, <2>5
  <2> QED
    BY <1>1, <2>2, <2>3, <2>4, <2>6
<1>3. ASSUME NEW c \in overall.cases, HasKey(c, key)
      PROVE  \E g \in GroupsOn(overall.base, key) : c \in g.cases
  <2> DEFINE scope == <<key, CaseSlices[c][key]>>
  <2>1. c \in ToSet(request.suite) /\ IsMeasured(overall.base, c)
    BY <1>1
  <2>2. scope \in RunScopes /\ scope # Overall
    BY <1>3, <2>1, SliceIsAScope, SliceIsNotOverall
  <2>3. InScope(c, scope)
    BY <1>3 DEF InScope
  <2>4. PICK m \in plan.metrics : m.base = overall.base
    BY GroupOfItsScope
  <2>5. Group(overall.base, scope) \in Groups /\ c \in Group(overall.base, scope).cases
    <3> HIDE DEF scope
    <3> QED
      BY <2>1, <2>2, <2>3, <2>4, GroupWithCase
  <2>6. scope[1] = key
    OBVIOUS
  <2> HIDE DEF scope
  <2>7. Group(overall.base, scope) \in GroupsOn(overall.base, key)
    BY <2>2, <2>5, <2>6, CasesOfGroup DEF GroupsOn
  <2> QED
    BY <2>5, <2>7
<1>4. UNION {g.cases : g \in GroupsOn(overall.base, key)} = {c \in overall.cases : HasKey(c, key)}
  BY <1>2, <1>3
<1>5. \A g, h \in GroupsOn(overall.base, key) : g.cases \cap h.cases # {} => g = h
  BY <1>2
<1> QED
  BY <1>4, <1>5

LEMMA GroupsCoverThePlan ==
    ASSUME PlanHolds, RequestIsKnown, StepsAgree
    PROVE  EvidenceCoversThePlan
<1> SUFFICES ASSUME pc \in {"judge", "assemble", "report"} PROVE EvidenceCoversThePlan
  BY DEF EvidenceCoversThePlan
<1>1. IsWhole(plan, request) /\ groups = Groups /\ pc # "host"
  BY DEF PlanHolds, StepsAgree
<1>2. \A g \in groups : \E m \in plan.metrics : m.base = g.base /\ m.scope = g.scope
  BY <1>1, GroupsArePlanned
<1>3. ASSUME NEW m \in plan.metrics, ~\E g \in groups : g.base = m.base /\ g.scope = m.scope,
             NEW g \in groups, g.base = m.base, g.scope = Overall, NEW c \in g.cases
      PROVE  ~(HasKey(c, m.scope[1]) /\ CaseSlices[c][m.scope[1]] = m.scope[2])
  BY <1>1, <1>3, UncoveredIsUnmeasured DEF InScope
<1>4. \A overall \in {g \in groups : g.scope = Overall} :
          \A key \in ToSet(request.slice_keys) :
              /\ UNION {g.cases : g \in GroupsOn(overall.base, key)} =
                     {c \in overall.cases : HasKey(c, key)}
              /\ \A g, h \in GroupsOn(overall.base, key) : g.cases \cap h.cases # {} => g = h
  BY <1>1, SlicesDivideTheWhole
<1> QED
  BY <1>2, <1>3, <1>4 DEF EvidenceCoversThePlan

\* The terms of every group are those of its metric in the plan, and the rules
\* that judge it were bound in their direction.
LEMMA GroupsAreAsPlanned ==
    ASSUME IsWhole(plan, request), NEW g \in Groups
    PROVE  /\ g.terms = TermsIn(plan, g.base)
           /\ \E m \in plan.metrics : m.base = g.base /\ m.terms = g.terms
           /\ \A rule \in request.policy.rules :
                 rule.base = g.base /\ rule.scope = g.scope => rule.direction = g.terms.direction
<1>1. PICK m \in plan.metrics : m.base = g.base
  BY GroupOfItsScope
<1>2. g.terms = Declared(g.base).terms
  <2>1. g = Group(g.base, g.scope)
    BY GroupOfItsScope
  <2>2. Group(g.base, g.scope).terms = Declared(g.base).terms
    BY DEF Group
  <2> QED
    BY <2>1, <2>2
<1>3. m.terms = g.terms /\ g.terms = TermsIn(plan, g.base)
  BY <1>1, <1>2, DeclaredIsPlanned
<1>4. ASSUME NEW rule \in request.policy.rules, rule.base = g.base
      PROVE  rule.direction = g.terms.direction
  <2>1. PICK n \in plan.metrics : n.base = rule.base /\ n.terms.direction = rule.direction
    BY DEF IsWhole, IsBound
  <2>2. n.terms = m.terms
    BY <1>1, <1>4, <2>1 DEF IsWhole
  <2> QED
    BY <1>3, <2>1, <2>2
<1> QED
  BY <1>1, <1>3, <1>4

\* What the analysis of a plan that holds says of its groups.
LEMMA AnalysisIsAsPlanned ==
    ASSUME IsWhole(plan, request), runs \in strayed \/ plan = FrozenPlan(request),
           UNCHANGED <<registered, request, runs, strayed>>, groups' = Groups
    PROVE  AnalysedAsPlanned'
<1>1. \A g \in Groups :
          /\ g.terms = TermsIn(plan, g.base)
          /\ \A rule \in request.policy.rules :
                rule.base = g.base /\ rule.scope = g.scope => rule.direction = g.terms.direction
  BY GroupsAreAsPlanned
<1>2. \A g, h \in Groups : h.base = g.base => h.terms = g.terms
  BY <1>1
<1>3. ASSUME NEW g \in Groups, plan = FrozenPlan(request)
      PROVE  \E r \in OfKind("metric") : r.id = g.base /\ r.declaration.terms = g.terms
  <2>1. PICK m \in plan.metrics : m.base = g.base /\ m.terms = g.terms
    BY GroupsAreAsPlanned
  <2>2. m \in FrozenMetrics(request)
    BY <1>3, <2>1 DEF FrozenPlan
  <2>3. PICK r \in OfKind("metric") : m.base = r.id /\ m.terms = r.declaration.terms
    BY <2>2 DEF FrozenMetrics
  <2> QED
    BY <2>1, <2>3
<1>4. OfKind("metric")' = OfKind("metric")
  BY DEF OfKind
<1> QED
  BY <1>1, <1>2, <1>3, <1>4 DEF AnalysedAsPlanned

-----------------------------------------------------------------------------
(* The report *)

LEMMA EvidenceOfACase ==
    ASSUME NEW cases, cases # {}
    PROVE  EvidenceSet(cases) # {}
<1>1. PICK c \in cases : TRUE
  OBVIOUS
<1>2. ObservationRef("baseline", c) \in EvidenceSet(cases)
  BY <1>1 DEF EvidenceSet, Sides
<1> QED
  BY <1>2

\* A rule that blocks has a group, whose evidence its finding points to.
LEMMA BlockingRuleIsExplained ==
    ASSUME groups = Groups, NEW rule, RuleFinding(rule).status = "block"
    PROVE  RuleFinding(rule).set \in EvidenceSets /\ RuleFinding(rule).set # {}
<1> DEFINE found == {g \in groups : g.base = rule.base /\ g.scope = rule.scope}
           chosen == CHOOSE h \in found : TRUE
<1>1. Verdict(rule) = "block"
  BY DEF RuleFinding
<1>2. found # {}
  BY <1>1 DEF Verdict
<1>3. chosen \in found
  BY <1>2
<1>4. RuleFinding(rule).set = EvidenceSet(chosen.cases)
  BY <1>2 DEF RuleFinding
<1>5. chosen \in Groups
  BY <1>3
<1> HIDE DEF found, chosen
<1>6. chosen.cases # {}
  BY <1>5, GroupOfItsScope
<1>7. EvidenceSet(chosen.cases) \in EvidenceSets
  BY <1>5 DEF EvidenceSets
<1> QED
  BY <1>4, <1>6, <1>7, EvidenceOfACase

LEMMA CriticalIsExplained ==
    ASSUME NEW c \in CriticalFailures
    PROVE  PairRefs(c) \in EvidenceSets /\ PairRefs(c) # {}
BY EvidenceOfACase DEF EvidenceSets, PairRefs

\* The report explains its blocks.
LEMMA FinishExplains ==
    ASSUME StepsAgree, Finish
    PROVE  BlockIsExplained'
<1>1. /\ groups = Groups
      /\ findings = RuleFindings \cup {CriticalFinding(c) : c \in CriticalFailures}
      /\ evidence = [sets |-> EvidenceSets, entries |-> Entries,
                     supplemental |-> request.supplemental \ Entries]
  BY DEF StepsAgree, Finish
<1>2. /\ report'.status = GateStatus /\ report'.findings = findings
      /\ report'.sets = EvidenceSets /\ report'.entries = Entries
  BY <1>1 DEF Finish
<1>3. ASSUME GateStatus = "block" PROVE \E f \in findings : f.status = "block"
  <2>1. CASE CriticalFailures # {}
    <3>1. PICK c \in CriticalFailures : TRUE
      BY <2>1
    <3>2. CriticalFinding(c) \in findings
      BY <1>1
    <3>3. CriticalFinding(c).status = "block"
      BY DEF CriticalFinding
    <3> QED
      BY <3>2, <3>3
  <2>2. CASE CriticalFailures = {}
    <3>1. \E f \in RuleFindings : f.status = "block"
      BY <1>3, <2>2 DEF GateStatus
    <3> QED
      BY <1>1, <3>1
  <2> QED
    BY <2>1, <2>2
<1>4. ASSUME NEW f \in findings, f.status = "block"
      PROVE  f.set \in EvidenceSets /\ f.set # {} /\ f.set \subseteq Entries
  <2>1. CASE f \in RuleFindings
    <3>1. PICK rule \in request.policy.rules : f = RuleFinding(rule)
      BY <2>1 DEF RuleFindings
    <3> QED
      BY <1>1, <1>4, <3>1, BlockingRuleIsExplained DEF Entries
  <2>2. ASSUME NEW c \in CriticalFailures, f = CriticalFinding(c)
        PROVE  f.set \in EvidenceSets /\ f.set # {} /\ f.set \subseteq Entries
    <3>1. f.set = PairRefs(c)
      BY <2>2 DEF CriticalFinding
    <3> QED
      BY <3>1, CriticalIsExplained DEF Entries
  <2> QED
    BY <1>1, <2>1, <2>2
<1> QED
  BY <1>2, <1>3, <1>4 DEF BlockIsExplained

-----------------------------------------------------------------------------
(* The identity of the evidence *)

\* A group of a metric other than latency is told by its scope and its cases.
LEMMA StableGroup ==
    ASSUME IsWhole(plan, request), NEW g \in Groups, g.base # Latency
    PROVE  g = [base |-> g.base, scope |-> g.scope, terms |-> TermsIn(plan, g.base),
                cases |-> g.cases, samples |-> [c \in g.cases |-> StableSample(c)]]
<1>1. g = Group(g.base, g.scope)
  BY GroupOfItsScope
<1>2. \A c : Sample(g.base, c) = StableSample(c)
  BY DEF Sample, StableSample
<1>3. g.terms = TermsIn(plan, g.base)
  BY GroupsAreAsPlanned
<1> DEFINE cases == {c \in ToSet(request.suite) : InScope(c, g.scope) /\ IsMeasured(g.base, c)}
<1>4. Group(g.base, g.scope) =
          [base |-> g.base, scope |-> g.scope, terms |-> Declared(g.base).terms, cases |-> cases,
           samples |-> [c \in cases |-> Sample(g.base, c)]]
  BY DEF Group
<1> HIDE DEF cases
<1>5. g.cases = cases /\ g.samples = [c \in cases |-> Sample(g.base, c)] /\ Declared(g.base).terms = g.terms
  BY <1>1, <1>4
<1> QED
  BY <1>1, <1>2, <1>3, <1>4, <1>5

\* The metrics of the identity.
LEMMA StableMetrics ==
    ASSUME IsWhole(plan, request), groups = Groups
    PROVE  StableGroups =
               {[base |-> t[1], scope |-> t[2], terms |-> TermsIn(plan, t[1]), cases |-> t[3],
                 samples |-> [c \in t[3] |-> StableSample(c)]] : t \in Stable(Measured(groups))}
<1> DEFINE Of(t) == [base |-> t[1], scope |-> t[2], terms |-> TermsIn(plan, t[1]), cases |-> t[3],
                     samples |-> [c \in t[3] |-> StableSample(c)]]
           Triple(g) == <<g.base, g.scope, g.cases>>
<1>1. \A g \in StableGroups : Triple(g) \in Stable(Measured(groups)) /\ g = Of(Triple(g))
  <2> SUFFICES ASSUME NEW g \in StableGroups
               PROVE  Triple(g) \in Stable(Measured(groups)) /\ g = Of(Triple(g))
    OBVIOUS
  <2>1. g \in Groups /\ g.base # Latency
    BY DEF StableGroups
  <2>2. Triple(g) \in Stable(Measured(groups))
    BY <2>1 DEF Stable, Measured
  <2> QED
    BY <2>1, <2>2, StableGroup
<1>2. \A t \in Stable(Measured(groups)) : \E g \in StableGroups : t = Triple(g)
  BY DEF Stable, Measured, StableGroups
<1> HIDE DEF Of, Triple
<1>3. StableGroups = {Of(t) : t \in Stable(Measured(groups))}
  BY <1>1, <1>2
<1> QED
  BY <1>3 DEF Of

\* The set of a rule, and whether it replays.
LEMMA SetOfRule ==
    ASSUME groups = Groups, NEW rule
    PROVE  /\ RuleFinding(rule).set = SetOf(rule, Measured(groups))
           /\ (\E g \in StableGroups : g.base = rule.base /\ g.scope = rule.scope) <=>
                  \E t \in Stable(Measured(groups)) : t[1] = rule.base /\ t[2] = rule.scope
<1> DEFINE found == {h \in groups : h.base = rule.base /\ h.scope = rule.scope}
           triples == {t \in Measured(groups) : t[1] = rule.base /\ t[2] = rule.scope}
           g == CHOOSE h \in found : TRUE
           t == CHOOSE u \in triples : TRUE
<1>1. triples = {<<h.base, h.scope, h.cases>> : h \in found}
  BY DEF Measured
<1>2. \A h \in found : h = Group(rule.base, rule.scope)
  BY GroupOfItsScope
<1>3. RuleFinding(rule).set = IF found = {} THEN Missing ELSE EvidenceSet(g.cases)
  BY DEF RuleFinding
<1>4. SetOf(rule, Measured(groups)) = IF triples = {} THEN Missing ELSE EvidenceSet(t[3])
  BY DEF SetOf
<1>5. found = {} <=> triples = {}
  BY <1>1
<1>6. ASSUME found # {} PROVE g.cases = t[3]
  <2>1. g \in found /\ t \in triples
    BY <1>5, <1>6
  <2> HIDE DEF g, t, found, triples
  <2>2. PICK h \in found : t = <<h.base, h.scope, h.cases>>
    BY <1>1, <2>1
  <2>3. h = g
    BY <1>2, <2>1, <2>2
  <2> QED
    BY <2>2, <2>3
<1>7. RuleFinding(rule).set = SetOf(rule, Measured(groups))
  BY <1>3, <1>4, <1>5, <1>6
<1>8. ASSUME NEW h \in StableGroups, h.base = rule.base, h.scope = rule.scope
      PROVE  \E u \in Stable(Measured(groups)) : u[1] = rule.base /\ u[2] = rule.scope
  <2>1. <<h.base, h.scope, h.cases>> \in Stable(Measured(groups))
    BY DEF StableGroups, Stable, Measured
  <2> QED
    BY <1>8, <2>1
<1>9. ASSUME NEW u \in Stable(Measured(groups)), u[1] = rule.base, u[2] = rule.scope
      PROVE  \E h \in StableGroups : h.base = rule.base /\ h.scope = rule.scope
  <2>1. PICK h \in groups : u = <<h.base, h.scope, h.cases>> /\ u[1] # Latency
    BY DEF Stable, Measured
  <2>2. h \in StableGroups
    BY <2>1 DEF StableGroups
  <2> QED
    BY <1>9, <2>1, <2>2
<1> QED
  BY <1>7, <1>8, <1>9

LEMMA FindingEvidence ==
    ASSUME groups = Groups,
           findings = RuleFindings \cup {CriticalFinding(c) : c \in CriticalFailures}
    PROVE  EvidenceId.finding_evidence = Identity(plan, Measured(groups)).finding_evidence
<1> DEFINE M == Measured(groups)
           IsKept(h) == \/ h.base = Missing
                        \/ \E g \in StableGroups : g.base = h.base /\ g.scope = h.scope
           Pair(f) == [rule |-> f.rule, set |-> f.set]
           ofRules == {[rule |-> rule.rule, set |-> SetOf(rule, M)] :
                          rule \in {r \in request.policy.rules : Replays(r, M)}}
           ofCases == {[rule |-> c, set |-> PairRefs(c)] : c \in CriticalFailures}
<1>1. EvidenceId.finding_evidence = {Pair(f) : f \in {h \in findings : IsKept(h)}}
  BY DEF EvidenceId
<1>2. Identity(plan, M).finding_evidence = ofRules \cup ofCases
  BY DEF Identity
<1>3. ASSUME NEW rule
      PROVE  /\ IsKept(RuleFinding(rule)) <=> Replays(rule, M)
             /\ Pair(RuleFinding(rule)) = [rule |-> rule.rule, set |-> SetOf(rule, M)]
  <2>1. /\ RuleFinding(rule).base = rule.base /\ RuleFinding(rule).scope = rule.scope
        /\ RuleFinding(rule).rule = rule.rule
    BY DEF RuleFinding
  <2> QED
    BY <2>1, SetOfRule DEF Replays
<1>4. ASSUME NEW c
      PROVE  /\ IsKept(CriticalFinding(c))
             /\ Pair(CriticalFinding(c)) = [rule |-> c, set |-> PairRefs(c)]
  BY DEF CriticalFinding
<1> HIDE DEF M, IsKept, Pair
<1>5. {Pair(f) : f \in {h \in findings : IsKept(h)}} \subseteq ofRules \cup ofCases
  <2> SUFFICES ASSUME NEW f \in findings, IsKept(f) PROVE Pair(f) \in ofRules \cup ofCases
    OBVIOUS
  <2>1. CASE f \in RuleFindings
    <3>1. PICK rule \in request.policy.rules : f = RuleFinding(rule)
      BY <2>1 DEF RuleFindings
    <3>2. Replays(rule, M) /\ Pair(f) = [rule |-> rule.rule, set |-> SetOf(rule, M)]
      BY <1>3, <3>1
    <3> QED
      BY <3>2
  <2>2. ASSUME NEW c \in CriticalFailures, f = CriticalFinding(c)
        PROVE  Pair(f) \in ofRules \cup ofCases
    BY <1>4, <2>2
  <2> QED
    BY <2>1, <2>2
<1>6. ofRules \subseteq {Pair(f) : f \in {h \in findings : IsKept(h)}}
  <2> SUFFICES ASSUME NEW rule \in request.policy.rules, Replays(rule, M)
               PROVE  [rule |-> rule.rule, set |-> SetOf(rule, M)]
                          \in {Pair(f) : f \in {h \in findings : IsKept(h)}}
    OBVIOUS
  <2>1. RuleFinding(rule) \in findings
    BY DEF RuleFindings
  <2> QED
    BY <1>3, <2>1
<1>7. ofCases \subseteq {Pair(f) : f \in {h \in findings : IsKept(h)}}
  <2> SUFFICES ASSUME NEW c \in CriticalFailures
               PROVE  [rule |-> c, set |-> PairRefs(c)]
                          \in {Pair(f) : f \in {h \in findings : IsKept(h)}}
    OBVIOUS
  <2> QED
    BY <1>4
<1> QED
  BY <1>1, <1>2, <1>5, <1>6, <1>7 DEF M

LEMMA FinishIdentifies ==
    ASSUME IsWhole(plan, request), runs \in strayed \/ plan = FrozenPlan(request), StepsAgree, Finish
    PROVE  /\ HasItsIdentity(report)'
           /\ EvidenceId = Identity(plan, Measured(groups))
<1> DEFINE M == Measured(groups)
<1>1. /\ groups = Groups
      /\ findings = RuleFindings \cup {CriticalFinding(c) : c \in CriticalFailures}
      /\ evidence.sets = EvidenceSets /\ evidence.entries = Entries
      /\ evidence.supplemental = request.supplemental \ Entries
  BY DEF StepsAgree, Finish
<1>2. EvidenceSets = SetsOf(M)
  <2>1. \A g \in groups : <<g.base, g.scope, g.cases>>[3] = g.cases
    OBVIOUS
  <2>2. {EvidenceSet(g.cases) : g \in groups} = {EvidenceSet(t[3]) : t \in M}
    BY <2>1 DEF Measured
  <2> QED
    BY <2>2 DEF EvidenceSets, SetsOf
<1>3. EvidenceId.finding_evidence = Identity(plan, M).finding_evidence
  BY <1>1, FindingEvidence
<1>4. EvidenceId = Identity(plan, M)
  <2>1. StableGroups = Identity(plan, M).metrics
    BY <1>1, StableMetrics DEF Identity
  <2>2. /\ Identity(plan, M).plan = plan
        /\ Identity(plan, M).manifest = <<EvidenceSets, Entries>>
        /\ Identity(plan, M).evidence = request.supplemental \ Entries
    BY <1>2 DEF Identity, Entries
  <2>3. Identity(plan, M) = [plan |-> Identity(plan, M).plan, metrics |-> Identity(plan, M).metrics,
                       finding_evidence |-> Identity(plan, M).finding_evidence,
                       manifest |-> Identity(plan, M).manifest, evidence |-> Identity(plan, M).evidence]
    BY DEF Identity
  <2>4. EvidenceId = [plan |-> plan, metrics |-> StableGroups,
                      finding_evidence |-> EvidenceId.finding_evidence,
                      manifest |-> <<evidence.sets, evidence.entries>>,
                      evidence |-> evidence.supplemental]
    BY DEF EvidenceId
  <2> QED
    BY <1>1, <1>3, <2>1, <2>2, <2>3, <2>4
<1>5. report'.evidence_id = EvidenceId /\ report'.groups = groups /\ report'.plan = plan
  BY DEF Finish
<1>6. MeasuredCases(report)' = M
  BY <1>5 DEF MeasuredCases, Measured
<1>7. UNCHANGED <<registered, request, outputs, plan, strayed>>
  BY DEF Finish, registry
<1>8. \A p, X : Identity(p, X)' = Identity(p, X)
  BY <1>7, IdentityStays
<1>9. FrozenPlan(request)' = FrozenPlan(request)
  BY <1>7, FrozenPlanStays DEF FrozenPlan, FrozenMetrics
<1> QED
  BY <1>4, <1>5, <1>6, <1>7, <1>8, <1>9 DEF HasItsIdentity

-----------------------------------------------------------------------------
(* Every step keeps the invariant *)

LEMMA ComparisonInitially == Init => ComparisonInvariant
<1> SUFFICES ASSUME Init PROVE ComparisonInvariant
  OBVIOUS
<1>1. /\ pc = "host" /\ groups = {} /\ report = Missing /\ earlier = Missing
      /\ RegistryInit /\ registered = {}
  BY DEF Init, RegistryInit
<1>2. RegistryInvariant
  BY <1>1, RegistryInitially
<1>3. MetricsAreNamed
  BY <1>1 DEF MetricsAreNamed, OfKind
<1> QED
  BY <1>1, <1>2, <1>3
  DEF ComparisonInvariant, LookedUpIsUnchanged, PlanHolds, HostIsFirst, RequestIsKnown, OutputsRepeat,
      StepsAgree, AnalysedAsPlanned, BlockIsExplained, HasItsIdentity

\* The parts that follow from what a step leaves alone.
LEMMA AnalysedStays ==
    ASSUME AnalysedAsPlanned, UNCHANGED <<registered, request, runs>>, strayed \subseteq strayed',
           groups' \subseteq groups
    PROVE  AnalysedAsPlanned'
<1>1. OfKind("metric")' = OfKind("metric")
  BY DEF OfKind
<1> QED
  BY <1>1 DEF AnalysedAsPlanned

LEMMA IdentitiesStay ==
    ASSUME HasItsIdentity(report), HasItsIdentity(earlier),
           UNCHANGED <<registered, request, outputs>>, strayed \subseteq strayed',
           report' \in {report, Missing}, earlier' \in {earlier, report}
    PROVE  HasItsIdentity(report)' /\ HasItsIdentity(earlier)'
<1>1. \A p, M : Identity(p, M)' = Identity(p, M)
  BY IdentityStays
<1>2. FrozenPlan(request)' = FrozenPlan(request)
  BY FrozenPlanStays DEF FrozenPlan, FrozenMetrics
<1>3. strayed' = {} => strayed = {}
  OBVIOUS
<1>4. HasItsIdentity(report)'
  BY <1>1, <1>2, <1>3 DEF HasItsIdentity, MeasuredCases
<1>5. HasItsIdentity(earlier)'
  BY <1>1, <1>2, <1>3 DEF HasItsIdentity, MeasuredCases
<1> QED
  BY <1>4, <1>5

\* A plan in force stays in force.
LEMMA PlanStays ==
    ASSUME PlanHolds, UNCHANGED <<registered, request, runs, plan>>, strayed \subseteq strayed',
           pc' \in {"run", "analyse", "judge", "assemble", "report"} =>
               pc \in {"run", "analyse", "judge", "assemble", "report"}
    PROVE  PlanHolds'
<1>1. FrozenPlan(request)' = FrozenPlan(request)
  BY FrozenPlanStays DEF FrozenPlan, FrozenMetrics
<1>2. IsWhole(plan, request)' <=> IsWhole(plan, request)
  BY DEF IsWhole, Scopes, Values, IsBound
<1> QED
  BY <1>1, <1>2 DEF PlanHolds

LEMMA RegistryPart == ComparisonInvariant /\ [Next]_vars => RegistryInvariant' /\ MetricsAreNamed'
BY HostSteps, RegistryStep, MetricsStayNamed DEF ComparisonInvariant

\* A step of the run that leaves plan, registrations and reports alone.
LEMMA RunStep ==
    ASSUME ComparisonInvariant, pc # "host", pc' \notin {"host", "compile"},
           UNCHANGED <<registered, request, runs, strayed, outputs, plan, report, earlier>>,
           pc' \in {"run", "analyse", "judge", "assemble", "report"} =>
               /\ pc \in {"run", "analyse", "judge", "assemble", "report"}
               /\ pc' # "run" => outputs # Missing
    PROVE  /\ LookedUpIsUnchanged' /\ PlanHolds' /\ HostIsFirst' /\ RequestIsKnown'
           /\ OutputsRepeat' /\ BlockIsExplained'
           /\ HasItsIdentity(report)' /\ HasItsIdentity(earlier)'
<1> USE DEF ComparisonInvariant
<1>1. PlanHolds'
  BY PlanStays
<1>2. LookedUpIsUnchanged' /\ HostIsFirst' /\ RequestIsKnown' /\ OutputsRepeat'
  BY DEF LookedUpIsUnchanged, HostIsFirst, RequestIsKnown, OutputsRepeat
<1>3. BlockIsExplained'
  BY DEF BlockIsExplained
<1>4. HasItsIdentity(report)' /\ HasItsIdentity(earlier)'
  BY IdentitiesStay
<1> QED
  BY <1>1, <1>2, <1>3, <1>4

\* A step that leaves all but the descriptions alone, and those too between lookup
\* and plan, unless it is remembered.
LEMMA QuietStep ==
    ASSUME ComparisonInvariant, RegistryInvariant', MetricsAreNamed',
           UNCHANGED <<registered, pc, request, runs, plan, outputs, timings, groups, findings, evidence,
                       report, earlier>>,
           strayed \subseteq strayed',
           pc = "compile" => runs \in strayed' \/ described' = described
    PROVE  ComparisonInvariant'
<1> USE DEF ComparisonInvariant
<1>1. LookedUpIsUnchanged'
  <2>1. OfKind("metric")' = OfKind("metric")
    BY DEF OfKind
  <2> QED
    BY <2>1 DEF LookedUpIsUnchanged, IsUnchanged
<1>2. PlanHolds' /\ AnalysedAsPlanned'
  BY PlanStays, AnalysedStays
<1>3. HostIsFirst' /\ RequestIsKnown' /\ OutputsRepeat' /\ BlockIsExplained'
  BY DEF HostIsFirst, RequestIsKnown, OutputsRepeat, BlockIsExplained
<1>4. HasItsIdentity(report)' /\ HasItsIdentity(earlier)'
  BY IdentitiesStay
<1>5. StepsAgree'
  <2>1. Groups' = Groups /\ RuleFindings' = RuleFindings /\ EvidenceSets' = EvidenceSets
        /\ Entries' = Entries
    BY AnalysisStays, JudgementStays
  <2>2. {CriticalFinding(c) : c \in CriticalFailures}' = {CriticalFinding(c) : c \in CriticalFailures}
    BY OutputsStay
  <2> QED
    BY <2>1, <2>2 DEF StepsAgree
<1> QED
  BY <1>1, <1>2, <1>3, <1>4, <1>5

LEMMA ConfigureKeeps == ComparisonInvariant /\ ConfigureHost => ComparisonInvariant'
<1> SUFFICES ASSUME ComparisonInvariant, ConfigureHost PROVE ComparisonInvariant'
  OBVIOUS
<1>1. pc = "host" /\ UNCHANGED <<pc, request, outputs, plan, groups, report, earlier>>
  BY DEF ConfigureHost, running
<1>2. groups = {} /\ report = Missing /\ earlier = Missing
  BY <1>1 DEF ComparisonInvariant, HostIsFirst
<1>3. RegistryInvariant' /\ MetricsAreNamed'
  BY RegistryPart DEF Next
<1> QED
  BY <1>1, <1>2, <1>3
  DEF ComparisonInvariant, LookedUpIsUnchanged, PlanHolds, HostIsFirst, RequestIsKnown, OutputsRepeat,
      StepsAgree, AnalysedAsPlanned, BlockIsExplained, HasItsIdentity

LEMMA DriftKeeps == ComparisonInvariant /\ DriftMeanwhile => ComparisonInvariant'
<1> SUFFICES ASSUME ComparisonInvariant, DriftMeanwhile PROVE ComparisonInvariant'
  OBVIOUS
<1>1. /\ UNCHANGED <<registered, pc, request, runs, plan, outputs, timings, groups, findings, evidence,
                     report, earlier>>
      /\ strayed \subseteq strayed'
      /\ pc = "compile" => runs \in strayed'
  BY DEF DriftMeanwhile, running, Drift
<1>2. RegistryInvariant' /\ MetricsAreNamed'
  BY RegistryPart DEF Next
<1> QED
  BY <1>1, <1>2, QuietStep

\* Asking for a comparison, the first time or again.
LEMMA LookUpKeeps ==
    ASSUME ComparisonInvariant, NEW r \in Requests, LookUp(r), pc # "host" => r = request,
           earlier' = IF pc = "host" THEN earlier ELSE report,
           pc = "host" \/ outputs # Missing, Start \/ RunAgain
    PROVE  ComparisonInvariant'
<1> USE DEF ComparisonInvariant
<1>1. /\ request' = r /\ groups' = {} /\ report' = Missing
      /\ UNCHANGED <<described, registered, strayed, outputs>>
      /\ pc' \in {"compile", "done"}
      /\ pc' = "compile" => LookUpSucceeds(r)
  BY DEF LookUp, Fail, Goto, registry
<1>2. RegistryInvariant' /\ MetricsAreNamed'
  BY RegistryPart DEF Next
<1>3. LookedUpIsUnchanged'
  <2>1. OfKind("metric")' = OfKind("metric")
    BY <1>1 DEF OfKind
  <2> QED
    BY <1>1, <2>1 DEF LookedUpIsUnchanged, LookUpSucceeds, MayList, IsUnchanged
<1>4. PlanHolds' /\ HostIsFirst' /\ RequestIsKnown' /\ StepsAgree'
  BY <1>1 DEF PlanHolds, HostIsFirst, RequestIsKnown, StepsAgree
<1>5. OutputsRepeat'
  BY <1>1 DEF OutputsRepeat, HostIsFirst
<1>6. AnalysedAsPlanned' /\ BlockIsExplained' /\ HasItsIdentity(report)'
  BY <1>1 DEF AnalysedAsPlanned, BlockIsExplained, HasItsIdentity
<1>7. HasItsIdentity(earlier)'
  <2>1. CASE pc = "host"
    BY <2>1 DEF HostIsFirst, HasItsIdentity
  <2>2. CASE pc # "host"
    BY <1>1, <2>2, IdentitiesStay
  <2> QED
    BY <2>1, <2>2
<1> QED
  BY <1>2, <1>3, <1>4, <1>5, <1>6, <1>7

LEMMA StartKeeps == ComparisonInvariant /\ Start => ComparisonInvariant'
<1> SUFFICES ASSUME ComparisonInvariant, Start PROVE ComparisonInvariant'
  OBVIOUS
<1>1. PICK r \in Requests : LookUp(r)
  BY DEF Start
<1>2. pc = "host" /\ earlier' = earlier
  BY DEF Start
<1> QED
  BY <1>1, <1>2, LookUpKeeps

LEMMA RunAgainKeeps == ComparisonInvariant /\ RunAgain => ComparisonInvariant'
<1> SUFFICES ASSUME ComparisonInvariant, RunAgain PROVE ComparisonInvariant'
  OBVIOUS
<1>1. pc = "done" /\ report # Missing /\ LookUp(request) /\ earlier' = report
  BY DEF RunAgain
<1>2. outputs # Missing /\ request \in Requests
  BY <1>1 DEF ComparisonInvariant, OutputsRepeat, RequestIsKnown
<1> QED
  BY <1>1, <1>2, LookUpKeeps

\* The plan is whole whatever the metrics say by now, and that of the
\* registrations when none changed since the lookup.
LEMMA CompileKeeps == ComparisonInvariant /\ Compile => ComparisonInvariant'
<1> SUFFICES ASSUME ComparisonInvariant, Compile PROVE ComparisonInvariant'
  OBVIOUS
<1> USE DEF ComparisonInvariant
<1>1. /\ pc = "compile" /\ pc' \in {"run", "done"}
      /\ UNCHANGED <<described, registered, request, runs, strayed, outputs, timings, groups, findings,
                     evidence, report, earlier>>
  BY DEF Compile, Fail, Goto, registry
<1>2. RegistryInvariant' /\ MetricsAreNamed' /\ AnalysedAsPlanned'
  BY <1>1, RegistryPart, AnalysedStays DEF Next
<1>3. PlanHolds'
  <2> SUFFICES ASSUME pc' = "run"
               PROVE  IsWhole(plan, request)' /\ (runs \in strayed \/ plan = FrozenPlan(request))'
    BY <1>1 DEF PlanHolds
  <2>1. /\ Compiles(request, RegisteredMetrics, Provenance(request))
        /\ plan' = Plan(request, RegisteredMetrics, Provenance(request))
    BY DEF Compile, Fail, Goto
  <2>2. IsWhole(plan', request)
    BY <2>1, CompiledIsWhole
  <2>3. IsWhole(plan, request)'
    BY <1>1, <2>2 DEF IsWhole, Scopes, Values, IsBound
  <2>4. runs \in strayed \/ plan' = FrozenPlan(request)
    BY <1>1, <2>1, CompiledPlan DEF LookedUpIsUnchanged
  <2>5. FrozenPlan(request)' = FrozenPlan(request)
    BY <1>1, FrozenPlanStays DEF FrozenPlan, FrozenMetrics
  <2> QED
    BY <1>1, <2>3, <2>4, <2>5
<1>4. LookedUpIsUnchanged' /\ HostIsFirst' /\ RequestIsKnown' /\ OutputsRepeat' /\ StepsAgree'
      /\ BlockIsExplained'
  BY <1>1 DEF LookedUpIsUnchanged, HostIsFirst, RequestIsKnown, OutputsRepeat, StepsAgree, BlockIsExplained
<1>5. HasItsIdentity(report)' /\ HasItsIdentity(earlier)'
  BY <1>1, IdentitiesStay
<1> QED
  BY <1>2, <1>3, <1>4, <1>5

LEMMA ExecuteKeeps == ComparisonInvariant /\ Execute => ComparisonInvariant'
<1> SUFFICES ASSUME ComparisonInvariant, Execute PROVE ComparisonInvariant'
  OBVIOUS
<1> USE DEF ComparisonInvariant
<1>1. /\ pc = "run" /\ pc' \in {"analyse", "done"}
      /\ UNCHANGED <<registered, request, runs, strayed, plan, groups, report, earlier>>
  BY DEF Execute, Goto, Fail, registry
<1>2. outputs' = outputs \/ (outputs = Missing /\ outputs' # Missing)
  BY ComparisonAssumption DEF Execute
<1>3. pc' = "analyse" => outputs' # Missing
  BY ComparisonAssumption DEF Execute, Goto, Fail
<1>4. RegistryInvariant' /\ MetricsAreNamed'
  BY RegistryPart DEF Next
<1>5. AnalysedAsPlanned' /\ PlanHolds'
  BY <1>1, AnalysedStays, PlanStays
<1>6. StepsAgree'
  BY <1>1 DEF StepsAgree
<1>8. LookedUpIsUnchanged' /\ HostIsFirst' /\ RequestIsKnown' /\ BlockIsExplained'
  BY <1>1 DEF LookedUpIsUnchanged, HostIsFirst, RequestIsKnown, BlockIsExplained
<1>9. OutputsRepeat' /\ HasItsIdentity(report)' /\ HasItsIdentity(earlier)'
  <2>1. CASE outputs' = outputs
    BY <1>1, <1>3, <2>1, IdentitiesStay DEF OutputsRepeat
  <2>2. CASE outputs = Missing /\ outputs' # Missing
    <3>1. report' = Missing /\ earlier' = Missing
      BY <1>1, <2>2 DEF OutputsRepeat
    <3> QED
      BY <2>2, <3>1 DEF OutputsRepeat, HasItsIdentity
  <2> QED
    BY <1>2, <2>1, <2>2
<1> QED
  BY <1>4, <1>5, <1>6, <1>8, <1>9

LEMMA AnalyseKeeps == ComparisonInvariant /\ Analyse => ComparisonInvariant'
<1> SUFFICES ASSUME ComparisonInvariant, Analyse PROVE ComparisonInvariant'
  OBVIOUS
<1> USE DEF ComparisonInvariant
<1>1. /\ pc = "analyse" /\ pc' \in {"judge", "done"}
      /\ UNCHANGED <<registered, request, runs, strayed, plan, outputs, timings, findings, evidence,
                     report, earlier>>
      /\ \/ pc' = "done" /\ groups' = groups
         \/ pc' = "judge" /\ groups' = Groups
  BY DEF Analyse, Goto, Fail, registry
<1>2. RegistryInvariant' /\ MetricsAreNamed'
  BY RegistryPart DEF Next
<1>3. /\ IsWhole(plan, request) /\ outputs # Missing
      /\ runs \in strayed \/ plan = FrozenPlan(request)
  BY <1>1 DEF PlanHolds, OutputsRepeat
<1>4. AnalysedAsPlanned'
  BY <1>1, <1>3, AnalysedStays, AnalysisIsAsPlanned
<1>5. StepsAgree'
  BY <1>1, AnalysisStays DEF StepsAgree
<1>6. /\ LookedUpIsUnchanged' /\ PlanHolds' /\ HostIsFirst' /\ RequestIsKnown' /\ OutputsRepeat'
      /\ BlockIsExplained' /\ HasItsIdentity(report)' /\ HasItsIdentity(earlier)'
  BY <1>1, <1>3, RunStep
<1> QED
  BY <1>2, <1>4, <1>5, <1>6

LEMMA JudgeKeeps == ComparisonInvariant /\ Judge => ComparisonInvariant'
<1> SUFFICES ASSUME ComparisonInvariant, Judge PROVE ComparisonInvariant'
  OBVIOUS
<1> USE DEF ComparisonInvariant
<1>1. /\ pc = "judge" /\ pc' = "assemble"
      /\ UNCHANGED <<registered, request, runs, strayed, plan, outputs, timings, groups, evidence,
                     report, earlier>>
      /\ findings' = RuleFindings \cup {CriticalFinding(c) : c \in CriticalFailures}
  BY DEF Judge, Goto, registry
<1>2. RegistryInvariant' /\ MetricsAreNamed' /\ AnalysedAsPlanned'
  BY <1>1, RegistryPart, AnalysedStays DEF Next
<1>3. outputs # Missing /\ groups = Groups
  BY <1>1 DEF OutputsRepeat, StepsAgree
<1>4. StepsAgree'
  <2>1. Groups' = Groups /\ RuleFindings' = RuleFindings
    BY <1>1, AnalysisStays, JudgementStays
  <2>2. {CriticalFinding(c) : c \in CriticalFailures}' = {CriticalFinding(c) : c \in CriticalFailures}
    BY <1>1, OutputsStay
  <2> QED
    BY <1>1, <1>3, <2>1, <2>2 DEF StepsAgree
<1>5. /\ LookedUpIsUnchanged' /\ PlanHolds' /\ HostIsFirst' /\ RequestIsKnown' /\ OutputsRepeat'
      /\ BlockIsExplained' /\ HasItsIdentity(report)' /\ HasItsIdentity(earlier)'
  BY <1>1, <1>3, RunStep
<1> QED
  BY <1>2, <1>4, <1>5

LEMMA AssembleKeeps == ComparisonInvariant /\ Assemble => ComparisonInvariant'
<1> SUFFICES ASSUME ComparisonInvariant, Assemble PROVE ComparisonInvariant'
  OBVIOUS
<1> USE DEF ComparisonInvariant
<1>1. /\ pc = "assemble" /\ pc' \in {"report", "done"}
      /\ UNCHANGED <<registered, request, runs, strayed, plan, outputs, timings, groups, findings,
                     report, earlier>>
      /\ pc' = "report" => evidence' = [sets |-> EvidenceSets, entries |-> Entries,
                                        supplemental |-> request.supplemental \ Entries]
  BY DEF Assemble, Goto, Fail, registry
<1>2. RegistryInvariant' /\ MetricsAreNamed' /\ AnalysedAsPlanned'
  BY <1>1, RegistryPart, AnalysedStays DEF Next
<1>3. /\ outputs # Missing /\ groups = Groups
      /\ findings = RuleFindings \cup {CriticalFinding(c) : c \in CriticalFailures}
  BY <1>1 DEF OutputsRepeat, StepsAgree
<1>4. StepsAgree'
  <2>1. Groups' = Groups /\ RuleFindings' = RuleFindings /\ EvidenceSets' = EvidenceSets
        /\ Entries' = Entries
    BY <1>1, AnalysisStays, JudgementStays
  <2>2. {CriticalFinding(c) : c \in CriticalFailures}' = {CriticalFinding(c) : c \in CriticalFailures}
    BY <1>1, OutputsStay
  <2> QED
    BY <1>1, <1>3, <2>1, <2>2 DEF StepsAgree
<1>5. /\ LookedUpIsUnchanged' /\ PlanHolds' /\ HostIsFirst' /\ RequestIsKnown' /\ OutputsRepeat'
      /\ BlockIsExplained' /\ HasItsIdentity(report)' /\ HasItsIdentity(earlier)'
  BY <1>1, <1>3, RunStep
<1> QED
  BY <1>2, <1>4, <1>5

LEMMA FinishKeeps == ComparisonInvariant /\ Finish => ComparisonInvariant'
<1> SUFFICES ASSUME ComparisonInvariant, Finish PROVE ComparisonInvariant'
  OBVIOUS
<1> USE DEF ComparisonInvariant
<1>1. /\ pc = "report" /\ pc' = "done"
      /\ UNCHANGED <<registered, request, runs, strayed, plan, outputs, groups, earlier>>
  BY DEF Finish, Goto, registry
<1>2. RegistryInvariant' /\ MetricsAreNamed' /\ AnalysedAsPlanned'
  BY <1>1, RegistryPart, AnalysedStays DEF Next
<1>3. /\ IsWhole(plan, request) /\ outputs # Missing
      /\ runs \in strayed \/ plan = FrozenPlan(request)
  BY <1>1 DEF PlanHolds, OutputsRepeat
<1>4. LookedUpIsUnchanged' /\ PlanHolds' /\ HostIsFirst' /\ RequestIsKnown' /\ OutputsRepeat' /\ StepsAgree'
  BY <1>1, <1>3, PlanStays
  DEF LookedUpIsUnchanged, HostIsFirst, RequestIsKnown, OutputsRepeat, StepsAgree
<1>5. BlockIsExplained'
  BY FinishExplains
<1>6. HasItsIdentity(report)'
  BY <1>3, FinishIdentifies
<1>7. HasItsIdentity(earlier)'
  <2>1. \A p, M : Identity(p, M)' = Identity(p, M)
    BY <1>1, IdentityStays
  <2>2. FrozenPlan(request)' = FrozenPlan(request)
    BY <1>1, FrozenPlanStays DEF FrozenPlan, FrozenMetrics
  <2> QED
    BY <1>1, <2>1, <2>2 DEF HasItsIdentity, MeasuredCases
<1> QED
  BY <1>2, <1>4, <1>5, <1>6, <1>7

\* The inductive invariant of a comparison.
THEOREM ComparisonInvariance == Spec => []ComparisonInvariant
<1>1. ComparisonInvariant /\ [Next]_vars => ComparisonInvariant'
  <2> SUFFICES ASSUME ComparisonInvariant, [Next]_vars PROVE ComparisonInvariant'
    OBVIOUS
  <2>1. CASE UNCHANGED vars
    <3>1. UNCHANGED <<registered, pc, request, runs, plan, outputs, timings, groups, findings, evidence,
                      report, earlier, strayed, described>>
      BY <2>1 DEF vars, registry, running
    <3>2. RegistryInvariant' /\ MetricsAreNamed'
      BY RegistryPart
    <3> QED
      BY <3>1, <3>2, QuietStep
  <2> QED
    BY <2>1, ConfigureKeeps, DriftKeeps, StartKeeps, RunAgainKeeps, CompileKeeps, ExecuteKeeps,
       AnalyseKeeps, JudgeKeeps, AssembleKeeps, FinishKeeps
    DEF Next
<1> QED
  BY <1>1, ComparisonInitially, PTL DEF Spec

\* However often the metrics change what they say of themselves, every group is
\* analysed in the direction of its rule and on the terms of its metric in the
\* plan, the registered ones unless a metric changed between lookup and plan.
THEOREM AnalysisIsPlanned == Spec => []AnalysedAsPlanned
<1>1. ComparisonInvariant => AnalysedAsPlanned
  BY DEF ComparisonInvariant
<1> QED
  BY <1>1, ComparisonInvariance, PTL

\* What is analysed was planned, what was planned and is missing was measured
\* nowhere, and slices divide the whole.
THEOREM AnalysisCoversThePlan == Spec => []EvidenceCoversThePlan
<1>1. ComparisonInvariant => EvidenceCoversThePlan
  BY GroupsCoverThePlan DEF ComparisonInvariant
<1> QED
  BY <1>1, ComparisonInvariance, PTL

\* No report blocks without evidence in its own manifest.
THEOREM BlocksAreExplained == Spec => []BlockIsExplained
<1>1. ComparisonInvariant => BlockIsExplained
  BY DEF ComparisonInvariant
<1> QED
  BY <1>1, ComparisonInvariance, PTL

\* Two reports of one plan whose metrics were measured on the same cases have the
\* same evidence identity, whatever the latencies, and only a metric that changed
\* between lookup and plan makes the plans of one request differ.
THEOREM ReplaysAreStable == Spec => []ReplayIsStable
<1>1. ComparisonInvariant => ReplayIsStable
  BY DEF ComparisonInvariant, HasItsIdentity, ReplayIsStable
<1> QED
  BY <1>1, ComparisonInvariance, PTL

\* What the registry promises holds during every comparison.
THEOREM RegistryOfAComparison == Spec => [](EveryManifestIsUsed /\ RegistryIsUnambiguous)
<1>1. ComparisonInvariant => EveryManifestIsUsed /\ RegistryIsUnambiguous
  BY DEF ComparisonInvariant, RegistryInvariant
<1> QED
  BY <1>1, ComparisonInvariance, PTL
=============================================================================
