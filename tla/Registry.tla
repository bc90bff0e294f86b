------------------------------- MODULE Registry -------------------------------
(***************************************************************************)
(* The plug-in registry (merriv/plugins/registry.py): a host registers     *)
(* objects it has already made, each under the manifest of its package,    *)
(* and looks them up again.  An object may describe itself differently     *)
(* later; every lookup compares its description with the registered one.   *)
(***************************************************************************)
EXTENDS Naturals, FiniteSets

CONSTANTS
    Plugins,           \* objects the host may register
    KindOf,            \* the interface each implements
    Descriptions,      \* what each may say of itself
    PluginManifests,   \* manifests of the packages
    Ids,               \* identifiers, ordered as numbers
    Capacity,          \* MAX_REGISTERED_METRICS, _EXECUTORS and _ADAPTERS
    ManifestCapacity,  \* MAX_REGISTERED_PLUGINS
    MaxDrifts,         \* bound: how often a description changes
    Invalid,           \* a description that fails validation
    Unnamed            \* the identifier in the description of an adapter

Kinds == {"metric", "executor", "adapter"}

\* id, config_fingerprint, capabilities and everything else that is compared.
DeclarationFields == {"id", "config", "capabilities", "terms"}

ASSUME RegistryAssumption ==
    /\ IsFiniteSet(Plugins)
    /\ KindOf \in [Plugins -> Kinds]
    /\ Capacity \in [Kinds -> Nat] /\ ManifestCapacity \in Nat /\ MaxDrifts \in Nat
    /\ Ids \subseteq Nat /\ Unnamed \notin Ids
    /\ \A p \in Plugins : \A d \in Descriptions[p] :
           d # Invalid => /\ DOMAIN d = DeclarationFields
                          /\ d.id \in Ids \cup {Unnamed}
                          /\ d.id = Unnamed <=> KindOf[p] = "adapter"

VARIABLES
    described,     \* what each object says of itself now
    registered,    \* _metrics, _executors and _adapters
    manifests,     \* the values of _manifests
    drifts         \* how often a description changed

registry == <<described, registered, manifests, drifts>>

RegistryInit ==
    /\ described \in [Plugins -> UNION {Descriptions[p] : p \in Plugins}]
    /\ \A p \in Plugins : described[p] \in Descriptions[p]
    /\ registered = {} /\ manifests = {} /\ drifts = 0

-----------------------------------------------------------------------------
(* Registration *)

OfKind(kind) == {r \in registered : r.kind = kind}

IsTaken(kind, id) == \E r \in OfKind(kind) : r.id = id

Names(manifest) == <<manifest.name, manifest.kind>>

\* Mutant: any manifest is stored under the name of its package.
ManifestFits_AnyIdentity(manifest) ==
    manifest \in manifests \/ Cardinality(manifests) < ManifestCapacity

\* _register_manifest: one identity for a name, and room for a new one.
ManifestFits(manifest) ==
    /\ \A m \in manifests : Names(m) = Names(manifest) => m = manifest
    /\ manifest \in manifests \/ Cardinality(manifests) < ManifestCapacity

\* What the three kinds of registration have in common.
MayRegister(p, manifest, id) ==
    /\ manifest.kind = KindOf[p]
    /\ Cardinality(OfKind(KindOf[p])) < Capacity[KindOf[p]]
    /\ described[p] # Invalid
    /\ ~IsTaken(KindOf[p], id)
    /\ ManifestFits(manifest)

\* Adapters and executors are bound to the configuration of the manifest.
MatchesManifest(p, manifest) ==
    /\ described[p].config = manifest.config
    /\ described[p].capabilities \subseteq manifest.capabilities

Registration(p, manifest, id) ==
    [kind |-> KindOf[p], id |-> id, plugin |-> p, manifest |-> manifest,
     declaration |-> described[p]]

\* Mutant: the manifest is stored before the object is looked at.
ManifestsAfter_First(manifest, accepted) ==
    IF ManifestFits(manifest) THEN manifests \cup {manifest} ELSE manifests

\* A registration that is refused leaves no trace.
ManifestsAfter(manifest, accepted) ==
    IF accepted THEN manifests \cup {manifest} ELSE manifests

Register(p, manifest, id, accepted) ==
    /\ registered' = IF accepted THEN registered \cup {Registration(p, manifest, id)}
                                 ELSE registered
    /\ manifests' = ManifestsAfter(manifest, accepted)
    /\ UNCHANGED <<described, drifts>>

\* The description of an object that fails to describe itself has no identifier.
DescribedId(p) == IF described[p] = Invalid THEN Unnamed ELSE described[p].id

RegisterMetric(p, manifest) ==
    /\ KindOf[p] = "metric"
    /\ Register(p, manifest, DescribedId(p), MayRegister(p, manifest, DescribedId(p)))

RegisterExecutor(p, manifest) ==
    /\ KindOf[p] = "executor"
    /\ Register(p, manifest, DescribedId(p),
                MayRegister(p, manifest, DescribedId(p)) /\ MatchesManifest(p, manifest))

\* The host chooses the identifier of an adapter.
RegisterAdapter(p, manifest, id) ==
    /\ KindOf[p] = "adapter"
    /\ Register(p, manifest, id,
                MayRegister(p, manifest, id) /\ MatchesManifest(p, manifest))

\* An object describes itself differently from now on.
Drift(p) ==
    /\ drifts < MaxDrifts
    /\ \E d \in Descriptions[p] \ {described[p]} : described' = [described EXCEPT ![p] = d]
    /\ drifts' = drifts + 1
    /\ UNCHANGED <<registered, manifests>>

RegistryNext ==
    \/ \E p \in Plugins, m \in PluginManifests : RegisterMetric(p, m) \/ RegisterExecutor(p, m)
    \/ \E p \in Plugins, m \in PluginManifests, id \in Ids : RegisterAdapter(p, m, id)
    \/ \E p \in Plugins : Drift(p)

RegistrySpec == RegistryInit /\ [][RegistryNext]_registry

-----------------------------------------------------------------------------
(* Lookup *)

\* _assert_unchanged and its two counterparts.
IsUnchanged(r) == described[r.plugin] = r.declaration

\* metrics, executors, adapters: refused as a whole when one changed.
MayList(kind) == \A r \in OfKind(kind) : IsUnchanged(r)

\* metric, executor, adapter.
MayLookUp(kind, id) == \E r \in OfKind(kind) : r.id = id /\ IsUnchanged(r)

\* plugin_records.
PluginRecords == manifests

\* metric_plugin_records: who owns each metric.
MetricPlugins == {[id |-> r.id, plugin |-> r.manifest] : r \in OfKind("metric")}

-----------------------------------------------------------------------------
(* Properties *)

\* A manifest takes up capacity, and claims its name, only for an object that
\* was registered under it: a registration that fails at any check, after
\* running the code of the plug-in, leaves nothing behind (register_metric,
\* register_adapter, register_executor, _register_manifest).
EveryManifestIsUsed == manifests = {r.manifest : r \in registered}

\* Whatever the order of registrations and refusals, an identifier has one
\* owner in its kind, a package one identity for its name, every object
\* implements the interface of its manifest, and no table exceeds its capacity.
RegistryIsUnambiguous ==
    /\ \A r, s \in registered : r.kind = s.kind /\ r.id = s.id => r = s
    /\ \A r, s \in registered : Names(r.manifest) = Names(s.manifest) => r.manifest = s.manifest
    /\ \A r \in registered : r.kind = KindOf[r.plugin] /\ r.kind = r.manifest.kind
    /\ \A kind \in Kinds : Cardinality(OfKind(kind)) <= Capacity[kind]
    /\ Cardinality(manifests) <= ManifestCapacity
=============================================================================
