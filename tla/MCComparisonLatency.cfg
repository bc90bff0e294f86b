SPECIFICATION Spec
CONSTANTS
    accuracy = accuracy
    rival = rival
    latency = latency
    local = local
    served = served
    Plugins <- MCPlugins
    KindOf <- MCKindOf
    Descriptions <- MCDescriptions
    PluginManifests <- MCManifests
    Ids = {1, 2}
    Capacity <- MCCapacity
    ManifestCapacity = 3
    MaxDrifts = 1
    Invalid = Invalid
    Unnamed = Unnamed
    Cases <- MCCases
    CaseSlices <- MCCaseSlices
    SafeValues = {"high", "low"}
    MaxPlanned = 6
    MaxSliceKeys = 2
    Overall = Overall
    Requests <- MCRequests
    Outputs <- MCOutputs
    Timings <- MCTimings
    Expected <- MCExpected
    Critical = {"a"}
    Redacted = {"c"}
    Exact = 1
    Latency = 2
    MaxSets = 3
    MaxRuns = 2
    Missing = Missing
INVARIANTS
    LatencyIsExcluded
CHECK_DEADLOCK FALSE
