SPECIFICATION EvaluationSpec
CONSTANTS
    Rules = {1, 2, 3}
    Policies <- MCPolicies
    PValues = {2, 3, 6, 7}
    Alpha = 6
    Scale = 20
    None = None
    NoTest = NoTest
    MaxPairs = 5
    Levels <- MCLevels
    Thresholds <- MCThresholds
    Halvings = 4
    Differences <- MCDifferences
    NumericPairs = 3
    Resamples = 3
    ExactLimit = 2
    NoValue = NoValue
INVARIANTS
    HolmIsClosedTesting
    AllowedIsJustified
    BlockIsJustified
    SelectedIntervalExists
    IntervalInvertsTest
    McNemarIsSignTest
    EvidenceIsCoherent
\* An evaluation ends.
CHECK_DEADLOCK FALSE
