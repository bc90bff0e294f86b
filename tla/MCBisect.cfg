CONSTANTS
    CheckpointCounts <- MCCheckpointCounts
    SparsePointCounts <- MCSparsePointCounts
    Modes = {"monotonic", "sparse_audit", "linear_audit"}
SPECIFICATION FairSpec
INVARIANTS
    TypeOK
    InconclusiveIffUncertain
    ExhaustiveAuditExact
    ProbesAreLogarithmic
PROPERTIES
    KeepsPromise
    Terminates
\* A finished call takes no further step.
CHECK_DEADLOCK FALSE
