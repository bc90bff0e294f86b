CONSTANTS
    CheckpointCounts <- MCCheckpointCounts
    SparsePointCounts <- MCSparsePointCounts
    Modes = {"monotonic", "sparse_audit", "linear_audit"}
SPECIFICATION Spec
INVARIANTS
    UnknownOnsetHasNoIndex
\* A finished call takes no further step.
CHECK_DEADLOCK FALSE
