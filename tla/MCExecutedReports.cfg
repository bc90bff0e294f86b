SPECIFICATION ExecutionSpec
CONSTANTS
    CheckpointCounts <- MCCheckpointCounts
    SparsePointCounts = {2}
    Modes = {"monotonic", "sparse_audit", "linear_audit"}
    Verdicts = {"pass", "block", "insufficient_power"}
    MaxRuns = 2
    Absent = Absent
    Torn = Torn
INVARIANTS EveryEvaluatedIsReported
\* The last run of the command ends.
CHECK_DEADLOCK FALSE
