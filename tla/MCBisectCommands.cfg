SPECIFICATION CommandsSpec
CONSTANTS
    CheckpointCounts <- MCCheckpointCounts
    SparsePointCounts = {2, 3}
    Modes = {"monotonic", "sparse_audit", "linear_audit"}
    Verdicts = {"pass", "block", "insufficient_power"}
    MaxExecuted = 3
    MaxRuns = 2
    Absent = Absent
    Torn = Torn
    Measurements = {1, 2}
    CaseCount = 2
    SharedKeys = {1}
    Decisions = {"pass", "block", "insufficient_power"}
    MaxAttempts <- MCMaxAttempts
    SequenceLengths = {1, 2, 3}
    NotRetained = NotRetained
    Damaged = Damaged
INVARIANTS
    ExitCodeJudgesEveryRow
    PublishedOnsetIsReal
    ConclusiveIsReported
    RowsNameTheirReports
    RootTellsOneStory
\* The process has exited.
CHECK_DEADLOCK FALSE
