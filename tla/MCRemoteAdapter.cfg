SPECIFICATION FairSpec
CONSTANTS
    NumCases = 2
    max_retries = 2
    timeout_s = 2
    retry_after_cap_s = 2
    max_response_bytes = 1
    max_elapsed_s = 3
    NetworkSteps = 1
    RetryAfters <- MCRetryAfters
INVARIANTS PausesLeaveTime ObservationIsJustified OnlyFailuresAreRepeated
PROPERTIES Terminates
\* A run ends.
CHECK_DEADLOCK FALSE
