--------------------------- MODULE MCExecutedBisect ---------------------------
\* Up to three checkpoints, each strategy, and a second run of the command.
EXTENDS ExecutedBisect

MCCheckpointCounts == 0..3
=============================================================================
