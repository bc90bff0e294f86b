--------------------------- MODULE MCBisectCommands ---------------------------
(***************************************************************************)
(* The programs around the search, one of them per behaviour: merriv       *)
(* bisect over every manifest of up to five rows, with every mode and two  *)
(* samplings; merriv bisect-run over up to three checkpoints, run twice;   *)
(* and the two scripts that judge a sequence of builds, run twice.         *)
(***************************************************************************)
EXTENDS BisectCommand, ExecutedBisect, BuildSequence

CONSTANTS
    MaxExecuted,      \* bound: checkpoints of bisect-run
    SequenceLengths   \* bound: builds of a sequence

VARIABLE command

MCCheckpointCounts == 0..5

\* One build is made and judged up to three times, two twice, three once.
MCMaxAttempts == [n \in MCCheckpointCounts |-> IF n < 3 THEN 4 - n ELSE 1]

executionVars == <<run, callback, files, exit_code>>

commandsVars == <<command, vars, commandVars, executionVars, sequenceVars>>

\* What the programs that are not run have in their variables.
CommandRest ==
    rows = <<>> /\ requested_mode = mode /\ published = "none" /\ command_exit = StillRunning

ExecutionRest ==
    /\ run = 0 /\ stage = "baseline" /\ reply = "none"
    /\ completed = <<>> /\ reports = <<>> /\ document = Absent /\ exit_code = NotExited

SequenceRest ==
    /\ script = "none" /\ attempt = 0 /\ authentication = <<"none", 0>>
    /\ task = "ended" /\ done = 0 /\ decisions = <<>>
    /\ root = <<>> /\ entries = {} /\ rootManifest = NotRetained /\ script_exit = NotEnded

CommandsInit ==
    \/ command = "bisect" /\ CommandInit /\ ExecutionRest /\ SequenceRest
    \/ /\ command = "bisect-run" /\ ExecutionInit
       /\ checkpoint_count <= MaxExecuted
       /\ CommandRest /\ SequenceRest
    \/ /\ command = "script" /\ SequenceInit
       /\ checkpoint_count \in SequenceLengths /\ sparse_points = 2
       /\ CommandRest /\ ExecutionRest

CommandsNext ==
    /\ UNCHANGED command
    /\ \/ command = "bisect" /\ CommandNext /\ UNCHANGED <<executionVars, sequenceVars>>
       \/ command = "bisect-run" /\ ExecutionNext /\ UNCHANGED <<commandVars, sequenceVars>>
       \/ command = "script" /\ SequenceNext /\ UNCHANGED <<commandVars, executionVars>>

CommandsSpec == CommandsInit /\ [][CommandsNext]_commandsVars
=============================================================================
