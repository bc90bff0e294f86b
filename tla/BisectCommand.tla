---------------------------- MODULE BisectCommand ----------------------------
(***************************************************************************)
(* The command "merriv bisect" (merriv/cli.py, bisect_command) around      *)
(* Bisect: every status is already a row of the manifest, the command may  *)
(* replace the mode that was asked for, and the process ends with an exit  *)
(* code.                                                                   *)
(***************************************************************************)
EXTENDS Bisect

VARIABLES
    rows,             \* the statuses of the manifest, in order
    requested_mode,   \* the option --mode; Bisect's mode is the effective one
    published,        \* payload["confidence"], once printed
    command_exit

commandVars == <<rows, requested_mode, published, command_exit>>
judgedVars == <<vars, commandVars>>

StillRunning == -1

HasUncertain == \E i \in Indices : rows[i] \in {"warn", "error"}

\* Mutant: the rows after a BLOCK are not looked at.
HasReversal_Ignored == FALSE

HasReversal == \E i, j \in Indices : i < j /\ rows[i] = "block" /\ rows[j] = "pass"

\* "Do not let a binary callback schedule hide a known uncertainty or reversal."
EffectiveMode ==
    IF requested_mode # "linear_audit" /\ (HasUncertain \/ HasReversal)
      THEN "linear_audit"
      ELSE requested_mode

CommandInit ==
    /\ Init
    /\ rows \in [Indices -> BisectStatus]
    /\ requested_mode \in Modes
    /\ mode = EffectiveMode
    /\ published = "none"
    /\ command_exit = StillRunning

\* The engine runs with a callback that reads the row.
SearchStep ==
    /\ Next
    /\ \A i \in Indices : cache'[i] # cache[i] => cache'[i] = rows[i]
    /\ UNCHANGED commandVars

ExitOnError ==
    /\ pc = "rejected" /\ command_exit = StillRunning
    /\ command_exit' = 3
    /\ UNCHANGED <<vars, rows, requested_mode, published>>

\* Mutant: a bounded regression exits as a success.
CommandExit_OnsetOnly ==
    CASE result.outcome = "inconclusive" -> 3
      [] result.outcome \in {"first_failing", "non_monotonic"} -> 2
      [] OTHER -> 0

CommandExit ==
    CASE result.outcome = "inconclusive" -> 3
      [] result.outcome \in {"first_failing", "regression_bounded", "non_monotonic"} -> 2
      [] OTHER -> 0

PrintAndExit ==
    /\ pc = "done" /\ command_exit = StillRunning
    /\ published' = IF result.outcome = "non_monotonic" /\ requested_mode # "linear_audit"
                      THEN "none" ELSE result.confidence
    /\ command_exit' = CommandExit
    /\ UNCHANGED <<vars, rows, requested_mode>>

CommandNext == SearchStep \/ ExitOnError \/ PrintAndExit

CommandSpec == CommandInit /\ [][CommandNext]_judgedVars

-----------------------------------------------------------------------------
(* Properties *)

\* The exit code is a verdict on the whole manifest, however few rows the search
\* asked for: 0 when every row passes, 3 when a row is uncertain, 2 otherwise.
ExitCodeJudgesEveryRow ==
    (command_exit # StillRunning /\ pc = "done") =>
        command_exit = IF HasUncertain THEN 3
                    ELSE IF \A i \in Indices : rows[i] = "pass" THEN 0 ELSE 2

\* An onset that is published is the onset of the manifest: every row before it
\* passes, it and every row after it block, even those that were not asked for.
PublishedOnsetIsReal ==
    (command_exit # StillRunning /\ result.first_failing_index # NoIndex) =>
        \A i \in Indices : rows[i] = IF i < result.first_failing_index THEN "pass" ELSE "block"
=============================================================================
