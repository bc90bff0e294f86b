---------------------------- MODULE ExecutedBisect ----------------------------
(***************************************************************************)
(* The command "merriv bisect-run" (cli.py, bisect_run_command, over       *)
(* bisect/execution.py, execute_bisect): Bisect with a callback that       *)
(* executes the checkpoint, gates it and publishes its report before it    *)
(* answers.  Reports and the result document outlive a process that dies;  *)
(* the command can be run again over them.                                 *)
(***************************************************************************)
EXTENDS Bisect

CONSTANTS
    Verdicts,      \* gate statuses a comparison may end with
    MaxRuns,       \* bound: runs of the command
    Absent,        \* no file
    Torn           \* a document whose writing was interrupted

ASSUME ExecutionAssumption ==
    /\ Verdicts \subseteq BisectStatus \cup {"insufficient_power"}
    /\ MaxRuns \in Nat \ {0}
    /\ Absent \notin [run : Nat, status : Verdicts]

VARIABLES
    run,           \* which run of the command this is
    stage,         \* what it does between two steps of the engine
    reply,         \* what the callback is about to answer
    completed,     \* the status of each completed checkpoint, or Unset
    reports,       \* the report in the directory of each checkpoint
    document,      \* bisect-result.json
    exit_code

callback == <<stage, reply, completed>>
files == <<reports, document>>
allVars == <<vars, run, callback, files, exit_code>>

NotExited == -1

Row(index) == [run |-> run, status |-> completed[index]]

Executed == {i \in Indices : completed[i] # Unset}

\* The payload: the result and a row for each completed checkpoint, which names
\* its report.
Payload == [result |-> result, rows |-> {<<i, Row(i)>> : i \in Executed}]

ExecutionInit ==
    /\ Init
    /\ run = 1
    /\ stage = "baseline"
    /\ reply = "none"
    /\ completed = [i \in Indices |-> Unset]
    /\ reports = [i \in Indices |-> Absent]
    /\ document = Absent
    /\ exit_code = NotExited

-----------------------------------------------------------------------------
(* The callback *)

\* The index the engine asks for next.
Requested ==
    {i \in Indices :
        \/ pc = "first" /\ i = 0
        \/ pc = "last" /\ i = checkpoint_count - 1
        \/ pc = "search" /\ Halving /\ i = Midpoint
        \/ pc = "audit" /\ i \in pending /\ \A other \in pending : i <= other}

\* The one it has not asked for before.
Missing == {i \in Requested : cache[i] = Unset}

Exit(code) == exit_code' = code /\ stage' = "exited"

\* The adapter of checkpoint 0 serves as baseline of every comparison; without a
\* checkpoint, or without the adapter, the command ends.
LoadBaseline ==
    /\ stage = "baseline"
    /\ \/ checkpoint_count > 0 /\ stage' = "engine" /\ UNCHANGED exit_code
       \/ Exit(3)
    /\ UNCHANGED <<vars, run, reply, completed, files>>

\* The candidate's adapter, the comparison and the gate, each of which may raise.
Compare ==
    /\ stage = "engine" /\ Missing # {}
    /\ \/ reply' \in Verdicts /\ stage' = "write"
       \/ reply' = "raises" /\ stage' = "answer"
    /\ UNCHANGED <<vars, run, completed, files, exit_code>>

\* Mutant: the checkpoint is completed before its report is there.
Complete_First(index) ==
    /\ completed' = [completed EXCEPT ![index] = reply]
    /\ stage' = "answer"
    /\ \/ reports' = [reports EXCEPT ![index] = [run |-> run, status |-> reply]]
       \/ UNCHANGED reports
    /\ UNCHANGED reply

\* write_report_bundle ends, or raises before or after it replaced the report;
\* only then is the checkpoint completed.
Complete(index) ==
    /\ \/ /\ completed' = [completed EXCEPT ![index] = reply]
          /\ reports' = [reports EXCEPT ![index] = [run |-> run, status |-> reply]]
          /\ UNCHANGED reply
       \/ /\ \/ reports' = [reports EXCEPT ![index] = [run |-> run, status |-> reply]]
             \/ UNCHANGED reports
          /\ reply' = "raises"
          /\ UNCHANGED completed
    /\ stage' = "answer"

WriteReport ==
    /\ stage = "write"
    /\ \E index \in Missing : Complete(index)
    /\ UNCHANGED <<vars, run, document, exit_code>>

\* Mutant: a callback that raises counts as a failing checkpoint.
Recorded_RaiseBlocks(answer) == IF answer = "raises" THEN "block" ELSE Normalize(answer)

\* What the engine records of the answer.
Recorded(answer) == Normalize(answer)

\* The engine takes the answer, or goes on without one.
EngineStep ==
    /\ \/ stage = "engine" /\ Missing = {} /\ UNCHANGED stage
       \/ stage = "answer" /\ stage' = "engine"
    /\ Next
    /\ \A index \in Missing : cache'[index] = Recorded(reply)
    /\ UNCHANGED <<run, reply, completed, files, exit_code>>

-----------------------------------------------------------------------------
(* The end of the command *)

ExitCode ==
    CASE result.outcome = "inconclusive" -> 3
      [] result.outcome \in {"first_failing", "regression_bounded", "non_monotonic"} -> 2
      [] OTHER -> 0

\* The document is opened, which truncates it, and then written; a failure of
\* either ends the command with an unhandled exception.
OpenDocument ==
    /\ stage = "engine" /\ pc = "done"
    /\ \/ document' = Torn /\ stage' = "document" /\ UNCHANGED exit_code
       \/ Exit(1) /\ UNCHANGED document
    /\ UNCHANGED <<vars, run, reply, completed, reports>>

WriteDocument ==
    /\ stage = "document"
    /\ \/ document' = Payload /\ Exit(ExitCode)
       \/ Exit(1) /\ UNCHANGED document
    /\ UNCHANGED <<vars, run, reply, completed, reports>>

\* The process dies, or is run again after it ended; only files remain.
RunAgain ==
    /\ run < MaxRuns
    /\ run' = run + 1
    /\ stage' = "baseline" /\ reply' = "none" /\ exit_code' = NotExited
    /\ completed' = [i \in Indices |-> Unset]
    /\ pc' = "call"
    /\ cache' = [i \in Indices |-> Unset]
    /\ requests' = <<>>
    /\ lower_pass' = NoIndex /\ upper_block' = NoIndex /\ pending' = {}
    /\ result' = NoResult
    /\ UNCHANGED <<arguments, files>>

ExecutionNext ==
    \/ LoadBaseline \/ Compare \/ WriteReport \/ EngineStep
    \/ OpenDocument \/ WriteDocument \/ RunAgain

ExecutionSpec == ExecutionInit /\ [][ExecutionNext]_allVars

-----------------------------------------------------------------------------
(* Properties *)

\* A conclusive search rests on reports: when the command ends with an onset, a
\* bound, a reversal or a clean bill, every checkpoint the search looked at has
\* in its directory the report of this very run, with the verdict the search
\* took; whatever earlier runs left, and whichever writes failed.
ConclusiveIsReported ==
    (exit_code # NotExited /\ pc = "done" /\ result.outcome # "inconclusive") =>
        \A i \in Evaluated :
            /\ reports[i] # Absent
            /\ reports[i].run = run
            /\ cache[i] = Normalize(reports[i].status)

\* The document of a run that ended with a verdict is that run's, and names for
\* each of its rows the report that is in the row's directory, even when the
\* search was inconclusive.
RowsNameTheirReports ==
    (exit_code \in {0, 2, 3} /\ pc = "done") =>
        /\ document.result = result
        /\ \A row \in document.rows : reports[row[1]] = row[2]

\* CHANGELOG.md: "Execution-driven recorded/ONNX bisect with a full report for
\* every evaluated checkpoint".
EveryEvaluatedIsReported ==
    (exit_code # NotExited /\ pc = "done") => \A i \in Evaluated : reports[i] # Absent
=============================================================================
