------------------------------ MODULE MCEvaluation ------------------------------
\* The two halves of an evaluation on their own: the evidence of one metric, and
\* the gate over what such evidence comes down to.  Three rules; p-values on both
\* sides of every step of Holm's procedure (6 out of 3, 2 and 1), so that ties and
\* failures occur at every rank.
EXTENDS Gate, PairedStatistics

\* 68, 95 and 99 percent: squares of the normal quantiles, and tails.
MCLevels == {[critical |-> 1, tail |-> 6], [critical |-> 4, tail |-> 44],
             [critical |-> 7, tail |-> 240]}

MCThresholds ==
    {NoValue, [num |-> 0, den |-> 1], [num |-> -1, den |-> 10], [num |-> 1, den |-> 3],
     [num |-> -1, den |-> 1]}

MCDifferences == {-2, -1, 0, 3}

Policy(method, insufficient, allow_warn, block_critical, blocking) ==
    [method |-> method, insufficient_evidence_status |-> insufficient,
     allow_warn |-> allow_warn, block_on_any_critical_failure |-> block_critical,
     block_on_violation |-> [r \in Rules |-> r \in blocking]]

\* The default, one that tolerates warnings, and one without correction.
MCPolicies ==
    {Policy(Holm, "insufficient_power", FALSE, TRUE, Rules),
     Policy(Holm, "warn", TRUE, FALSE, Rules \ {1}),
     Policy("none", "error", TRUE, TRUE, Rules)}

\* The half that is not looked at rests in one state of its own.
StatisticsRest ==
    /\ flips = NoValue /\ differences = <<0>> /\ threshold = NoValue
    /\ phase = "resample" /\ effects = <<>> /\ interval = [l \in Levels |-> NoValue]
    /\ solving = NoValue /\ inside = 0 /\ outside = 0 /\ round = 0 /\ test = NoValue

GateRest ==
    /\ policy = Policy(Holm, "insufficient_power", FALSE, TRUE, Rules)
    /\ evidence = [r \in Rules |-> None] /\ critical = FALSE
    /\ pc = "adjust" /\ adjusted = [r \in Rules |-> None]
    /\ denominator = [r \in Rules |-> 1] /\ running = 0
    /\ side = [r \in Rules |-> "crosses"] /\ decisions = [r \in Rules |-> None]
    /\ status = None /\ exit = None

VARIABLE half

EvaluationInit ==
    \/ half = "statistics" /\ StatisticsInit /\ GateRest
    \/ half = "gate" /\ Init /\ StatisticsRest

EvaluationNext ==
    \/ half = "statistics" /\ StatisticsNext /\ UNCHANGED <<half, vars>>
    \/ half = "gate" /\ Next /\ UNCHANGED <<half, statisticsVars>>

EvaluationSpec == EvaluationInit /\ [][EvaluationNext]_<<half, vars, statisticsVars>>
=============================================================================
