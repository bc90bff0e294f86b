---------------------------- MODULE MCReportBundle ----------------------------
\* Two runs that write one directory, one of which may die and be run again.
EXTENDS ReportBundle

CONSTANTS first, second, reader, plan, old, new

MCWriters == {first, second}
Argument(p, given_plan, manifest, given_manifest) ==
    [plan |-> p, given_plan |-> given_plan, manifest |-> manifest,
     given_manifest |-> given_manifest]

\* The first measures old or new evidence each time it runs; the second may hold
\* back the plan, publish no references at all, or be called inconsistently.
MCArguments ==
    [w \in MCWriters |->
        IF w = first
          THEN {Argument(plan, plan, old, old), Argument(plan, plan, new, new)}
          ELSE {Argument(plan, plan, old, old), Argument(plan, None, new, new),
                Argument(None, None, None, None), Argument(plan, plan, old, new)}]

MCMaxRestarts == [w \in MCWriters |-> IF w = first THEN 1 ELSE 0]
=============================================================================
