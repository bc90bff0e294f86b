---------------------------- MODULE MCComparison ----------------------------
EXTENDS Comparison

CONSTANTS accuracy, rival, latency, local, served

MCPlugins == {accuracy, rival, latency, local, served}

MCKindOf ==
    [p \in MCPlugins |-> IF p = local THEN "executor" ELSE IF p = served THEN "adapter" ELSE "metric"]

Terms(direction, binary) == [direction |-> direction, binary |-> binary]

Metric(id, terms) == [id |-> id, config |-> "m", capabilities |-> {}, terms |-> terms]

\* The latency metric may turn binary or mean the opposite, the executor fail to describe
\* itself, the adapter claim a capability its manifest does not have.
MCDescriptions ==
    [p \in MCPlugins |->
        IF p = accuracy THEN {Metric(1, Terms("higher", TRUE))}
        ELSE IF p = rival THEN {Metric(1, Terms("lower", TRUE))}
        ELSE IF p = latency THEN {Metric(2, Terms("lower", FALSE)), Metric(2, Terms("lower", TRUE)),
                                     Metric(2, Terms("higher", FALSE))}
        ELSE IF p = local
          THEN {[id |-> 1, config |-> "x", capabilities |-> {}, terms |-> Terms("none", FALSE)], Invalid}
        ELSE {[id |-> Unnamed, config |-> "x", capabilities |-> {}, terms |-> Terms("none", FALSE)],
              [id |-> Unnamed, config |-> "x", capabilities |-> {"stream"}, terms |-> Terms("none", FALSE)]}]

Package(name, kind, config) ==
    [name |-> name, kind |-> kind, config |-> config, capabilities |-> {}]

\* A package of metrics, one that has its name and another configuration, and
\* the packages of the executor and of the adapter.
MCManifests ==
    {Package("metrics", "metric", "m"), Package("metrics", "metric", "n"),
     Package("other", "metric", "n"), Package("fabric", "executor", "x"),
     Package("models", "adapter", "x")}

MCCapacity == [metric |-> 2, executor |-> 1, adapter |-> 1]

MCCases == {"a", "b", "c"}

\* Case c has no risk.
MCCaseSlices ==
    [c \in MCCases |-> IF c = "a" THEN [risk |-> "high"]
                       ELSE IF c = "b" THEN [risk |-> "low"]
                       ELSE [lang |-> "un/safe "]]

Right == [c \in MCCases |-> "right"]

MCOutputs ==
    {[baseline |-> Right, candidate |-> o] :
        o \in {Right, [Right EXCEPT !["a"] = "wrong"], [Right EXCEPT !["b"] = "wrong"],
               [Right EXCEPT !["a"] = "wrong", !["c"] = "wrong"]}}

Even == [c \in MCCases |-> 1]
MCTimings ==
    {[baseline |-> Even, candidate |-> Even],
     [baseline |-> Even, candidate |-> [Even EXCEPT !["b"] = 2]],
     [baseline |-> Even, candidate |-> [Even EXCEPT !["b"] = Missing]],
     [baseline |-> [c \in MCCases |-> Missing], candidate |-> Even]}

MCExpected == [c \in MCCases |-> "right"]

Rule(rule, base, scope, direction) ==
    [rule |-> rule, base |-> base, scope |-> scope, direction |-> direction]

Policy(rules, blocks) == [rules |-> rules, block_on_any_critical_failure |-> blocks]

Quality == Rule("quality", 1, Overall, "higher")
Risky == Rule("risky", 1, <<"risk", "high">>, "higher")
Speed == Rule("speed", 2, Overall, "lower")
Wrong == Rule("wrong", 1, Overall, "lower")
Nowhere == Rule("absent", 1, <<"risk", "none">>, "higher")

Request(suite, policy, slice_keys) ==
    [command |-> "compare", suite |-> suite, policy |-> policy, slice_keys |-> slice_keys,
     resamples |-> 1, records |-> "registry", supplemental |-> {}, executor |-> 1, adapter |-> 2]

Whole == <<"a", "b", "c">>
Sliced == Request(Whole, Policy({Quality, Risky, Speed}, TRUE), <<"risk">>)
Plain == Request(Whole, Policy({Quality}, FALSE), <<>>)

MCRequests ==
    {Sliced, [Sliced EXCEPT !.command = "plan"],
     [Sliced EXCEPT !.supplemental = {[id |-> <<"extra", "a", "right">>, redacted |-> FALSE]}],
     [Sliced EXCEPT !.supplemental = {[id |-> <<"baseline", "a", "right">>, redacted |-> TRUE]}],
     Plain, [Plain EXCEPT !.resamples = 0], [Plain EXCEPT !.suite = <<"a", "a">>],
     [Plain EXCEPT !.slice_keys = <<"lang">>], [Plain EXCEPT !.slice_keys = <<"risk", "risk">>],
     [Plain EXCEPT !.policy = Policy({Wrong}, TRUE)],
     [Plain EXCEPT !.policy = Policy({Nowhere}, TRUE)],
     [Plain EXCEPT !.suite = <<"c", "a">>, !.policy = Policy({Speed}, TRUE)]}
=============================================================================
