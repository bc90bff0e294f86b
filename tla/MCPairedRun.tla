----------------------------- MODULE MCPairedRun -----------------------------
\* Two comparisons that share a cache and the model they have in common, and a
\* third whose suite repeats a case.
EXTENDS PairedRun, TLC

CONSTANTS first, second, third, release, update, one, two

MCProcesses == {first, second, third}
MCSuite == (first :> <<one, two>>) @@ (second :> <<two>>) @@ (third :> <<one, one>>)
MCIdentity(snapshot) == [snapshot |-> snapshot, seed |-> 0, fingerprints |-> "recorded"]

\* The first compares the update with the release, the others the update with
\* itself.
MCSideIdentity ==
    [p \in MCProcesses |-> [s \in Sides |->
        MCIdentity(IF p = first /\ s = "baseline" THEN release ELSE update)]]

MCMaxRestarts == [p \in MCProcesses |-> IF p = first THEN 1 ELSE 0]
MCConfigurations == {{first}, {first, second}}
MCSecrets == {<<"shared", 0>>} \cup (MCProcesses \X (0..1))
MCLeftOver == {key \in Keys : key.snapshot = update /\ key.seed = 0 /\ key.case = two}
MCShardOf == [key \in Keys |-> "00"]

MCObservation(snapshot, case, seed, output, digest, retention, id) ==
    [snapshot |-> snapshot, case |-> case, seed |-> seed, output |-> output,
     digest |-> digest, retention |-> retention, id |-> id]

MCId == <<release, one, 0, "a", "full">>

\* Answers that are right, with an identifier of the adapter's own, for either
\* model and case (the update is unstable on case two), and answers that are
\* wrong in seed or in digest.
MCReturned ==
    {MCObservation(sn, c, 0, "a", "a", "full", MCId) : sn \in {release, update}, c \in {one, two}}
    \cup {MCObservation(update, two, 0, "omitted", "b", "hash_only", MCId),
          MCObservation(update, two, 1, "a", "a", "full", MCId),
          MCObservation(update, two, 0, "a", "b", "full", MCId)}
=============================================================================
