---------------------------- MODULE PairedEvidence ----------------------------
(***************************************************************************)
(* What paired execution promises, with no cache, no files and no backend: *)
(* the evidence of a run, if it ends in evidence, is one observation for   *)
(* each side and case, each really observed for exactly that case, by an   *)
(* execution whose results the run may trust.                              *)
(***************************************************************************)
CONSTANTS
    Processes,
    Asked,       \* Asked[p][slot]: what a run of p has to observe in each slot
    Secrets,     \* HMAC keys
    Faithful     \* the executions whose observation is one of what was asked

VARIABLES
    trusted,       \* trusted[p]: the HMAC keys whose executions p may use
    observed,      \* executions so far: [secret, what, observation]
    outcome        \* the state of each process's run and the evidence it ends with

vars == <<trusted, observed, outcome>>

Running == [state |-> "running", evidence |-> <<>>]
Failed == [state |-> "failed", evidence |-> <<>>]

Init ==
    /\ trusted \in [Processes -> SUBSET Secrets]
    /\ observed = {}
    /\ outcome = [p \in Processes |-> Running]

\* An execution is recorded only when it answers what was asked.
Observe ==
    /\ observed \subseteq observed'
    /\ observed' \subseteq Faithful
    /\ UNCHANGED <<trusted, outcome>>

Fail(p) ==
    /\ outcome[p] = Running
    /\ outcome' = [outcome EXCEPT ![p] = Failed]
    /\ UNCHANGED <<trusted, observed>>

Pair(p) ==
    /\ outcome[p] = Running
    /\ outcome'[p].state = "paired"
    /\ DOMAIN outcome'[p].evidence = DOMAIN Asked[p]
    /\ \E secret \in trusted[p] : \A slot \in DOMAIN Asked[p] :
          [secret |-> secret, what |-> Asked[p][slot],
           observation |-> outcome'[p].evidence[slot]] \in observed
    /\ outcome' = [outcome EXCEPT ![p] = outcome'[p]]
    /\ UNCHANGED <<trusted, observed>>

Next == Observe \/ \E p \in Processes : Fail(p) \/ Pair(p)

Spec == Init /\ [][Next]_vars
=============================================================================
