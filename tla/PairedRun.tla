------------------------------ MODULE PairedRun ------------------------------
(***************************************************************************)
(* Paired execution (merriv/engine/runner.py) by processes that share an   *)
(* observation cache: each runs its baseline and then its candidate over   *)
(* its suite, asks its backend for what the cache does not have, validates *)
(* the whole answer and stores it entry by entry.  A process may die       *)
(* before any of these steps and be started again.                         *)
(***************************************************************************)
EXTENDS ObservationCache, Sequences, FiniteSets

CONSTANTS
    Processes,
    Suite,         \* Suite[p]: the case identifiers of the suite, in order
    SideIdentity,  \* SideIdentity[p][side]: snapshot, seed and fingerprints
    Configurations,   \* sets of processes that may be started with MERRIV_CACHE_KEY
    Returned,      \* what a backend may put in an answer
    MaxReturned,   \* bound: length of an answer
    MaxRestarts,   \* bound: restarts of each process
    None           \* no observation

Sides == {"baseline", "candidate"}

ASSUME RunAssumption ==
    /\ Suite \in [Processes -> Seq(Cases)]
    /\ SideIdentity \in [Processes -> [Sides ->
           [snapshot : Snapshots, seed : Seeds, fingerprints : Fingerprints]]]
    /\ Returned \subseteq Observations /\ None \notin Observations
    /\ Configurations \subseteq SUBSET Processes
    /\ MaxReturned \in Nat /\ MaxRestarts \in [Processes -> Nat]
    /\ \A p \in Processes : \A n \in 0..MaxRestarts[p] : <<p, n>> \in Secrets
    /\ <<"shared", 0>> \in Secrets

VARIABLES
    configured,    \* the processes started with MERRIV_CACHE_KEY
    pc,            \* where each process is
    restarts,      \* how often each was started again
    side,          \* the side it runs
    todo,          \* cases of this pass not handled yet, in suite order
    misses,        \* cases the cache does not have
    fresh,         \* the validated answer of the backend
    evidence,      \* observations: what this run holds for each side and case
    cache_hits,    \* where it has it from
    execution,     \* ExecutionTrace of each side
    executed       \* history: every validated observation of every execution

environment == <<configured, restarts>>
memory == <<side, todo, misses, fresh, evidence, cache_hits, execution>>
vars == <<disk, environment, pc, memory, executed>>

CacheKey(p, s, c) ==
    [snapshot |-> SideIdentity[p][s].snapshot, case |-> c,
     seed |-> SideIdentity[p][s].seed, fingerprints |-> SideIdentity[p][s].fingerprints]

\* With MERRIV_CACHE_KEY the key of the environment, without it bytes drawn when
\* the process starts.
LocalSecret(p, n) == <<p, n>>
Secret(p) == IF p \in configured THEN <<"shared", 0>> ELSE LocalSecret(p, restarts[p])

Owner(p) == <<p, restarts[p]>>

NoAnswer == [c \in Cases |-> None]
NoEvidence == [s \in Sides |-> NoAnswer]
NoHits == [s \in Sides |-> {}]
NoTraces == [s \in Sides |-> [requested |-> 0, returned |-> 0]]

Init ==
    /\ DiskInit
    /\ configured \in Configurations
    /\ pc = [p \in Processes |-> "validate"]
    /\ restarts = [p \in Processes |-> 0]
    /\ side = [p \in Processes |-> "baseline"]
    /\ todo = [p \in Processes |-> <<>>]
    /\ misses = [p \in Processes |-> <<>>]
    /\ fresh = [p \in Processes |-> NoAnswer]
    /\ evidence = [p \in Processes |-> NoEvidence]
    /\ cache_hits = [p \in Processes |-> NoHits]
    /\ execution = [p \in Processes |-> NoTraces]
    /\ executed = {}

Goto(p, label) == pc' = [pc EXCEPT ![p] = label]

-----------------------------------------------------------------------------
(* A side begins *)

HasDuplicates(suite) == \E i, j \in 1..Len(suite) : i # j /\ suite[i] = suite[j]

\* run: the suite is checked and the two adapters describe their snapshots, or
\* fail to.
ValidateRun(p) ==
    /\ pc[p] = "validate"
    /\ \/ ~HasDuplicates(Suite[p]) /\ Goto(p, "describe")
       \/ Goto(p, "contract_error")
    /\ UNCHANGED <<disk, environment, memory, executed>>

\* The backend of the side describes itself, or fails to.
DescribeExecutor(p) ==
    /\ pc[p] = "describe"
    /\ \/ /\ Goto(p, "lookup")
          /\ todo' = [todo EXCEPT ![p] = Suite[p]]
       \/ Goto(p, "contract_error") /\ UNCHANGED todo
    /\ misses' = [misses EXCEPT ![p] = <<>>]
    /\ UNCHANGED <<disk, environment, side, fresh, evidence, cache_hits, execution, executed>>

LookUp(p) ==
    /\ pc[p] = "lookup" /\ todo[p] # <<>>
    /\ LET case == Head(todo[p])
           key == CacheKey(p, side[p], case)
       IN  IF IsHit(key, Secret(p))
             THEN /\ evidence' = [evidence EXCEPT ![p][side[p]][case] = files[key].observation]
                  /\ cache_hits' = [cache_hits EXCEPT ![p][side[p]] = @ \cup {case}]
                  /\ UNCHANGED misses
             ELSE /\ misses' = [misses EXCEPT ![p] = Append(@, case)]
                  /\ UNCHANGED <<evidence, cache_hits>>
    /\ todo' = [todo EXCEPT ![p] = Tail(@)]
    /\ UNCHANGED <<disk, pc, environment, side, fresh, execution, executed>>

\* The side returns: the candidate runs after the baseline.
SideDone(p) ==
    /\ \/ pc[p] = "lookup" /\ todo[p] = <<>> /\ misses[p] = <<>>
       \/ pc[p] = "store" /\ todo[p] = <<>>
    /\ Goto(p, IF side[p] = "baseline" THEN "describe" ELSE "paired")
    /\ side' = [side EXCEPT ![p] = "candidate"]
    /\ UNCHANGED <<disk, environment, todo, misses, fresh, evidence, cache_hits, execution, executed>>

-----------------------------------------------------------------------------
(* Execution and validation of the answer *)

\* Mutant: the identifier the adapter chose is kept.
Canonical_KeepsId(o) == o

\* _canonical_observation recomputes the identifier from the content.
Canonical(o) == [o EXCEPT !.id = ContentId(o)]

IdsOf(answer) == {answer[i].case : i \in 1..Len(answer)}

\* Neither duplicate, nor missing, nor unexpected cases.
IsPairing(answer, requested) ==
    /\ \A i, j \in 1..Len(answer) : i # j => answer[i].case # answer[j].case
    /\ IdsOf(answer) = {requested[i] : i \in 1..Len(requested)}

\* Mutant: the seed is not compared.
IsValidAnswer_AnySeed(answer, requested, identity) ==
    /\ \A i \in 1..Len(answer) :
          answer[i].snapshot = identity.snapshot /\ DigestHolds(answer[i])
    /\ IsPairing(answer, requested)

IsValidAnswer(answer, requested, identity) ==
    /\ \A i \in 1..Len(answer) :
          /\ answer[i].snapshot = identity.snapshot
          /\ DigestHolds(answer[i])
          /\ answer[i].seed = identity.seed
    /\ IsPairing(answer, requested)

Execution(p, case, o) ==
    [secret |-> Secret(p), what |-> CacheKey(p, side[p], case), observation |-> o]

\* The backend raises or returns no sequence, or its answer is validated as a
\* whole before any of it is stored.
Execute(p) ==
    /\ pc[p] = "lookup" /\ todo[p] = <<>> /\ misses[p] # <<>>
    /\ \/ /\ Goto(p, "contract_error")
          /\ UNCHANGED <<todo, fresh, execution, executed>>
       \/ \E n \in 0..MaxReturned : \E answer \in [1..n -> Returned] :
            /\ IsValidAnswer(answer, misses[p], SideIdentity[p][side[p]])
            /\ fresh' = [fresh EXCEPT ![p] = [c \in Cases |->
                   IF c \in IdsOf(answer)
                     THEN Canonical(CHOOSE o \in {answer[i] : i \in 1..n} : o.case = c)
                     ELSE None]]
            /\ executed' = executed \cup
                   {Execution(p, c, fresh'[p][c]) : c \in IdsOf(answer)}
            /\ execution' = [execution EXCEPT ![p][side[p]] =
                   [requested |-> Len(misses[p]), returned |-> n]]
            /\ todo' = [todo EXCEPT ![p] = misses[p]]
            /\ Goto(p, "store")
    /\ UNCHANGED <<disk, environment, side, misses, evidence, cache_hits>>

-----------------------------------------------------------------------------
(* One put after another *)

Case(p) == Head(todo[p])
Key(p) == CacheKey(p, side[p], Case(p))

Accepts(o, key) == o # None /\ ObservationMatchesKey(o, key)

\* put checks the observation first, then the root directory.
PutBegins(p) ==
    /\ pc[p] = "store" /\ todo[p] # <<>>
    /\ Goto(p, IF ~Accepts(fresh[p][Case(p)], Key(p)) THEN "put_error"
               ELSE IF Root \in directories THEN "shard" ELSE "make_root")
    /\ UNCHANGED <<disk, environment, memory, executed>>

\* mkdir after the check found no directory: it fails if there is one now.
MakeOrFail(p, directory, next) ==
    \/ MakeDirectory(directory) /\ Goto(p, next)
    \/ directory \in directories /\ Goto(p, "put_error") /\ UNCHANGED disk

MakeRoot(p) ==
    /\ pc[p] = "make_root"
    /\ MakeOrFail(p, Root, "shard")
    /\ UNCHANGED <<environment, memory, executed>>

CheckShard(p) ==
    /\ pc[p] = "shard"
    /\ Goto(p, IF ShardOf[Key(p)] \in directories THEN "write" ELSE "make_shard")
    /\ UNCHANGED <<disk, environment, memory, executed>>

MakeShard(p) ==
    /\ pc[p] = "make_shard"
    /\ MakeOrFail(p, ShardOf[Key(p)], "write")
    /\ UNCHANGED <<environment, memory, executed>>

\* The entry goes to a temporary file first, unless it is too large.
WriteEntry(p) ==
    /\ pc[p] = "write"
    /\ \/ WriteTemporary(Owner(p)) /\ Goto(p, "replace")
       \/ Goto(p, "put_error") /\ UNCHANGED disk
    /\ UNCHANGED <<environment, memory, executed>>

\* Only a stored observation becomes evidence.
ReplaceEntry(p) ==
    /\ pc[p] = "replace"
    /\ \/ /\ Replace(Owner(p), Key(p), Envelope(Key(p), fresh[p][Case(p)], Secret(p)))
          /\ evidence' = [evidence EXCEPT ![p][side[p]][Case(p)] = fresh[p][Case(p)]]
          /\ todo' = [todo EXCEPT ![p] = Tail(@)]
          /\ Goto(p, "store")
       \/ /\ Unlink(Owner(p))
          /\ Goto(p, "put_error")
          /\ UNCHANGED <<evidence, todo>>
    /\ UNCHANGED <<environment, side, misses, fresh, cache_hits, execution, executed>>

-----------------------------------------------------------------------------
(* The process *)

Ended == {"paired", "contract_error", "put_error"}

\* Memory is lost, the disk is not.
Crash(p) ==
    /\ pc[p] \notin Ended \cup {"crashed"}
    /\ restarts[p] < MaxRestarts[p]
    /\ Goto(p, "crashed")
    /\ side' = [side EXCEPT ![p] = "baseline"]
    /\ todo' = [todo EXCEPT ![p] = <<>>]
    /\ misses' = [misses EXCEPT ![p] = <<>>]
    /\ fresh' = [fresh EXCEPT ![p] = NoAnswer]
    /\ evidence' = [evidence EXCEPT ![p] = NoEvidence]
    /\ cache_hits' = [cache_hits EXCEPT ![p] = NoHits]
    /\ execution' = [execution EXCEPT ![p] = NoTraces]
    /\ UNCHANGED <<disk, environment, executed>>

Restart(p) ==
    /\ pc[p] = "crashed"
    /\ Goto(p, "validate")
    /\ restarts' = [restarts EXCEPT ![p] = @ + 1]
    /\ UNCHANGED <<disk, configured, memory, executed>>

Step(p) ==
    \/ ValidateRun(p) \/ DescribeExecutor(p) \/ LookUp(p) \/ Execute(p) \/ SideDone(p)
    \/ PutBegins(p) \/ MakeRoot(p) \/ CheckShard(p) \/ MakeShard(p)
    \/ WriteEntry(p) \/ ReplaceEntry(p)

Next == \E p \in Processes : Step(p) \/ Crash(p) \/ Restart(p)

Spec == Init /\ [][Next]_vars

-----------------------------------------------------------------------------
(* Properties *)

\* Whatever the other processes store, replace or lose meanwhile, a batch the
\* runner validated is one the cache accepts: put never stops half-way through a
\* batch because of its content, which it checks again by itself.
ValidatedIsStorable ==
    \A p \in Processes : pc[p] \in {"store", "make_root", "shard", "make_shard", "write", "replace"} =>
        \A i \in 1..Len(todo[p]) :
            Accepts(fresh[p][todo[p][i]], CacheKey(p, side[p], todo[p][i]))

\* An entry that was readable under some HMAC key stays readable under it until
\* another authentic entry of the same cache key replaces it: neither a crash nor
\* a concurrent writer damages an entry.
EntriesNeverDegrade ==
    [][\A key \in Keys : files'[key] # files[key] =>
           /\ files'[key] \notin {Absent, Damaged}
           /\ [secret |-> files'[key].tag, what |-> key,
               observation |-> files'[key].observation] \in executed']_vars

-----------------------------------------------------------------------------
(* The promise of PairedEvidence, kept *)

Slots(p) == Sides \X {Suite[p][i] : i \in 1..Len(Suite[p])}

Outcome(p) ==
    [state |-> IF pc[p] = "paired" THEN "paired"
               ELSE IF pc[p] \in Ended THEN "failed" ELSE "running",
     evidence |-> IF pc[p] = "paired"
                    THEN [slot \in Slots(p) |-> evidence[p][slot[1]][slot[2]]]
                    ELSE <<>>]

Promise == INSTANCE PairedEvidence WITH
    Asked <- [p \in Processes |-> [slot \in Slots(p) |-> CacheKey(p, slot[1], slot[2])]],
    trusted <- [p \in Processes |->
        IF p \in configured THEN {<<"shared", 0>>} ELSE {LocalSecret(p, n) : n \in 0..MaxRestarts[p]}],
    Faithful <- {e \in [secret : Secrets, what : Keys, observation : Observations] :
                    ObservationMatchesKey(e.observation, e.what)},
    observed <- executed,
    outcome <- [p \in Processes |-> Outcome(p)]

\* Paired execution implements PairedEvidence: a run ends with evidence only when
\* each side and case has an observation that some execution really made of that
\* snapshot, case, seed and fingerprints, under the HMAC key of the run.
KeepsPromise == Promise!Spec
=============================================================================
