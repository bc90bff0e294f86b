--------------------------- MODULE PairedRunProofs ---------------------------
(***************************************************************************)
(* Paired execution over a shared cache implements PairedEvidence, for any *)
(* number of processes, suites, answers and restarts.                      *)
(***************************************************************************)
EXTENDS PairedRun, TLAPS

Storing == {"store", "make_root", "shard", "make_shard", "write", "replace"}

Labels == {"validate", "describe", "lookup", "crashed"} \cup Storing \cup Ended

MaybeObserved == Observations \cup {None}

RunTypes ==
    /\ files \in [Keys -> Envelopes \cup {Absent, Damaged}]
    /\ pc \in [Processes -> Labels]
    /\ restarts \in [Processes -> Nat]
    /\ side \in [Processes -> Sides]
    /\ todo \in [Processes -> Seq(Cases)] /\ misses \in [Processes -> Seq(Cases)]
    /\ fresh \in [Processes -> [Cases -> MaybeObserved]]
    /\ evidence \in [Processes -> [Sides -> [Cases -> MaybeObserved]]]

\* What an execution records answers what was asked.
FaithfulExecutions ==
    {e \in [secret : Secrets, what : Keys, observation : Observations] :
        ObservationMatchesKey(e.observation, e.what)}

\* An entry is what an execution with the HMAC key of its tag yielded for its key.
EntriesWereExecuted ==
    \A key \in Keys : files[key] \notin {Absent, Damaged} =>
        [secret |-> files[key].tag, what |-> key, observation |-> files[key].observation] \in executed

IsAmong(c, s) == \E i \in 1 .. Len(s) : s[i] = c

WasExecuted(p, s, c, o) ==
    [secret |-> Secret(p), what |-> CacheKey(p, s, c), observation |-> o] \in executed

\* A run has a restart left when it dies, and begins with nothing.
BeginsEmpty(p) ==
    /\ restarts[p] <= MaxRestarts[p]
    /\ pc[p] = "crashed" => restarts[p] < MaxRestarts[p]
    /\ pc[p] \in {"crashed", "validate"} => evidence[p] = NoEvidence /\ side[p] = "baseline"

\* What is still to be stored was executed by this very run.
FreshWasExecuted(p) ==
    pc[p] \in Storing => \A c \in Cases : IsAmong(c, todo[p]) => WasExecuted(p, side[p], c, fresh[p][c])

\* Evidence was executed, by this run or by one that has its HMAC key.
EvidenceWasExecuted(p) ==
    \A s \in Sides, c \in Cases : evidence[p][s][c] # None => WasExecuted(p, s, c, evidence[p][s][c])

HasAll(p, s) == \A c \in Cases : IsAmong(c, Suite[p]) => evidence[p][s][c] # None

\* No case of the suite is forgotten: it is evidence, or still to be handled.
NothingForgotten(p) ==
    /\ side[p] = "candidate" => HasAll(p, "baseline")
    /\ pc[p] = "paired" => HasAll(p, "baseline") /\ HasAll(p, "candidate")
    /\ pc[p] = "lookup" => \A c \in Cases : IsAmong(c, Suite[p]) =>
          evidence[p][side[p]][c] # None \/ IsAmong(c, todo[p]) \/ IsAmong(c, misses[p])
    /\ pc[p] \in Storing => \A c \in Cases : IsAmong(c, Suite[p]) =>
          evidence[p][side[p]][c] # None \/ IsAmong(c, todo[p])
    /\ pc[p] \in Storing \ {"store"} => todo[p] # <<>>

ProcessInv(p) ==
    BeginsEmpty(p) /\ FreshWasExecuted(p) /\ EvidenceWasExecuted(p) /\ NothingForgotten(p)

RunInvariant ==
    /\ RunTypes
    /\ executed \subseteq FaithfulExecutions
    /\ EntriesWereExecuted
    /\ \A p \in Processes : ProcessInv(p)

LEMMA HeadAndTail ==
    ASSUME NEW s \in Seq(Cases), s # <<>>
    PROVE  /\ Head(s) \in Cases /\ Tail(s) \in Seq(Cases)
           /\ \A c : IsAmong(c, s) <=> c = Head(s) \/ IsAmong(c, Tail(s))
<1>1. Head(s) \in Cases /\ Tail(s) \in Seq(Cases) /\ Len(s) \in Nat /\ Len(s) >= 1
         /\ Head(s) = s[1] /\ Len(Tail(s)) = Len(s) - 1
         /\ \A i \in 1 .. Len(s) - 1 : Tail(s)[i] = s[i + 1]
  OBVIOUS
<1>2. ASSUME NEW c, IsAmong(c, s) PROVE c = Head(s) \/ IsAmong(c, Tail(s))
  <2>1. PICK i \in 1 .. Len(s) : s[i] = c
    BY <1>2 DEF IsAmong
  <2>2. CASE i = 1
    BY <1>1, <2>1, <2>2
  <2>3. CASE i # 1
    <3>1. i - 1 \in 1 .. Len(s) - 1 /\ (i - 1) + 1 = i
      BY <1>1, <2>3
    <3>2. Tail(s)[i - 1] = c
      BY <1>1, <2>1, <3>1
    <3> QED
      BY <1>1, <3>1, <3>2 DEF IsAmong
  <2> QED
    BY <2>2, <2>3
<1>3. ASSUME NEW c, c = Head(s) \/ IsAmong(c, Tail(s)) PROVE IsAmong(c, s)
  <2>1. CASE c = Head(s)
    BY <1>1, <2>1 DEF IsAmong
  <2>2. CASE IsAmong(c, Tail(s))
    <3>1. PICK i \in 1 .. Len(s) - 1 : Tail(s)[i] = c
      BY <1>1, <2>2 DEF IsAmong
    <3>2. s[i + 1] = c /\ i + 1 \in 1 .. Len(s)
      BY <1>1, <3>1
    <3> QED
      BY <3>2 DEF IsAmong
  <2> QED
    BY <1>3, <2>1, <2>2
<1> QED
  BY <1>1, <1>2, <1>3

LEMMA OneMore ==
    ASSUME NEW s \in Seq(Cases), NEW x \in Cases
    PROVE  /\ Append(s, x) \in Seq(Cases)
           /\ \A c : IsAmong(c, s) \/ c = x => IsAmong(c, Append(s, x))
<1> DEFINE t == Append(s, x)
<1>1. t \in Seq(Cases) /\ Len(t) = Len(s) + 1 /\ Len(s) \in Nat
         /\ t[Len(s) + 1] = x /\ \A i \in 1 .. Len(s) : t[i] = s[i]
  OBVIOUS
<1> HIDE DEF t
<1>2. \A c : IsAmong(c, s) \/ c = x => IsAmong(c, t)
  BY <1>1 DEF IsAmong
<1> QED
  BY <1>1, <1>2 DEF t

\* The other processes: they keep what they have, and no execution is forgotten.
SameProcess(q) ==
    /\ pc'[q] = pc[q] /\ restarts'[q] = restarts[q] /\ side'[q] = side[q] /\ todo'[q] = todo[q]
    /\ misses'[q] = misses[q] /\ fresh'[q] = fresh[q] /\ evidence'[q] = evidence[q]

LEMMA OthersKeepTheirInvariant ==
    ASSUME NEW q \in Processes, ProcessInv(q), SameProcess(q), UNCHANGED configured,
           executed \subseteq executed'
    PROVE  ProcessInv(q)'
<1>1. Secret(q)' = Secret(q)
  BY DEF Secret, LocalSecret, SameProcess
<1>2. \A s, c, o : WasExecuted(q, s, c, o) => WasExecuted(q, s, c, o)'
  BY <1>1 DEF WasExecuted, CacheKey
<1>3. BeginsEmpty(q)' /\ NothingForgotten(q)'
  BY DEF ProcessInv, SameProcess, BeginsEmpty, NothingForgotten, HasAll
<1>4. FreshWasExecuted(q)' /\ EvidenceWasExecuted(q)'
  BY <1>2 DEF ProcessInv, SameProcess, FreshWasExecuted, EvidenceWasExecuted
<1> QED
  BY <1>3, <1>4 DEF ProcessInv

\* A step of p: what must be shown of it.
LEMMA StepOfOne ==
    ASSUME RunInvariant, NEW p \in Processes, RunTypes', executed' \subseteq FaithfulExecutions,
           executed \subseteq executed', EntriesWereExecuted', UNCHANGED configured,
           ProcessInv(p)', \A q \in Processes : q # p => SameProcess(q)
    PROVE  RunInvariant'
<1>1. \A q \in Processes : ProcessInv(q)'
  <2> TAKE q \in Processes
  <2>1. ProcessInv(q)
    BY DEF RunInvariant
  <2> QED
    BY <2>1, OthersKeepTheirInvariant
<1>2. (executed \subseteq FaithfulExecutions)'
  BY DEF FaithfulExecutions, ObservationMatchesKey, DigestHolds, ContentId
<1> QED
  BY <1>1, <1>2 DEF RunInvariant

\* One that executes and stores nothing.
LEMMA QuietStepOfOne ==
    ASSUME RunInvariant, NEW p \in Processes, RunTypes', UNCHANGED <<files, executed, configured>>,
           ProcessInv(p)', \A q \in Processes : q # p => SameProcess(q)
    PROVE  RunInvariant'
<1>1. EntriesWereExecuted'
  BY DEF RunInvariant, EntriesWereExecuted
<1>2. executed' \subseteq FaithfulExecutions
  BY DEF RunInvariant
<1> QED
  BY <1>1, <1>2, StepOfOne

\* Steps that only move on, to where nothing is claimed or storing goes on.
LEMMA MovesOn ==
    ASSUME RunInvariant, NEW p \in Processes, NEW label,
           pc' = [pc EXCEPT ![p] = label], UNCHANGED <<files, executed, configured, restarts, memory>>,
           \/ label \in {"describe", "contract_error", "put_error"}
           \/ /\ pc[p] \in Storing /\ todo[p] # <<>>
              /\ label \in Storing
    PROVE  RunInvariant'
<1>1. label \in Labels
  BY DEF Labels, Ended
<1>2. RunTypes'
  BY <1>1 DEF RunInvariant, RunTypes, memory
<1>3. pc'[p] = label /\ \A q \in Processes : q # p => pc'[q] = pc[q]
  BY DEF RunInvariant, RunTypes
<1>4. \A q \in Processes : q # p => SameProcess(q)
  BY <1>3 DEF SameProcess, memory
<1>5. Secret(p)' = Secret(p)
  BY DEF Secret, LocalSecret
<1>6. \A s, c, o : WasExecuted(p, s, c, o)' <=> WasExecuted(p, s, c, o)
  BY <1>5 DEF WasExecuted, CacheKey
<1>7. ProcessInv(p)
  BY DEF RunInvariant
<1>8. BeginsEmpty(p)'
  BY <1>3, <1>7 DEF ProcessInv, BeginsEmpty, memory, Storing
<1>9. EvidenceWasExecuted(p)'
  BY <1>6, <1>7 DEF ProcessInv, EvidenceWasExecuted, memory
<1>10. FreshWasExecuted(p)'
  BY <1>3, <1>6, <1>7 DEF ProcessInv, FreshWasExecuted, memory, Storing
<1>11. NothingForgotten(p)'
  BY <1>3, <1>7 DEF ProcessInv, NothingForgotten, HasAll, memory, Storing
<1> QED
  BY <1>2, <1>4, <1>8, <1>9, <1>10, <1>11, QuietStepOfOne DEF ProcessInv

\* The steps of put before the entry is replaced, and those of every failure.
LEMMA MovingSteps ==
    ASSUME RunInvariant, NEW p \in Processes,
           ValidateRun(p) \/ PutBegins(p) \/ MakeRoot(p) \/ CheckShard(p) \/ MakeShard(p) \/ WriteEntry(p)
    PROVE  RunInvariant'
<1>1. NothingForgotten(p)
  BY DEF RunInvariant, ProcessInv
<1>2. PICK label : /\ pc' = [pc EXCEPT ![p] = label]
                   /\ \/ label \in {"describe", "contract_error", "put_error"}
                      \/ /\ pc[p] \in Storing /\ todo[p] # <<>>
                         /\ label \in Storing
  <2>1. CASE ValidateRun(p)
    BY <2>1 DEF ValidateRun, Goto
  <2>2. CASE PutBegins(p)
    BY <2>2 DEF PutBegins, Goto, Storing
  <2>3. CASE MakeRoot(p)
    BY <1>1, <2>3 DEF MakeRoot, MakeOrFail, Goto, Storing, NothingForgotten
  <2>4. CASE CheckShard(p)
    BY <1>1, <2>4 DEF CheckShard, Goto, Storing, NothingForgotten
  <2>5. CASE MakeShard(p)
    BY <1>1, <2>5 DEF MakeShard, MakeOrFail, Goto, Storing, NothingForgotten
  <2>6. CASE WriteEntry(p)
    BY <1>1, <2>6 DEF WriteEntry, Goto, Storing, NothingForgotten
  <2> QED
    BY <2>1, <2>2, <2>3, <2>4, <2>5, <2>6
<1>3. UNCHANGED <<files, executed, configured, restarts, memory>>
  BY DEF ValidateRun, PutBegins, MakeRoot, CheckShard, MakeShard, WriteEntry, MakeOrFail,
         MakeDirectory, WriteTemporary, disk, environment
<1> QED
  BY <1>2, <1>3, MovesOn

\* A pass over the suite begins with all of it.
LEMMA DescribeStep ==
    ASSUME RunInvariant, NEW p \in Processes, DescribeExecutor(p) PROVE RunInvariant'
<1>1. /\ \/ pc' = [pc EXCEPT ![p] = "lookup"] /\ todo' = [todo EXCEPT ![p] = Suite[p]]
         \/ pc' = [pc EXCEPT ![p] = "contract_error"] /\ todo' = todo
      /\ misses' = [misses EXCEPT ![p] = <<>>]
      /\ UNCHANGED <<files, configured, restarts, side, fresh, evidence, executed>>
  BY DEF DescribeExecutor, Goto, disk, environment
<1>2. Suite[p] \in Seq(Cases) /\ <<>> \in Seq(Cases)
  BY RunAssumption
<1>3. RunTypes'
  BY <1>1, <1>2 DEF RunInvariant, RunTypes, Labels, Ended
<1>4. /\ \/ pc'[p] = "lookup" /\ todo'[p] = Suite[p]
         \/ pc'[p] = "contract_error"
      /\ \A q \in Processes : q # p => SameProcess(q)
  BY <1>1 DEF RunInvariant, RunTypes, SameProcess
<1>5. Secret(p)' = Secret(p)
  BY <1>1 DEF Secret, LocalSecret
<1>6. \A s, c, o : WasExecuted(p, s, c, o)' <=> WasExecuted(p, s, c, o)
  BY <1>1, <1>5 DEF WasExecuted, CacheKey
<1>7. ProcessInv(p)
  BY DEF RunInvariant
<1>8. BeginsEmpty(p)' /\ EvidenceWasExecuted(p)' /\ FreshWasExecuted(p)'
  BY <1>1, <1>4, <1>6, <1>7 DEF ProcessInv, BeginsEmpty, EvidenceWasExecuted, FreshWasExecuted, Storing
<1>9. NothingForgotten(p)'
  BY <1>1, <1>4, <1>7 DEF ProcessInv, NothingForgotten, HasAll, Storing
<1> QED
  BY <1>1, <1>3, <1>4, <1>8, <1>9, QuietStepOfOne DEF ProcessInv

\* One observation more is evidence of the same shape.
LEMMA OneEvidence ==
    ASSUME NEW p \in Processes, NEW s \in Sides, NEW c \in Cases, NEW o \in MaybeObserved,
           NEW e \in [Processes -> [Sides -> [Cases -> MaybeObserved]]]
    PROVE  [e EXCEPT ![p][s][c] = o] \in [Processes -> [Sides -> [Cases -> MaybeObserved]]]
<1>1. [e[p][s] EXCEPT ![c] = o] \in [Cases -> MaybeObserved]
  OBVIOUS
<1>2. [e[p] EXCEPT ![s] = [e[p][s] EXCEPT ![c] = o]] \in [Sides -> [Cases -> MaybeObserved]]
  BY <1>1
<1> QED
  BY <1>2

\* A hit is evidence of an execution with this key; a miss is kept for later.
LEMMA LookUpStep ==
    ASSUME RunInvariant, NEW p \in Processes, LookUp(p) PROVE RunInvariant'
<1> DEFINE case == Head(todo[p])
           key  == CacheKey(p, side[p], case)
<1>1. /\ pc[p] = "lookup" /\ todo[p] # <<>> /\ todo' = [todo EXCEPT ![p] = Tail(@)]
      /\ UNCHANGED <<files, pc, configured, restarts, side, fresh, executed>>
      /\ \/ /\ IsHit(key, Secret(p))
            /\ evidence' = [evidence EXCEPT ![p][side[p]][case] = files[key].observation]
            /\ misses' = misses
         \/ /\ misses' = [misses EXCEPT ![p] = Append(@, case)]
            /\ evidence' = evidence
  BY DEF LookUp, disk, environment
<1>2. /\ todo[p] \in Seq(Cases) /\ misses[p] \in Seq(Cases) /\ side[p] \in Sides
      /\ case \in Cases /\ Tail(todo[p]) \in Seq(Cases)
      /\ \A c : IsAmong(c, todo[p]) <=> c = case \/ IsAmong(c, Tail(todo[p]))
  BY <1>1, HeadAndTail DEF RunInvariant, RunTypes
<1>3. key \in Keys
  BY <1>2, RunAssumption DEF CacheKey, Keys
<1> HIDE DEF case, key
<1>4. /\ Append(misses[p], case) \in Seq(Cases)
      /\ \A c : IsAmong(c, misses[p]) \/ c = case => IsAmong(c, Append(misses[p], case))
  BY <1>2, OneMore
<1>5. IsHit(key, Secret(p)) =>
          /\ files[key].observation \in Observations
          /\ WasExecuted(p, side[p], case, files[key].observation)
  <2> SUFFICES ASSUME IsHit(key, Secret(p))
               PROVE  /\ files[key].observation \in Observations
                      /\ WasExecuted(p, side[p], case, files[key].observation)
    OBVIOUS
  <2>1. files[key] \notin {Absent, Damaged} /\ files[key].tag = Secret(p)
    BY DEF IsHit
  <2>2. files[key] \in Envelopes
    BY <1>3, <2>1 DEF RunInvariant, RunTypes
  <2>3. [secret |-> files[key].tag, what |-> key, observation |-> files[key].observation] \in executed
    BY <1>3, <2>1 DEF RunInvariant, EntriesWereExecuted
  <2> QED
    BY <2>1, <2>2, <2>3 DEF WasExecuted, Envelopes, key
<1>6. RunTypes'
  <2>1. evidence' \in [Processes -> [Sides -> [Cases -> MaybeObserved]]]
    <3>1. evidence \in [Processes -> [Sides -> [Cases -> MaybeObserved]]]
      BY DEF RunInvariant, RunTypes
    <3>2. IsHit(key, Secret(p)) => files[key].observation \in MaybeObserved
      BY <1>5 DEF MaybeObserved
    <3>3. CASE evidence' = evidence
      BY <3>1, <3>3
    <3>4. CASE IsHit(key, Secret(p))
                  /\ evidence' = [evidence EXCEPT ![p][side[p]][case] = files[key].observation]
      BY <1>2, <3>1, <3>2, <3>4, OneEvidence
    <3> QED
      BY <1>1, <3>3, <3>4
  <2>2. misses' \in [Processes -> Seq(Cases)] /\ todo' \in [Processes -> Seq(Cases)]
    BY <1>1, <1>2, <1>4 DEF RunInvariant, RunTypes
  <2> QED
    BY <1>1, <2>1, <2>2 DEF RunInvariant, RunTypes
<1>7. /\ todo'[p] = Tail(todo[p])
      /\ \A q \in Processes : q # p => SameProcess(q)
  BY <1>1 DEF RunInvariant, RunTypes, SameProcess
<1>8. \/ /\ IsHit(key, Secret(p)) /\ misses'[p] = misses[p]
         /\ \A s \in Sides, c \in Cases : evidence'[p][s][c] =
               IF s = side[p] /\ c = case THEN files[key].observation ELSE evidence[p][s][c]
      \/ misses'[p] = Append(misses[p], case) /\ evidence'[p] = evidence[p]
  BY <1>1, <1>2 DEF RunInvariant, RunTypes
<1>9. Secret(p)' = Secret(p)
  BY <1>1 DEF Secret, LocalSecret
<1>10. \A s, c, o : WasExecuted(p, s, c, o)' <=> WasExecuted(p, s, c, o)
  BY <1>1, <1>9 DEF WasExecuted, CacheKey
<1>11. ProcessInv(p)
  BY DEF RunInvariant
<1>12. \A s \in Sides, c \in Cases : evidence[p][s][c] # None => evidence'[p][s][c] # None
  BY <1>5, <1>8, RunAssumption
<1>13. BeginsEmpty(p)' /\ FreshWasExecuted(p)'
  BY <1>1, <1>11 DEF ProcessInv, BeginsEmpty, FreshWasExecuted, Storing
<1>14. EvidenceWasExecuted(p)'
  BY <1>5, <1>8, <1>10, <1>11 DEF ProcessInv, EvidenceWasExecuted
<1>15. NothingForgotten(p)'
  <2>1. HasAll(p, "baseline") => HasAll(p, "baseline")'
    BY <1>12 DEF HasAll, Sides
  <2>2. \A c \in Cases : IsAmong(c, Suite[p]) =>
            evidence'[p][side[p]][c] # None \/ IsAmong(c, Tail(todo[p])) \/ IsAmong(c, misses'[p])
    <3> TAKE c \in Cases
    <3> SUFFICES ASSUME IsAmong(c, Suite[p])
                 PROVE evidence'[p][side[p]][c] # None \/ IsAmong(c, Tail(todo[p])) \/ IsAmong(c, misses'[p])
      OBVIOUS
    <3>1. evidence[p][side[p]][c] # None \/ IsAmong(c, todo[p]) \/ IsAmong(c, misses[p])
      BY <1>1, <1>11 DEF ProcessInv, NothingForgotten
    <3>2. IsAmong(c, misses[p]) => IsAmong(c, misses'[p])
      BY <1>4, <1>8
    <3>3. c = case => evidence'[p][side[p]][c] # None \/ IsAmong(c, misses'[p])
      BY <1>2, <1>4, <1>5, <1>8, RunAssumption
    <3> QED
      BY <1>2, <1>12, <3>1, <3>2, <3>3
  <2> QED
    BY <1>1, <1>7, <1>11, <2>1, <2>2 DEF ProcessInv, NothingForgotten, Storing
<1> QED
  BY <1>1, <1>6, <1>7, <1>13, <1>14, <1>15, QuietStepOfOne DEF ProcessInv

\* A side ends when nothing is left to store.
LEMMA SideDoneStep ==
    ASSUME RunInvariant, NEW p \in Processes, SideDone(p) PROVE RunInvariant'
<1>1. /\ \/ pc[p] = "lookup" /\ todo[p] = <<>> /\ misses[p] = <<>>
         \/ pc[p] = "store" /\ todo[p] = <<>>
      /\ pc' = [pc EXCEPT ![p] = IF side[p] = "baseline" THEN "describe" ELSE "paired"]
      /\ side' = [side EXCEPT ![p] = "candidate"]
      /\ UNCHANGED <<files, configured, restarts, todo, misses, fresh, evidence, executed>>
  BY DEF SideDone, Goto, disk, environment
<1>2. RunTypes'
  BY <1>1 DEF RunInvariant, RunTypes, Labels, Ended, Sides
<1>3. /\ pc'[p] = IF side[p] = "baseline" THEN "describe" ELSE "paired"
      /\ side'[p] = "candidate" /\ side[p] \in {"baseline", "candidate"}
      /\ \A q \in Processes : q # p => SameProcess(q)
  BY <1>1 DEF RunInvariant, RunTypes, SameProcess, Sides
<1>4. Secret(p)' = Secret(p)
  BY <1>1 DEF Secret, LocalSecret
<1>5. \A s, c, o : WasExecuted(p, s, c, o)' <=> WasExecuted(p, s, c, o)
  BY <1>1, <1>4 DEF WasExecuted, CacheKey
<1>6. ProcessInv(p)
  BY DEF RunInvariant
<1>7. \A c : ~IsAmong(c, <<>>)
  BY DEF IsAmong
<1>8. HasAll(p, side[p])
  BY <1>1, <1>6, <1>7 DEF ProcessInv, NothingForgotten, HasAll, Storing
<1>9. BeginsEmpty(p)' /\ FreshWasExecuted(p)'
  BY <1>1, <1>3, <1>6 DEF ProcessInv, BeginsEmpty, FreshWasExecuted, Storing
<1>10. EvidenceWasExecuted(p)'
  BY <1>1, <1>5, <1>6 DEF ProcessInv, EvidenceWasExecuted
<1>11. NothingForgotten(p)'
  BY <1>1, <1>3, <1>6, <1>8 DEF ProcessInv, NothingForgotten, HasAll, Storing
<1> QED
  BY <1>1, <1>2, <1>3, <1>9, <1>10, <1>11, QuietStepOfOne DEF ProcessInv

LEMMA SecretIsKnown ==
    ASSUME RunInvariant, NEW p \in Processes
    PROVE  /\ Secret(p) \in Secrets
           /\ p \notin configured => Secret(p) \in {LocalSecret(p, n) : n \in 0 .. MaxRestarts[p]}
<1>1. restarts[p] \in 0 .. MaxRestarts[p]
  BY RunAssumption DEF RunInvariant, RunTypes, ProcessInv, BeginsEmpty
<1> QED
  BY <1>1, RunAssumption DEF Secret, LocalSecret

\* A valid answer, made canonical, is faithful to what was asked, case by case.
LEMMA CanonicalIsFaithful ==
    ASSUME NEW o \in Observations, NEW p \in Processes, NEW s \in Sides, NEW c \in Cases,
           o.case = c, DigestHolds(o), o.snapshot = SideIdentity[p][s].snapshot,
           o.seed = SideIdentity[p][s].seed
    PROVE  Canonical(o) \in Observations /\ ObservationMatchesKey(Canonical(o), CacheKey(p, s, c))
<1>1. ContentId(o) \in Snapshots \X Cases \X Seeds \X Outputs \X Retentions
  BY DEF Observations, ContentId
<1>2. Canonical(o) \in Observations
  BY <1>1 DEF Observations, Canonical
<1>3. /\ Canonical(o).snapshot = o.snapshot /\ Canonical(o).case = o.case
      /\ Canonical(o).seed = o.seed /\ Canonical(o).digest = o.digest
      /\ Canonical(o).output = o.output /\ Canonical(o).retention = o.retention
      /\ Canonical(o).id = ContentId(o)
  BY DEF Canonical, Observations
<1>4. ContentId(Canonical(o)) = ContentId(o) /\ DigestHolds(Canonical(o))
  BY <1>3 DEF ContentId, DigestHolds
<1> QED
  BY <1>2, <1>3, <1>4 DEF ObservationMatchesKey, CacheKey

\* The whole answer is executed, and all that was asked is still to be stored.
LEMMA AnswerStep ==
    ASSUME RunInvariant, NEW p \in Processes, pc[p] = "lookup", todo[p] = <<>>,
           NEW n \in 0 .. MaxReturned, NEW answer \in [1 .. n -> Returned],
           IsValidAnswer(answer, misses[p], SideIdentity[p][side[p]]),
           fresh' = [fresh EXCEPT ![p] = [c \in Cases |->
               IF c \in IdsOf(answer)
                 THEN Canonical(CHOOSE o \in {answer[i] : i \in 1 .. n} : o.case = c)
                 ELSE None]],
           executed' = executed \cup
               {[secret |-> Secret(p), what |-> CacheKey(p, side[p], c), observation |-> fresh'[p][c]] :
                    c \in IdsOf(answer)},
           todo' = [todo EXCEPT ![p] = misses[p]],
           pc' = [pc EXCEPT ![p] = "store"],
           UNCHANGED <<files, configured, restarts, side, misses, evidence>>
    PROVE  RunInvariant'
<1> DEFINE Chosen(c) == CHOOSE o \in {answer[i] : i \in 1 .. n} : o.case = c
<1>1. n \in Nat /\ Len(answer) = n
  BY RunAssumption
<1>2. side[p] \in Sides /\ misses[p] \in Seq(Cases) /\ Returned \subseteq Observations
  BY RunAssumption DEF RunInvariant, RunTypes
<1>3. /\ \A i \in 1 .. n : /\ answer[i] \in Observations /\ DigestHolds(answer[i])
                           /\ answer[i].snapshot = SideIdentity[p][side[p]].snapshot
                           /\ answer[i].seed = SideIdentity[p][side[p]].seed
      /\ IdsOf(answer) = {answer[i].case : i \in 1 .. n}
      /\ \A c : c \in IdsOf(answer) <=> IsAmong(c, misses[p])
  <2>1. \A i \in 1 .. n : answer[i] \in Observations
    BY <1>2
  <2>2. IdsOf(answer) = {answer[i].case : i \in 1 .. n}
    BY <1>1 DEF IdsOf
  <2>3. IdsOf(answer) = {misses[p][i] : i \in 1 .. Len(misses[p])}
    BY DEF IsValidAnswer, IsPairing
  <2>4. \A c : c \in IdsOf(answer) <=> IsAmong(c, misses[p])
    BY <2>3 DEF IsAmong
  <2>5. \A i \in 1 .. n : /\ DigestHolds(answer[i])
                          /\ answer[i].snapshot = SideIdentity[p][side[p]].snapshot
                          /\ answer[i].seed = SideIdentity[p][side[p]].seed
    BY <1>1 DEF IsValidAnswer
  <2> QED
    BY <2>1, <2>2, <2>4, <2>5
<1>4. \A c \in IdsOf(answer) :
          /\ c \in Cases
          /\ Canonical(Chosen(c)) \in Observations
          /\ ObservationMatchesKey(Canonical(Chosen(c)), CacheKey(p, side[p], c))
  <2> TAKE c \in IdsOf(answer)
  <2>1. PICK i \in 1 .. n : answer[i].case = c
    BY <1>3
  <2>2. Chosen(c) \in {answer[j] : j \in 1 .. n} /\ Chosen(c).case = c
    BY <2>1
  <2>3. PICK j \in 1 .. n : Chosen(c) = answer[j]
    BY <2>2
  <2>4. c \in Cases
    BY <1>3, <2>1 DEF Observations
  <2>5. /\ Chosen(c) \in Observations /\ DigestHolds(Chosen(c))
        /\ Chosen(c).snapshot = SideIdentity[p][side[p]].snapshot
        /\ Chosen(c).seed = SideIdentity[p][side[p]].seed
    BY <1>3, <2>3
  <2> HIDE DEF Chosen
  <2> QED
    BY <1>2, <2>2, <2>4, <2>5, CanonicalIsFaithful
<1>5. fresh' = [fresh EXCEPT ![p] = [c \in Cases |->
          IF c \in IdsOf(answer) THEN Canonical(Chosen(c)) ELSE None]]
  OBVIOUS
<1> HIDE DEF Chosen
<1>6. /\ pc'[p] = "store" /\ todo'[p] = misses[p]
      /\ \A c \in IdsOf(answer) : fresh'[p][c] = Canonical(Chosen(c))
      /\ \A q \in Processes : q # p => SameProcess(q)
  BY <1>4, <1>5 DEF RunInvariant, RunTypes, SameProcess
<1>7. RunTypes'
  <2>1. fresh' \in [Processes -> [Cases -> MaybeObserved]]
    <3>1. [c \in Cases |-> IF c \in IdsOf(answer) THEN Canonical(Chosen(c)) ELSE None]
              \in [Cases -> MaybeObserved]
      BY <1>4 DEF MaybeObserved
    <3> QED
      BY <1>5, <3>1 DEF RunInvariant, RunTypes
  <2>2. todo' \in [Processes -> Seq(Cases)] /\ pc' \in [Processes -> Labels]
    BY <1>2 DEF RunInvariant, RunTypes, Labels, Storing
  <2> QED
    BY <2>1, <2>2 DEF RunInvariant, RunTypes
<1>8. \A c \in IdsOf(answer) : CacheKey(p, side[p], c) \in Keys
  <2>1. SideIdentity[p][side[p]] \in [snapshot : Snapshots, seed : Seeds, fingerprints : Fingerprints]
    BY <1>2, RunAssumption
  <2>2. \A c \in IdsOf(answer) : c \in Cases
    BY <1>4
  <2> QED
    BY <2>1, <2>2 DEF CacheKey, Keys
<1>9. executed' \subseteq FaithfulExecutions /\ executed \subseteq executed'
  <2>1. \A c \in IdsOf(answer) :
            [secret |-> Secret(p), what |-> CacheKey(p, side[p], c), observation |-> fresh'[p][c]]
                \in FaithfulExecutions
    BY <1>4, <1>6, <1>8, SecretIsKnown DEF FaithfulExecutions
  <2> QED
    BY <2>1 DEF RunInvariant
<1>10. EntriesWereExecuted'
  BY <1>9 DEF RunInvariant, EntriesWereExecuted
<1>11. Secret(p)' = Secret(p)
  BY DEF Secret, LocalSecret
<1>12. \A s, c, o : WasExecuted(p, s, c, o) => WasExecuted(p, s, c, o)'
  BY <1>9, <1>11 DEF WasExecuted, CacheKey
<1>13. ProcessInv(p)
  BY DEF RunInvariant
<1>14. BeginsEmpty(p)' /\ EvidenceWasExecuted(p)'
  BY <1>6, <1>12, <1>13 DEF ProcessInv, BeginsEmpty, EvidenceWasExecuted
<1>15. FreshWasExecuted(p)'
  <2>1. \A c \in Cases : IsAmong(c, misses[p]) =>
            [secret |-> Secret(p), what |-> CacheKey(p, side[p], c), observation |-> fresh'[p][c]]
                \in executed'
    <3> DEFINE E(c) == [secret |-> Secret(p), what |-> CacheKey(p, side[p], c),
                        observation |-> fresh'[p][c]]
    <3>1. \A c \in IdsOf(answer) : E(c) \in executed'
      <4>1. executed' = executed \cup {E(c) : c \in IdsOf(answer)}
        OBVIOUS
      <4> HIDE DEF E
      <4> QED
        BY <4>1
    <3> QED
      BY <1>3, <3>1
  <2>2. \A c \in Cases : IsAmong(c, misses[p]) =>
            [secret |-> Secret(p)', what |-> CacheKey(p, side'[p], c), observation |-> fresh'[p][c]]
                \in executed'
    BY <1>11, <2>1
  <2> QED
    BY <1>6, <2>2 DEF FreshWasExecuted, WasExecuted, CacheKey
<1>16. NothingForgotten(p)'
  <2>1. \A c : ~IsAmong(c, <<>>)
    BY DEF IsAmong
  <2> QED
    BY <1>6, <1>13, <2>1 DEF ProcessInv, NothingForgotten, HasAll, Storing
<1> QED
  BY <1>7, <1>6, <1>9, <1>10, <1>14, <1>15, <1>16, StepOfOne DEF ProcessInv

LEMMA ExecuteStep ==
    ASSUME RunInvariant, NEW p \in Processes, Execute(p) PROVE RunInvariant'
<1>1. CASE Goto(p, "contract_error") /\ UNCHANGED <<todo, fresh, execution, executed>>
  <2>1. /\ pc' = [pc EXCEPT ![p] = "contract_error"]
        /\ UNCHANGED <<files, executed, configured, restarts, side, todo, misses, fresh, evidence>>
    BY <1>1 DEF Execute, Goto, disk, environment
  <2>2. UNCHANGED <<cache_hits, execution>>
    BY <1>1 DEF Execute
  <2> QED
    BY <2>1, <2>2, MovesOn DEF memory
<1>2. CASE ~(Goto(p, "contract_error") /\ UNCHANGED <<todo, fresh, execution, executed>>)
  <2>1. PICK n \in 0 .. MaxReturned : \E answer \in [1 .. n -> Returned] :
            /\ IsValidAnswer(answer, misses[p], SideIdentity[p][side[p]])
            /\ fresh' = [fresh EXCEPT ![p] = [c \in Cases |->
                   IF c \in IdsOf(answer)
                     THEN Canonical(CHOOSE o \in {answer[i] : i \in 1 .. n} : o.case = c)
                     ELSE None]]
            /\ executed' = executed \cup {Execution(p, c, fresh'[p][c]) : c \in IdsOf(answer)}
            /\ todo' = [todo EXCEPT ![p] = misses[p]]
            /\ pc' = [pc EXCEPT ![p] = "store"]
    BY <1>2 DEF Execute, Goto
  <2>2. PICK answer \in [1 .. n -> Returned] :
            /\ IsValidAnswer(answer, misses[p], SideIdentity[p][side[p]])
            /\ fresh' = [fresh EXCEPT ![p] = [c \in Cases |->
                   IF c \in IdsOf(answer)
                     THEN Canonical(CHOOSE o \in {answer[i] : i \in 1 .. n} : o.case = c)
                     ELSE None]]
            /\ executed' = executed \cup
                   {[secret |-> Secret(p), what |-> CacheKey(p, side[p], c),
                     observation |-> fresh'[p][c]] : c \in IdsOf(answer)}
            /\ todo' = [todo EXCEPT ![p] = misses[p]]
            /\ pc' = [pc EXCEPT ![p] = "store"]
    BY <2>1 DEF Execution
  <2>3. /\ pc[p] = "lookup" /\ todo[p] = <<>>
        /\ UNCHANGED <<files, configured, restarts, side, misses, evidence>>
    BY DEF Execute, disk, environment
  <2> QED
    BY <2>2, <2>3, AnswerStep
<1> QED
  BY <1>1, <1>2

\* What is stored is what was executed for its key, and becomes evidence.
LEMMA ReplaceStep ==
    ASSUME RunInvariant, NEW p \in Processes, ReplaceEntry(p) PROVE RunInvariant'
<1> DEFINE case == Head(todo[p])
           key  == CacheKey(p, side[p], case)
           o    == fresh[p][case]
<1>1. /\ pc[p] = "replace"
      /\ UNCHANGED <<configured, restarts, side, misses, fresh, cache_hits, execution, executed>>
      /\ \/ /\ files' = [files EXCEPT ![key] = Envelope(key, o, Secret(p))]
            /\ evidence' = [evidence EXCEPT ![p][side[p]][case] = o]
            /\ todo' = [todo EXCEPT ![p] = Tail(@)]
            /\ pc' = [pc EXCEPT ![p] = "store"]
         \/ pc' = [pc EXCEPT ![p] = "put_error"] /\ UNCHANGED <<files, evidence, todo>>
  BY DEF ReplaceEntry, Goto, environment, Replace, Unlink, Key, Case
<1>2. CASE pc' = [pc EXCEPT ![p] = "put_error"] /\ UNCHANGED <<files, evidence, todo>>
  BY <1>1, <1>2, MovesOn DEF memory
<1>3. CASE /\ files' = [files EXCEPT ![key] = Envelope(key, o, Secret(p))]
           /\ evidence' = [evidence EXCEPT ![p][side[p]][case] = o]
           /\ todo' = [todo EXCEPT ![p] = Tail(@)]
           /\ pc' = [pc EXCEPT ![p] = "store"]
  <2>1. ProcessInv(p) /\ todo[p] # <<>> /\ todo[p] \in Seq(Cases) /\ side[p] \in Sides
    BY <1>1 DEF RunInvariant, RunTypes, ProcessInv, NothingForgotten, Storing
  <2>2. /\ case \in Cases /\ Tail(todo[p]) \in Seq(Cases)
        /\ \A c : IsAmong(c, todo[p]) <=> c = case \/ IsAmong(c, Tail(todo[p]))
    BY <2>1, HeadAndTail
  <2>3. key \in Keys
    BY <2>1, <2>2, RunAssumption DEF CacheKey, Keys
  <2> HIDE DEF case
  <2>4. WasExecuted(p, side[p], case, o)
    BY <1>1, <2>1, <2>2 DEF ProcessInv, FreshWasExecuted, Storing
  <2> HIDE DEF o
  <2>5. o \in Observations /\ Secret(p) \in Secrets
    BY <2>4, SecretIsKnown DEF WasExecuted, RunInvariant, FaithfulExecutions
  <2> HIDE DEF key
  <2>6. /\ Envelope(key, o, Secret(p)) \in Envelopes
        /\ Envelope(key, o, Secret(p)).tag = Secret(p)
        /\ Envelope(key, o, Secret(p)).observation = o
    BY <2>3, <2>5 DEF Envelope, Envelopes
  <2>7. RunTypes'
    <3>1. evidence' \in [Processes -> [Sides -> [Cases -> MaybeObserved]]]
      BY <1>3, <2>1, <2>2, <2>5, OneEvidence DEF RunInvariant, RunTypes, MaybeObserved
    <3>2. files' \in [Keys -> Envelopes \cup {Absent, Damaged}]
      BY <1>3, <2>6 DEF RunInvariant, RunTypes
    <3>3. pc' \in [Processes -> Labels] /\ todo' \in [Processes -> Seq(Cases)]
      BY <1>3, <2>2 DEF RunInvariant, RunTypes, Labels, Storing
    <3> QED
      BY <1>1, <3>1, <3>2, <3>3 DEF RunInvariant, RunTypes
  <2>8. EntriesWereExecuted'
    <3> SUFFICES ASSUME NEW k \in Keys, files'[k] \notin {Absent, Damaged}
                 PROVE  [secret |-> files'[k].tag, what |-> k, observation |-> files'[k].observation]
                            \in executed
      BY <1>1 DEF EntriesWereExecuted
    <3>1. CASE k = key
      BY <1>3, <2>3, <2>4, <2>6, <3>1 DEF WasExecuted, RunInvariant, RunTypes, key
    <3>2. CASE k # key
      BY <1>3, <2>3, <3>2 DEF RunInvariant, RunTypes, EntriesWereExecuted
    <3> QED
      BY <3>1, <3>2
  <2>9. /\ pc'[p] = "store" /\ todo'[p] = Tail(todo[p])
        /\ \A q \in Processes : q # p => SameProcess(q)
    BY <1>1, <1>3 DEF RunInvariant, RunTypes, SameProcess
  <2>10. \A s \in Sides, c \in Cases :
             evidence'[p][s][c] = IF s = side[p] /\ c = case THEN o ELSE evidence[p][s][c]
    BY <1>3, <2>1, <2>2 DEF RunInvariant, RunTypes
  <2>11. Secret(p)' = Secret(p)
    BY <1>1 DEF Secret, LocalSecret
  <2>12. \A s, c, x : WasExecuted(p, s, c, x)' <=> WasExecuted(p, s, c, x)
    BY <1>1, <2>11 DEF WasExecuted, CacheKey
  <2>13. BeginsEmpty(p)'
    BY <1>1, <2>1, <2>9 DEF ProcessInv, BeginsEmpty
  <2>14. FreshWasExecuted(p)'
    BY <1>1, <2>1, <2>2, <2>9, <2>12 DEF ProcessInv, FreshWasExecuted, Storing
  <2>15. EvidenceWasExecuted(p)'
    BY <2>1, <2>4, <2>10, <2>12 DEF ProcessInv, EvidenceWasExecuted
  <2>16. \A s \in Sides, c \in Cases : evidence[p][s][c] # None \/ (s = side[p] /\ c = case) =>
             evidence'[p][s][c] # None
    BY <2>5, <2>10, RunAssumption
  <2>17. NothingForgotten(p)'
    BY <1>1, <2>1, <2>2, <2>9, <2>16 DEF ProcessInv, NothingForgotten, HasAll, Storing, Sides
  <2>18. executed' \subseteq FaithfulExecutions /\ executed \subseteq executed'
    BY <1>1 DEF RunInvariant
  <2> QED
    BY <1>1, <2>7, <2>8, <2>9, <2>13, <2>14, <2>15, <2>17, <2>18, StepOfOne DEF ProcessInv
<1> QED
  BY <1>1, <1>2, <1>3

\* A process that dies forgets; one that is started again begins anew.
LEMMA CrashStep ==
    ASSUME RunInvariant, NEW p \in Processes, Crash(p) \/ Restart(p) PROVE RunInvariant'
<1>1. /\ \A c \in Cases : NoAnswer[c] = None
      /\ \A s \in Sides, c \in Cases : NoEvidence[s][c] = None
      /\ NoAnswer \in [Cases -> MaybeObserved]
      /\ NoEvidence \in [Sides -> [Cases -> MaybeObserved]]
      /\ <<>> \in Seq(Cases)
  BY DEF NoAnswer, NoEvidence, MaybeObserved
<1>2. CASE Crash(p)
  <2>1. /\ restarts[p] < MaxRestarts[p]
        /\ pc' = [pc EXCEPT ![p] = "crashed"] /\ side' = [side EXCEPT ![p] = "baseline"]
        /\ todo' = [todo EXCEPT ![p] = <<>>] /\ misses' = [misses EXCEPT ![p] = <<>>]
        /\ fresh' = [fresh EXCEPT ![p] = NoAnswer] /\ evidence' = [evidence EXCEPT ![p] = NoEvidence]
        /\ UNCHANGED <<files, configured, restarts, executed>>
    BY <1>2 DEF Crash, Goto, disk, environment
  <2>2. RunTypes'
    BY <1>1, <2>1 DEF RunInvariant, RunTypes, Labels, Sides
  <2>3. /\ pc'[p] = "crashed" /\ side'[p] = "baseline" /\ evidence'[p] = NoEvidence
        /\ \A q \in Processes : q # p => SameProcess(q)
    BY <2>1 DEF RunInvariant, RunTypes, SameProcess
  <2>4. BeginsEmpty(p)' /\ FreshWasExecuted(p)' /\ EvidenceWasExecuted(p)' /\ NothingForgotten(p)'
    BY <1>1, <2>1, <2>3 DEF RunInvariant, ProcessInv, BeginsEmpty, FreshWasExecuted,
                            EvidenceWasExecuted, NothingForgotten, Storing, NoEvidence
  <2> QED
    BY <2>1, <2>2, <2>3, <2>4, QuietStepOfOne DEF ProcessInv
<1>3. CASE Restart(p)
  <2>1. /\ pc[p] = "crashed" /\ pc' = [pc EXCEPT ![p] = "validate"]
        /\ restarts' = [restarts EXCEPT ![p] = restarts[p] + 1]
        /\ UNCHANGED <<files, configured, side, todo, misses, fresh, evidence, executed>>
    BY <1>3 DEF Restart, Goto, disk, memory
  <2>2. RunTypes'
    BY <2>1 DEF RunInvariant, RunTypes, Labels
  <2>3. /\ pc'[p] = "validate" /\ restarts'[p] = restarts[p] + 1
        /\ restarts[p] < MaxRestarts[p] /\ restarts[p] \in Nat /\ MaxRestarts[p] \in Nat
        /\ evidence[p] = NoEvidence /\ side[p] = "baseline"
        /\ \A q \in Processes : q # p => SameProcess(q)
    BY <2>1, RunAssumption DEF RunInvariant, RunTypes, SameProcess, ProcessInv, BeginsEmpty
  <2>4. BeginsEmpty(p)' /\ FreshWasExecuted(p)' /\ EvidenceWasExecuted(p)' /\ NothingForgotten(p)'
    BY <1>1, <2>1, <2>3 DEF BeginsEmpty, FreshWasExecuted, EvidenceWasExecuted, NothingForgotten, Storing
  <2> QED
    BY <2>1, <2>2, <2>3, <2>4, QuietStepOfOne DEF ProcessInv
<1> QED
  BY <1>2, <1>3

LEMMA RunInitially == Init => RunInvariant
<1> SUFFICES ASSUME Init PROVE RunInvariant
  OBVIOUS
<1>1. /\ \A c \in Cases : NoAnswer[c] = None
      /\ NoAnswer \in [Cases -> MaybeObserved]
      /\ NoEvidence \in [Sides -> [Cases -> MaybeObserved]]
      /\ <<>> \in Seq(Cases)
  BY DEF NoAnswer, NoEvidence, MaybeObserved
<1>2. files \in [Keys -> {Absent, Damaged}] /\ executed = {}
  BY DEF Init, DiskInit
<1>3. RunTypes
  BY <1>1, <1>2 DEF RunTypes, Init, Labels, Sides
<1>4. ASSUME NEW p \in Processes PROVE ProcessInv(p)
  <2>1. \A s \in Sides, c \in Cases : NoEvidence[s][c] = None
    BY DEF NoEvidence, NoAnswer
  <2> QED
    BY <2>1, RunAssumption DEF Init, ProcessInv, BeginsEmpty, FreshWasExecuted, EvidenceWasExecuted,
                               NothingForgotten, Storing
<1> QED
  BY <1>2, <1>3, <1>4 DEF RunInvariant, EntriesWereExecuted

\* The invariant the theorems rest on: whatever is stored, about to be stored or
\* held as evidence was executed for its key, and no case of a suite is forgotten.
THEOREM RunInvariance == Spec => []RunInvariant
<1>1. RunInvariant /\ [Next]_vars => RunInvariant'
  <2> SUFFICES ASSUME RunInvariant, [Next]_vars PROVE RunInvariant'
    OBVIOUS
  <2>1. CASE UNCHANGED vars
    BY <2>1 DEF vars, disk, environment, memory, RunInvariant, RunTypes, EntriesWereExecuted, ProcessInv,
                BeginsEmpty, FreshWasExecuted, EvidenceWasExecuted, NothingForgotten, HasAll,
                WasExecuted, Secret, CacheKey, LocalSecret
  <2>2. ASSUME NEW p \in Processes, Step(p) PROVE RunInvariant'
    BY <2>2, MovingSteps, DescribeStep, LookUpStep, ExecuteStep, SideDoneStep, ReplaceStep DEF Step
  <2>3. ASSUME NEW p \in Processes, Crash(p) \/ Restart(p) PROVE RunInvariant'
    BY <2>3, CrashStep
  <2> QED
    BY <2>1, <2>2, <2>3 DEF Next
<1> QED
  BY <1>1, RunInitially, PTL DEF Spec

\* Whatever other processes do meanwhile, put accepts every observation of a batch
\* the runner validated (runner.py asks the backend, cache.py checks again).
THEOREM BatchesAreStorable == Spec => []ValidatedIsStorable
<1>1. RunInvariant => ValidatedIsStorable
  <2> SUFFICES ASSUME RunInvariant, NEW p \in Processes, pc[p] \in Storing,
                      NEW i \in 1 .. Len(todo[p])
               PROVE  Accepts(fresh[p][todo[p][i]], CacheKey(p, side[p], todo[p][i]))
    BY DEF ValidatedIsStorable, Storing
  <2>1. todo[p] \in Seq(Cases) /\ FreshWasExecuted(p)
    BY DEF RunInvariant, RunTypes, ProcessInv
  <2>2. todo[p][i] \in Cases /\ IsAmong(todo[p][i], todo[p])
    BY <2>1 DEF IsAmong
  <2>3. WasExecuted(p, side[p], todo[p][i], fresh[p][todo[p][i]])
    BY <2>1, <2>2 DEF FreshWasExecuted
  <2> QED
    BY <2>3, RunAssumption DEF WasExecuted, RunInvariant, FaithfulExecutions, Accepts
<1> QED
  BY <1>1, RunInvariance, PTL

\* An entry of the cache is only ever replaced by one that was executed for its
\* key: no crash and no concurrent writer damages or removes it.
THEOREM EntriesAreSafe == Spec => EntriesNeverDegrade
<1> DEFINE Replaced(key) ==
      /\ files'[key] \notin {Absent, Damaged}
      /\ [secret |-> files'[key].tag, what |-> key, observation |-> files'[key].observation] \in executed'
<1>1. RunInvariant /\ RunInvariant' /\ [Next]_vars =>
          [\A key \in Keys : files'[key] # files[key] => Replaced(key)]_vars
  <2> SUFFICES ASSUME RunInvariant, RunInvariant', Next, NEW key \in Keys, files'[key] # files[key]
               PROVE  Replaced(key)
    OBVIOUS
  <2>1. PICK p \in Processes : ReplaceEntry(p) /\ files' # files
    BY DEF Next, Step, ValidateRun, DescribeExecutor, LookUp, Execute, SideDone, PutBegins, MakeRoot,
           CheckShard, MakeShard, WriteEntry, MakeOrFail, MakeDirectory, WriteTemporary, Crash, Restart,
           disk
  <2>2. PICK k \in Keys : files' = [files EXCEPT ![k] = Envelope(k, fresh[p][Case(p)], Secret(p))]
                             /\ k = Key(p)
    <3>1. pc[p] = "replace"
      BY <2>1 DEF ReplaceEntry
    <3>2. todo[p] # <<>> /\ todo[p] \in Seq(Cases) /\ side[p] \in Sides
      BY <3>1 DEF RunInvariant, RunTypes, ProcessInv, NothingForgotten, Storing
    <3>3. Case(p) \in Cases
      BY <3>2, HeadAndTail DEF Case
    <3>4. Key(p) \in Keys
      BY <3>2, <3>3, RunAssumption DEF Key, CacheKey, Keys
    <3> QED
      BY <2>1, <3>4 DEF ReplaceEntry, Replace, Unlink
  <2>3. key = k /\ files'[key] = Envelope(k, fresh[p][Case(p)], Secret(p))
    BY <2>2 DEF RunInvariant, RunTypes
  <2>4. pc[p] = "replace" /\ todo[p] # <<>> /\ todo[p] \in Seq(Cases)
    BY <2>1 DEF ReplaceEntry, RunInvariant, RunTypes, ProcessInv, NothingForgotten, Storing
  <2>5. Case(p) \in Cases /\ IsAmong(Case(p), todo[p])
    BY <2>4, HeadAndTail DEF Case
  <2>6. WasExecuted(p, side[p], Case(p), fresh[p][Case(p)])
    BY <2>4, <2>5 DEF RunInvariant, ProcessInv, FreshWasExecuted, Storing
  <2>7. fresh[p][Case(p)] \in Observations /\ Secret(p) \in Secrets
    BY <2>6, SecretIsKnown DEF WasExecuted, RunInvariant, FaithfulExecutions
  <2>8. files'[key] \in Envelopes
    BY <2>2, <2>3, <2>7 DEF Envelope, Envelopes
  <2>9. executed' = executed
    BY <2>1 DEF ReplaceEntry
  <2> QED
    BY <2>2, <2>3, <2>6, <2>8, <2>9, FileAssumption DEF WasExecuted, Key, Envelope
<1>2. Spec => [][\A key \in Keys : files'[key] # files[key] => Replaced(key)]_vars
  BY <1>1, RunInvariance, PTL DEF Spec
<1> QED
  BY <1>2 DEF EntriesNeverDegrade

-----------------------------------------------------------------------------
(* The promise of PairedEvidence *)

\* A step of p, as the promise sees it.
Visible(p) ==
    /\ pc[p] \notin Ended
    /\ UNCHANGED configured
    /\ \A q \in Processes : q # p => pc'[q] = pc[q] /\ evidence'[q] = evidence[q]
    /\ pc'[p] \in {"contract_error", "put_error"} => executed' = executed
    /\ pc'[p] = "paired" => executed' = executed /\ restarts' = restarts
    /\ executed \subseteq executed'

LEMMA StepsAreVisible ==
    ASSUME RunInvariant, NEW p \in Processes, Step(p) \/ Crash(p) \/ Restart(p)
    PROVE  Visible(p)
<1>1. /\ UNCHANGED configured
      /\ \E label : pc' = [pc EXCEPT ![p] = label]
      /\ \E e : evidence' = [evidence EXCEPT ![p] = e]
  <2>2. evidence = [evidence EXCEPT ![p] = evidence[p]] /\ pc = [pc EXCEPT ![p] = pc[p]]
    BY DEF RunInvariant, RunTypes
  <2>3. CASE ValidateRun(p) \/ DescribeExecutor(p) \/ SideDone(p) \/ PutBegins(p) \/ CheckShard(p)
               \/ WriteEntry(p) \/ MakeRoot(p) \/ MakeShard(p) \/ Restart(p)
    BY <2>2, <2>3 DEF ValidateRun, DescribeExecutor, SideDone, PutBegins, CheckShard, WriteEntry, MakeRoot,
         MakeShard, MakeOrFail, Restart, Goto, environment, memory
  <2>4. CASE LookUp(p)
    BY <2>2, <2>4 DEF LookUp, environment
  <2>5. CASE Execute(p)
    BY <2>2, <2>5 DEF Execute, Goto, environment
  <2>6. CASE ReplaceEntry(p)
    BY <2>2, <2>6 DEF ReplaceEntry, Goto, environment
  <2>7. CASE Crash(p)
    BY <2>7 DEF Crash, Goto, environment
  <2> QED
    BY <2>3, <2>4, <2>5, <2>6, <2>7 DEF Step
<1>2. \A q \in Processes : q # p => pc'[q] = pc[q] /\ evidence'[q] = evidence[q]
  BY <1>1 DEF RunInvariant, RunTypes
<1>3. pc[p] \notin Ended
  BY DEF Step, ValidateRun, DescribeExecutor, LookUp, Execute, SideDone, PutBegins, MakeRoot,
         CheckShard, MakeShard, WriteEntry, ReplaceEntry, Crash, Restart, Ended
<1>4. /\ executed \subseteq executed'
      /\ pc'[p] \in {"contract_error", "put_error"} => executed' = executed
      /\ pc'[p] = "paired" => executed' = executed /\ restarts' = restarts
  <2>1. CASE Execute(p)
    <3>1. /\ executed \subseteq executed'
          /\ executed' = executed \/ pc' = [pc EXCEPT ![p] = "store"]
          /\ \/ pc' = [pc EXCEPT ![p] = "store"]
             \/ pc' = [pc EXCEPT ![p] = "contract_error"]
      BY <2>1 DEF Execute, Goto
    <3> QED
      BY <3>1 DEF RunInvariant, RunTypes
  <2>2. CASE LookUp(p)
    BY <2>2 DEF LookUp, environment
  <2>3. CASE ReplaceEntry(p)
    BY <2>3 DEF ReplaceEntry, Goto, RunInvariant, RunTypes
  <2>4. CASE Crash(p)
    BY <2>4 DEF Crash, Goto, RunInvariant, RunTypes
  <2>5. CASE ValidateRun(p) \/ DescribeExecutor(p) \/ SideDone(p) \/ PutBegins(p) \/ CheckShard(p)
               \/ WriteEntry(p) \/ MakeRoot(p) \/ MakeShard(p) \/ Restart(p)
    BY <2>5 DEF ValidateRun, DescribeExecutor, SideDone, PutBegins, CheckShard, WriteEntry, MakeRoot,
         MakeShard, Restart, environment, Goto, RunInvariant, RunTypes
  <2> QED
    BY <2>1, <2>2, <2>3, <2>4, <2>5 DEF Step
<1> QED
  BY <1>1, <1>2, <1>3, <1>4 DEF Visible

\* A run that has ended with evidence holds what the promise asks of it.
PairedHasAll ==
    \A p \in Processes : pc[p] = "paired" => \A slot \in Slots(p) :
        [secret |-> Secret(p), what |-> CacheKey(p, slot[1], slot[2]),
         observation |-> evidence[p][slot[1]][slot[2]]] \in executed

LEMMA PairedIsComplete == RunInvariant => PairedHasAll
<1> SUFFICES ASSUME RunInvariant, NEW p \in Processes, pc[p] = "paired", NEW slot \in Slots(p)
             PROVE  [secret |-> Secret(p), what |-> CacheKey(p, slot[1], slot[2]),
                     observation |-> evidence[p][slot[1]][slot[2]]] \in executed
  BY DEF PairedHasAll
<1>1. slot[1] \in {"baseline", "candidate"} /\ slot[2] \in Cases /\ IsAmong(slot[2], Suite[p])
  BY RunAssumption DEF Slots, Sides, IsAmong
<1>2. ProcessInv(p)
  BY DEF RunInvariant
<1>3. evidence[p][slot[1]][slot[2]] # None
  BY <1>1, <1>2 DEF ProcessInv, NothingForgotten, HasAll
<1> QED
  BY <1>1, <1>2, <1>3 DEF ProcessInv, EvidenceWasExecuted, WasExecuted, Sides

LEMMA PromiseInitially == Init => Promise!Init
<1> SUFFICES ASSUME Init PROVE Promise!Init
  OBVIOUS
<1>1. \A p \in Processes :
          (IF p \in configured THEN {<<"shared", 0>>} ELSE {LocalSecret(p, n) : n \in 0 .. MaxRestarts[p]})
              \subseteq Secrets
  <2> TAKE p \in Processes
  <2>1. \A n \in 0 .. MaxRestarts[p] : LocalSecret(p, n) \in Secrets
    BY RunAssumption DEF LocalSecret
  <2>2. <<"shared", 0>> \in Secrets
    BY RunAssumption
  <2> HIDE DEF LocalSecret
  <2> QED
    BY <2>1, <2>2
<1>2. \A p \in Processes : Outcome(p) = Promise!Running
  BY DEF Init, Outcome, Ended, Promise!Running
<1>3. executed = {}
  BY DEF Init
<1> QED
  BY <1>1, <1>2, <1>3 DEF Promise!Init

LEMMA PromiseStep ==
    ASSUME RunInvariant, RunInvariant', NEW p \in Processes, Visible(p)
    PROVE  [Promise!Next]_(Promise!vars)
<1> DEFINE Trust == [q \in Processes |->
               IF q \in configured THEN {<<"shared", 0>>} ELSE {LocalSecret(q, n) : n \in 0 .. MaxRestarts[q]}]
           Ends == [q \in Processes |-> Outcome(q)]
<1>1. Trust' = Trust
  BY DEF Visible, LocalSecret
<1>2. \A q \in Processes : q # p => Outcome(q)' = Outcome(q)
  BY DEF Visible, Outcome, Slots
<1>3. Outcome(p) = Promise!Running
  BY DEF Visible, Outcome, Ended, Promise!Running
<1>4. CASE pc'[p] \notin Ended
  <2>1. Outcome(p)' = Outcome(p)
    BY <1>3, <1>4 DEF Outcome, Ended, Promise!Running
  <2>2. Ends' = Ends
    BY <1>2, <2>1
  <2>3. executed \subseteq executed' /\ executed' \subseteq FaithfulExecutions
    BY DEF Visible, RunInvariant, FaithfulExecutions, ObservationMatchesKey, DigestHolds, ContentId
  <2> QED
    BY <1>1, <2>2, <2>3 DEF Promise!Next, Promise!Observe, FaithfulExecutions
<1>5. CASE pc'[p] \in {"contract_error", "put_error"}
  <2>1. Outcome(p)' = Promise!Failed
    BY <1>5 DEF Outcome, Ended, Promise!Failed
  <2>2. Ends' = [Ends EXCEPT ![p] = Promise!Failed] /\ Ends[p] = Promise!Running
    BY <1>2, <1>3, <2>1
  <2>3. executed' = executed
    BY <1>5 DEF Visible
  <2> QED
    BY <1>1, <2>2, <2>3 DEF Promise!Next, Promise!Fail
<1>6. CASE pc'[p] = "paired"
  <2>1. executed' = executed /\ Secret(p)' = Secret(p)
    BY <1>6 DEF Visible, Secret, LocalSecret
  <2>2. Secret(p) \in Trust[p]
    BY SecretIsKnown DEF Secret
  <2>3. \A slot \in Slots(p) :
            [secret |-> Secret(p), what |-> CacheKey(p, slot[1], slot[2]),
             observation |-> evidence'[p][slot[1]][slot[2]]] \in executed
    <3>1. PairedHasAll'
      BY PairedIsComplete, PTL
    <3> QED
      BY <1>6, <2>1, <3>1 DEF PairedHasAll, Slots, CacheKey
  <2>4. Ends'[p] = [state |-> "paired",
                    evidence |-> [slot \in Slots(p) |-> evidence'[p][slot[1]][slot[2]]]]
    BY <1>6 DEF Outcome, Slots
  <2>5. Ends' = [Ends EXCEPT ![p] = Ends'[p]] /\ Ends[p] = Promise!Running
    BY <1>2, <1>3
  <2> DEFINE Questions == [q \in Processes |-> [slot \in Slots(q) |-> CacheKey(q, slot[1], slot[2])]]
  <2>6. Ends'[p].state = "paired" /\ DOMAIN Ends'[p].evidence = DOMAIN Questions[p]
    BY <2>4
  <2>7. \A slot \in DOMAIN Questions[p] :
            [secret |-> Secret(p), what |-> Questions[p][slot],
             observation |-> Ends'[p].evidence[slot]] \in executed
    <3> TAKE slot \in DOMAIN Questions[p]
    <3>1. slot \in Slots(p) /\ Questions[p][slot] = CacheKey(p, slot[1], slot[2])
      OBVIOUS
    <3>2. Ends'[p].evidence[slot] = evidence'[p][slot[1]][slot[2]]
      BY <2>4, <3>1
    <3> QED
      BY <2>3, <3>1, <3>2
  <2> QED
    BY <1>1, <2>1, <2>2, <2>5, <2>6, <2>7 DEF Promise!Next, Promise!Pair
<1> QED
  BY <1>4, <1>5, <1>6 DEF Ended

\* Paired execution implements PairedEvidence for every number of processes,
\* suites, answers and restarts: a run ends with evidence only when each side and
\* case has an observation some execution really made of it under the run's key.
THEOREM EvidenceIsExecuted == Spec => KeepsPromise
<1>1. RunInvariant /\ RunInvariant' /\ [Next]_vars => [Promise!Next]_(Promise!vars)
  <2> SUFFICES ASSUME RunInvariant, RunInvariant', [Next]_vars
               PROVE  [Promise!Next]_(Promise!vars)
    OBVIOUS
  <2>1. CASE UNCHANGED vars
    BY <2>1 DEF vars, environment, memory, Outcome, Slots, LocalSecret, Promise!vars
  <2>2. CASE Next
    BY <2>2, StepsAreVisible, PromiseStep DEF Next
  <2> QED
    BY <2>1, <2>2
<1> QED
  BY <1>1, PromiseInitially, RunInvariance, PTL DEF Spec, KeepsPromise, Promise!Spec
==============================================================================
