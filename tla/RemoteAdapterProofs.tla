------------------------- MODULE RemoteAdapterProofs -------------------------
(***************************************************************************)
(* What RemoteAdapter promises of a run, proved for any number of cases,   *)
(* retries and units of time.  The inductive invariant says which requests *)
(* of every case were begun, and how those that were repeated had ended;   *)
(* a measure that every step lowers shows that no run goes on for ever.    *)
(***************************************************************************)
EXTENDS RemoteAdapter, FiniteSetTheorems, TLAPS

Attempts == 0..max_retries
Failures == {"transport", "retryable"}

\* A case is under way; its current attempt was begun.
Begun == pc \in {"waiting", "sleeping", "reading", "parse", "evidence"}
UnderWay == pc = "attempt" \/ Begun

\* Which requests were begun: those of the cases done, up to the recorded
\* attempt, and those of the current case.
SentInv ==
    \A c \in Cases, k \in Attempts :
        /\ c < case => (<<c, k>> \in sent <=> k <= observations[c].attempt)
        /\ (c = case /\ pc # "failed") =>
               (<<c, k>> \in sent <=> \/ UnderWay /\ k < attempt
                                      \/ Begun /\ k = attempt)
        /\ c > case => <<c, k>> \notin sent

\* How the attempts of the current case ended.
CurrentInv ==
    /\ UnderWay => case \in Cases
    /\ UnderWay => \A k \in Attempts : k < attempt => ended[<<case, k>>] \in Failures
    /\ pc \in {"reading", "parse", "evidence"} => Current \in performed
    /\ pc \in {"parse", "evidence"} => ended[Current] = "answered"
    /\ pc = "sleeping" => ended[Current] \in Failures /\ CanRetry

\* OnlyFailuresAreRepeated, attempt by attempt.
RepeatInv ==
    \A c \in Cases, k, j \in Attempts :
        (<<c, k>> \in sent /\ j < k) => ended[<<c, j>>] \in Failures

\* What is recorded of the cases done.
RecordInv ==
    \A i \in 1..Len(observations) :
        /\ observations[i].case_id = i
        /\ <<i, observations[i].attempt>> \in performed
        /\ ended[<<i, observations[i].attempt>>] = "answered"
        /\ observations[i].latency_ms < max_elapsed_s

IInv == TypeOK /\ SentInv /\ CurrentInv /\ RepeatInv /\ RecordInv /\ PausesLeaveTime

-----------------------------------------------------------------------------
(* Lemmas *)

\* A sequence and the sequence one longer, element by element.
LEMMA Elements ==
    ASSUME NEW S, NEW s \in Seq(S)
    PROVE  Len(s) \in Nat /\ \A i \in 1..Len(s) : s[i] \in S
OBVIOUS

LEMMA AppendElements ==
    ASSUME NEW S, NEW s \in Seq(S), NEW e \in S
    PROVE  /\ Append(s, e) \in Seq(S)
           /\ Len(Append(s, e)) = Len(s) + 1
           /\ \A i \in 1..Len(s) : Append(s, e)[i] = s[i]
           /\ Append(s, e)[Len(s) + 1] = e
OBVIOUS

Observed == [case_id : Cases, attempt : 0..max_retries, latency_ms : 0..max_elapsed_s]

\* The case under way follows the ones recorded.
LEMMA CaseType ==
    ASSUME TypeOK
    PROVE  /\ Len(observations) \in Nat
           /\ case = Len(observations) + 1 /\ case \in Nat /\ case >= 1
           /\ Current = <<case, attempt>>
           /\ attempt \in Attempts
           /\ max_retries \in Nat
           /\ \A i \in 1..Len(observations) : i \in Cases /\ i < case /\ observations[i].attempt \in Attempts
<1> USE AdapterAssumption DEF TypeOK
<1>1. Len(observations) \in Nat /\ max_retries \in Nat /\ NumCases \in Nat
  OBVIOUS
<1>2. \A i \in 1..Len(observations) : observations[i] \in Observed
  BY Elements DEF Observed
<1>3. \A i \in 1..Len(observations) : observations[i].attempt \in 0..max_retries
  BY <1>2 DEF Observed
<1> QED
  BY <1>1, <1>3 DEF case, Current, Attempts, Cases

\* Steps that record nothing leave the case as it is.
LEMMA SameCase ==
    ASSUME UNCHANGED observations
    PROVE  case' = case
BY DEF case

THEOREM InitInvariant == Init => IInv
<1> SUFFICES ASSUME Init PROVE IInv
  OBVIOUS
<1> USE AdapterAssumption DEF Init
<1>1. TypeOK
  BY DEF TypeOK, Requests
<1>2. SentInv /\ CurrentInv /\ RepeatInv /\ RecordInv /\ PausesLeaveTime
  BY DEF SentInv, CurrentInv, RepeatInv, RecordInv, PausesLeaveTime, UnderWay, Begun, case, Cases
<1> QED
  BY <1>1, <1>2 DEF IInv

-----------------------------------------------------------------------------
(* Time and the endpoint *)

LEMMA TickStep == IInv /\ Tick => IInv'
<1> SUFFICES ASSUME IInv, Tick PROVE IInv'
  OBVIOUS
<1> USE AdapterAssumption DEF IInv
<1>1. TypeOK'
  BY DEF TypeOK, Tick, network, Minimum
<1>2. PausesLeaveTime'
  BY DEF TypeOK, PausesLeaveTime, Tick, Minimum
<1>3. case' = case /\ Current' = Current
  BY DEF Tick, case, Current
<1>4. SentInv' /\ CurrentInv' /\ RepeatInv' /\ RecordInv'
  BY <1>3 DEF SentInv, CurrentInv, RepeatInv, RecordInv, UnderWay, Begun, Tick, network, CanRetry
<1> QED
  BY <1>1, <1>2, <1>4

LEMMA PerformStep == IInv /\ Perform => IInv'
<1> SUFFICES ASSUME IInv, Perform PROVE IInv'
  OBVIOUS
<1> USE AdapterAssumption DEF IInv
<1>1. TypeOK'
  BY DEF TypeOK, Perform
<1>2. PausesLeaveTime'
  BY DEF PausesLeaveTime, Perform
<1>3. case' = case /\ Current' = Current /\ performed \subseteq performed'
  BY DEF Perform, case, Current
<1>4. SentInv' /\ CurrentInv' /\ RepeatInv' /\ RecordInv'
  BY <1>3 DEF SentInv, CurrentInv, RepeatInv, RecordInv, UnderWay, Begun, Perform, CanRetry
<1> QED
  BY <1>1, <1>2, <1>4

-----------------------------------------------------------------------------
(* The steps of the client *)

\* A run that fails keeps what it recorded, and every attempt but the current one
\* ends as it did before.
LEMMA FailStep ==
    ASSUME IInv, UnderWay \/ pc = "next", Fail, UNCHANGED network,
           \/ UNCHANGED ended
           \/ /\ pc \in {"waiting", "reading"}
              /\ \E how \in {"transport", "answered"} \cup Statuses : Ends(how)
    PROVE  IInv'
<1> USE AdapterAssumption DEF IInv, Fail, network
<1>1. case' = case /\ Current' = Current
  BY DEF case, Current
<1>2. \A r \in Requests : ended'[r] = ended[r] \/ (Begun /\ r = Current)
  BY DEF TypeOK, Ends, Begun
<1>3. ended' \in [Requests -> {"open", "transport", "answered"} \cup Statuses]
  BY DEF TypeOK, Ends
<1>4. TypeOK'
  BY <1>3 DEF TypeOK
<1>5. PausesLeaveTime' /\ CurrentInv' /\ SentInv'
  BY <1>1 DEF PausesLeaveTime, CurrentInv, UnderWay, Begun, SentInv
<1>6. RepeatInv'
  <2> SUFFICES ASSUME NEW c \in Cases, NEW k \in Attempts, NEW j \in Attempts,
                      <<c, k>> \in sent, j < k
               PROVE  ended'[<<c, j>>] \in Failures
    BY DEF RepeatInv
  <2>1. ended[<<c, j>>] \in Failures
    BY DEF RepeatInv
  <2>2. CASE Begun /\ <<c, j>> = Current
    <3>1. c = case /\ j = attempt
      BY <2>2 DEF Current
    <3>2. k < attempt \/ k = attempt
      BY <2>2, <3>1 DEF SentInv, UnderWay, Begun
    <3> QED
      BY <3>1, <3>2, CaseType DEF Attempts
  <2>3. CASE ~(Begun /\ <<c, j>> = Current)
    BY <1>2, <2>1, <2>3 DEF Requests, Attempts
  <2> QED
    BY <2>2, <2>3
<1>7. RecordInv'
  <2> SUFFICES ASSUME NEW i \in 1..Len(observations)
               PROVE  ended'[<<i, observations[i].attempt>>] = "answered"
    BY DEF RecordInv
  <2>1. i \in Cases /\ i < case /\ observations[i].attempt \in Attempts /\ case \in Nat
    BY CaseType
  <2>2. <<i, observations[i].attempt>> # Current
    BY <2>1 DEF Current
  <2> QED
    BY <1>2, <2>1, <2>2 DEF RecordInv, Requests, Attempts
<1> QED
  BY <1>4, <1>5, <1>6, <1>7

\* A retry follows an attempt that failed, which it leaves behind.
LEMMA RetryStep ==
    ASSUME IInv, Begun, CanRetry, Retry, UNCHANGED network,
           \/ pc = "sleeping" /\ UNCHANGED ended
           \/ pc \in {"waiting", "reading"} /\ \E how \in Failures : Ends(how)
    PROVE  IInv'
<1> USE AdapterAssumption DEF IInv, Retry, network
<1>1. case' = case /\ case \in Cases /\ Current = <<case, attempt>> /\ Current \in Requests
  BY CaseType DEF case, CurrentInv, UnderWay, Requests, Attempts
<1>2. \A r \in Requests : ended'[r] = ended[r] \/ r = Current
  BY DEF TypeOK, Ends
<1>3. ended'[Current] \in Failures
  BY <1>1 DEF TypeOK, Ends, CurrentInv
<1>4. ended' \in [Requests -> {"open", "transport", "answered"} \cup Statuses]
  BY DEF TypeOK, Ends, Failures, Statuses
<1>5. attempt \in Nat /\ attempt' = attempt + 1 /\ attempt' \in Attempts
  BY DEF TypeOK, CanRetry, Attempts
<1>6. TypeOK'
  BY <1>4, <1>5 DEF TypeOK, Attempts
<1>7. PausesLeaveTime'
  BY DEF PausesLeaveTime
<1>8. CurrentInv'
  <2>1. \A k \in Attempts : k < attempt' => ended'[<<case, k>>] \in Failures
    <3> SUFFICES ASSUME NEW k \in Attempts, k < attempt' PROVE ended'[<<case, k>>] \in Failures
      OBVIOUS
    <3>1. k < attempt \/ k = attempt
      BY <1>5 DEF Attempts
    <3>2. CASE k = attempt
      BY <1>1, <1>3, <3>2
    <3>3. CASE k < attempt
      <4>1. <<case, k>> \in Requests /\ <<case, k>> # Current
        BY <1>1, <1>5, <3>3 DEF Requests, Attempts
      <4> QED
        BY <4>1, <1>2, <3>3 DEF CurrentInv, UnderWay
    <3> QED
      BY <3>1, <3>2, <3>3
  <2> QED
    BY <1>1, <2>1 DEF CurrentInv, UnderWay, Begun
<1>9. SentInv'
  <2> SUFFICES ASSUME NEW c \in Cases, NEW k \in Attempts
               PROVE  /\ c < case => (<<c, k>> \in sent <=> k <= observations[c].attempt)
                      /\ c = case => (<<c, k>> \in sent <=> k < attempt')
                      /\ c > case => <<c, k>> \notin sent
    BY <1>1 DEF SentInv, UnderWay, Begun
  <2>1. k < attempt' <=> (k < attempt \/ k = attempt)
    BY <1>5 DEF Attempts
  <2> QED
    BY <2>1 DEF SentInv, UnderWay, Begun
<1>10. RepeatInv'
  BY <1>2, <1>3 DEF RepeatInv, Requests, Attempts
<1>11. RecordInv'
  <2> SUFFICES ASSUME NEW i \in 1..Len(observations)
               PROVE  ended'[<<i, observations[i].attempt>>] = "answered"
    BY DEF RecordInv
  <2>1. i \in Cases /\ i < case /\ observations[i].attempt \in Attempts /\ case \in Nat
    BY CaseType
  <2>2. <<i, observations[i].attempt>> # Current
    BY <1>1, <2>1
  <2> QED
    BY <1>2, <2>1, <2>2 DEF RecordInv, Requests, Attempts
<1> QED
  BY <1>6, <1>7, <1>8, <1>9, <1>10, <1>11

\* An attempt under way goes on: nothing is sent, nothing ends, nothing is recorded.
LEMMA QuietStep ==
    ASSUME IInv, TypeOK', Begun, UNCHANGED <<observations, attempt, network, ended>>,
           \/ pc = "waiting" /\ pc' = "waiting"
           \/ pc \in {"waiting", "reading"} /\ pc' = "reading" /\ Current \in performed
           \/ pc = "parse" /\ pc' = "evidence"
    PROVE  IInv'
<1> USE DEF IInv, network
<1>1. case' = case /\ Current' = Current
  BY DEF case, Current
<1>2. PausesLeaveTime' /\ RepeatInv' /\ RecordInv'
  BY DEF PausesLeaveTime, RepeatInv, RecordInv
<1>3. SentInv' /\ CurrentInv'
  BY <1>1 DEF SentInv, CurrentInv, UnderWay, Begun
<1> QED
  BY <1>2, <1>3

LEMMA BeginCaseStep == IInv /\ BeginCase => IInv'
<1> SUFFICES ASSUME IInv, BeginCase PROVE IInv'
  OBVIOUS
<1>1. CASE Fail
  BY <1>1, FailStep DEF BeginCase
<1>2. CASE ~Fail
  <2> USE <1>2, AdapterAssumption DEF IInv, BeginCase, network
  <2>1. case' = case /\ case \in Cases /\ Current' = <<case, 0>>
    BY DEF case, Current
  <2>2. TypeOK' /\ PausesLeaveTime' /\ RepeatInv' /\ RecordInv'
    BY DEF TypeOK, PausesLeaveTime, RepeatInv, RecordInv
  <2>3. SentInv' /\ CurrentInv'
    BY <2>1 DEF SentInv, CurrentInv, UnderWay, Begun, Attempts
  <2> QED
    BY <2>2, <2>3
<1> QED
  BY <1>1, <1>2

LEMMA ReturnStep == IInv /\ Return => IInv'
<1> SUFFICES ASSUME IInv, Return PROVE IInv'
  OBVIOUS
<1> USE DEF IInv, Return, network
<1>1. case' = case /\ Current' = Current
  BY DEF case, Current
<1>2. TypeOK' /\ PausesLeaveTime' /\ RepeatInv' /\ RecordInv'
  BY DEF TypeOK, PausesLeaveTime, RepeatInv, RecordInv
<1>3. SentInv' /\ CurrentInv'
  BY <1>1 DEF SentInv, CurrentInv, UnderWay, Begun
<1> QED
  BY <1>2, <1>3

LEMMA StartAttemptStep == IInv /\ StartAttempt => IInv'
<1> SUFFICES ASSUME IInv, StartAttempt PROVE IInv'
  OBVIOUS
<1>1. CASE Late
  BY <1>1, FailStep DEF StartAttempt, UnderWay, network
<1>2. CASE ~Late
  <2> USE <1>2, AdapterAssumption DEF IInv, StartAttempt
  <2>1. case' = case /\ Current' = Current /\ case \in Cases /\ Current = <<case, attempt>>
        /\ attempt \in Attempts /\ case \in Nat
    BY CaseType DEF case, Current, CurrentInv, UnderWay
  <2>2. limit' \in 1..timeout_s
    BY DEF Late, Remaining, Minimum, TypeOK
  <2>3. TypeOK'
    BY <2>1, <2>2 DEF TypeOK, Requests, Attempts
  <2>4. PausesLeaveTime' /\ CurrentInv'
    BY <2>1 DEF PausesLeaveTime, CurrentInv, UnderWay, Begun
  <2>5. SentInv'
    <3> SUFFICES ASSUME NEW c \in Cases, NEW k \in Attempts
                 PROVE  /\ c < case => (<<c, k>> \in sent' <=> k <= observations[c].attempt)
                        /\ c = case => (<<c, k>> \in sent' <=> k < attempt \/ k = attempt)
                        /\ c > case => <<c, k>> \notin sent'
      BY <2>1 DEF SentInv, UnderWay, Begun
    <3>1. <<c, k>> \in sent' <=> <<c, k>> \in sent \/ (c = case /\ k = attempt)
      BY <2>1
    <3>2. c \in Nat /\ k \in Nat
      BY DEF Cases, Attempts
    <3> QED
      BY <2>1, <3>1, <3>2 DEF SentInv, UnderWay, Begun
  <2>6. RepeatInv'
    BY <2>1 DEF RepeatInv, CurrentInv, UnderWay
  <2>7. RecordInv'
    BY DEF RecordInv
  <2> QED
    BY <2>3, <2>4, <2>5, <2>6, <2>7
<1> QED
  BY <1>1, <1>2

LEMMA ProgressStep == IInv /\ Progress => IInv'
<1> SUFFICES ASSUME IInv, Progress PROVE IInv'
  OBVIOUS
<1>1. TypeOK'
  BY AdapterAssumption DEF IInv, TypeOK, Progress, network
<1> QED
  BY <1>1, QuietStep DEF Progress, Begun, network

LEMMA ReceiveChunkStep == IInv /\ ReceiveChunk => IInv'
<1> SUFFICES ASSUME IInv, ReceiveChunk PROVE IInv'
  OBVIOUS
<1>1. PICK size \in 1..(max_response_bytes + 1) :
          IF Late \/ received + size > max_response_bytes
            THEN Fail
            ELSE /\ received' = received + size /\ timer' = limit
                 /\ UNCHANGED <<pc, observations, attempt, elapsed, limit, steps>>
  BY DEF ReceiveChunk
<1>2. CASE Late \/ received + size > max_response_bytes
  BY <1>1, <1>2, FailStep DEF ReceiveChunk, UnderWay, Begun, network
<1>3. CASE ~(Late \/ received + size > max_response_bytes)
  <2>1. TypeOK'
    BY <1>1, <1>3, AdapterAssumption DEF IInv, TypeOK, ReceiveChunk, network
  <2>2. Current \in performed
    BY DEF IInv, CurrentInv, ReceiveChunk
  <2> QED
    BY <1>1, <1>3, <2>1, <2>2, QuietStep DEF ReceiveChunk, Begun, network
<1> QED
  BY <1>2, <1>3

LEMMA TransportErrorStep == IInv /\ TransportError => IInv'
<1> SUFFICES ASSUME IInv, TransportError PROVE IInv'
  OBVIOUS
<1>1. CASE Late \/ ~CanRetry
  BY <1>1, FailStep DEF TransportError, UnderWay, Begun, Statuses
<1>2. CASE ~(Late \/ ~CanRetry)
  BY <1>2, RetryStep DEF TransportError, Begun, Failures
<1> QED
  BY <1>1, <1>2

LEMMA WakeStep == IInv /\ Wake => IInv'
<1> SUFFICES ASSUME IInv, Wake PROVE IInv'
  OBVIOUS
<1>1. CanRetry
  BY DEF IInv, CurrentInv, Wake
<1> QED
  BY <1>1, RetryStep DEF Wake, Begun, network

LEMMA ParseStep == IInv /\ Parse => IInv'
<1> SUFFICES ASSUME IInv, Parse PROVE IInv'
  OBVIOUS
<1>1. CASE Fail
  BY <1>1, FailStep DEF Parse, UnderWay, Begun
<1>2. CASE ~Fail
  <2>1. TypeOK'
    BY <1>2 DEF IInv, TypeOK, Parse, network
  <2> QED
    BY <1>2, <2>1, QuietStep DEF Parse, Begun
<1> QED
  BY <1>1, <1>2

\* The head of a success starts the reading; that of a failure ends the attempt,
\* after which there is a pause, a retry at once or the end of the run.
LEMMA ReceiveHeadStep == IInv /\ ReceiveHead => IInv'
<1> SUFFICES ASSUME IInv, ReceiveHead PROVE IInv'
  OBVIOUS
<1>1. PICK status \in Statuses :
          /\ status = "ok" => Current \in performed
          /\ IF status = "ok"
               THEN /\ UNCHANGED ended
                    /\ \/ Fail
                       \/ /\ ~Late
                          /\ pc' = "reading" /\ received' = 0 /\ timer' = limit
                          /\ UNCHANGED <<observations, attempt, elapsed, limit, steps>>
               ELSE /\ Ends(status)
                    /\ IF ShouldRetry(status) /\ CanRetry
                         THEN \E seconds \in RetryAfters : WaitBeforeRetry(seconds)
                         ELSE Fail
  BY DEF ReceiveHead
<1>2. pc = "waiting" /\ UnderWay /\ Begun /\ UNCHANGED network
  BY DEF ReceiveHead, UnderWay, Begun
<1>3. CASE Fail
  BY <1>1, <1>2, <1>3, FailStep
<1>4. CASE status = "ok" /\ ~Fail
  <2>1. TypeOK'
    BY <1>1, <1>2, <1>4, AdapterAssumption DEF IInv, TypeOK, network
  <2> QED
    BY <1>1, <1>2, <1>4, <2>1, QuietStep
<1>5. CASE status # "ok" /\ ~Fail
  <2>1. status = "retryable" /\ status \in Failures /\ CanRetry /\ Ends(status)
    BY <1>1, <1>5 DEF ShouldRetry, Failures
  <2>2. PICK seconds \in RetryAfters : WaitBeforeRetry(seconds)
    BY <1>1, <1>5
  <2>3. CASE Retry
    BY <1>2, <2>1, <2>3, RetryStep
  <2>4. CASE ~Retry
    <3> DEFINE delay == Minimum(seconds, retry_after_cap_s)
    <3>1. delay # 0 /\ ~Late /\ ~PauseIsTooLong(delay)
      BY <1>5, <2>2, <2>4 DEF WaitBeforeRetry
    <3>2. pc' = "sleeping" /\ timer' = delay
          /\ UNCHANGED <<observations, attempt, elapsed, limit, steps, received>>
      BY <3>1, <2>2, <1>5, <2>4 DEF WaitBeforeRetry
    <3>3. delay \in Nat
      BY AdapterAssumption DEF Minimum
    <3>4. case' = case /\ case \in Cases /\ Current' = Current /\ Current = <<case, attempt>>
          /\ Current \in Requests /\ attempt \in Attempts
      BY <1>2, <3>2, CaseType DEF IInv, case, Current, CurrentInv, Requests, Attempts
    <3>5. \A r \in Requests : ended'[r] = IF r = Current THEN "retryable" ELSE ended[r]
      BY <2>1 DEF IInv, TypeOK, Ends
    <3>6. ended' \in [Requests -> {"open", "transport", "answered"} \cup Statuses]
      BY <2>1 DEF IInv, TypeOK, Ends
    <3>7. TypeOK'
      BY <1>2, <3>2, <3>3, <3>6 DEF IInv, TypeOK, network
    <3>8. PausesLeaveTime'
      <4>1. elapsed \in Nat /\ max_elapsed_s \in Nat
        BY AdapterAssumption DEF IInv, TypeOK
      <4>2. delay < max_elapsed_s - elapsed
        BY <3>1, <3>3, <4>1 DEF PauseIsTooLong, Remaining
      <4> HIDE DEF delay
      <4> QED
        BY <3>2, <3>3, <4>1, <4>2 DEF PausesLeaveTime
    <3>9. SentInv'
      BY <1>2, <3>2, <3>4 DEF IInv, SentInv, UnderWay, Begun, network
    <3>10. CurrentInv'
      <4>1. ended'[Current] \in Failures
        BY <3>4, <3>5 DEF Failures
      <4>2. \A k \in Attempts : k < attempt => ended'[<<case, k>>] \in Failures
        BY <1>2, <3>4, <3>5, <4>1 DEF IInv, CurrentInv, Requests, Attempts
      <4> QED
        BY <2>1, <3>2, <3>4, <4>1, <4>2 DEF CurrentInv, UnderWay, Begun, CanRetry
    <3>11. RepeatInv'
      BY <1>2, <3>5 DEF IInv, RepeatInv, Requests, Attempts, Failures, network
    <3>12. RecordInv'
      <4> SUFFICES ASSUME NEW i \in 1..Len(observations)
                   PROVE  ended'[<<i, observations[i].attempt>>] = "answered"
        BY <1>2, <3>2 DEF IInv, RecordInv, network
      <4>1. i \in Cases /\ i < case /\ observations[i].attempt \in Attempts /\ case \in Nat
        BY CaseType DEF IInv
      <4>2. <<i, observations[i].attempt>> # Current
        BY <3>4, <4>1
      <4> QED
        BY <3>5, <4>1, <4>2 DEF IInv, RecordInv, Requests, Attempts
    <3> QED
      BY <3>7, <3>8, <3>9, <3>10, <3>11, <3>12 DEF IInv
  <2> QED
    BY <2>3, <2>4
<1> QED
  BY <1>3, <1>4, <1>5

LEMMA EndOfBodyStep == IInv /\ EndOfBody => IInv'
<1> SUFFICES ASSUME IInv, EndOfBody PROVE IInv'
  OBVIOUS
<1>1. CASE Late
  BY <1>1, FailStep DEF EndOfBody, UnderWay, Begun
<1>2. CASE ~Late
  <2> USE <1>2, AdapterAssumption DEF EndOfBody, network
  <2>1. case' = case /\ case \in Cases /\ Current' = Current /\ Current = <<case, attempt>>
        /\ Current \in Requests /\ attempt \in Attempts
    BY CaseType DEF IInv, case, Current, CurrentInv, Requests, Attempts, UnderWay, Begun
  <2>2. \A r \in Requests : ended'[r] = IF r = Current THEN "answered" ELSE ended[r]
    BY DEF IInv, TypeOK, Ends
  <2>3. ended' \in [Requests -> {"open", "transport", "answered"} \cup Statuses]
    BY DEF IInv, TypeOK, Ends
  <2>4. TypeOK' /\ PausesLeaveTime'
    BY <2>3 DEF IInv, TypeOK, PausesLeaveTime
  <2>5. SentInv'
    BY <2>1 DEF IInv, SentInv, UnderWay, Begun
  <2>6. CurrentInv'
    <3>1. \A k \in Attempts : k < attempt => ended'[<<case, k>>] \in Failures
      <4> SUFFICES ASSUME NEW k \in Attempts, k < attempt PROVE ended'[<<case, k>>] \in Failures
        OBVIOUS
      <4>1. <<case, k>> \in Requests /\ <<case, k>> # Current
        BY <2>1 DEF Requests, Attempts
      <4> QED
        BY <2>2, <4>1 DEF IInv, CurrentInv, UnderWay, Begun
    <3> QED
      BY <2>1, <2>2, <3>1 DEF IInv, CurrentInv, UnderWay, Begun
  <2>7. RepeatInv'
    <3> SUFFICES ASSUME NEW c \in Cases, NEW k \in Attempts, NEW j \in Attempts,
                        <<c, k>> \in sent, j < k
                 PROVE  ended'[<<c, j>>] \in Failures
      BY DEF RepeatInv
    <3>1. ended[<<c, j>>] \in Failures
      BY DEF IInv, RepeatInv
    <3>2. <<c, j>> # Current
      <4> SUFFICES ASSUME c = case, j = attempt PROVE FALSE
        BY <2>1
      <4>1. k < attempt \/ k = attempt
        BY DEF IInv, SentInv, UnderWay, Begun
      <4> QED
        BY <2>1, <4>1 DEF Attempts
    <3> QED
      BY <2>2, <3>1, <3>2 DEF Requests, Attempts
  <2>8. RecordInv'
    <3> SUFFICES ASSUME NEW i \in 1..Len(observations)
                 PROVE  ended'[<<i, observations[i].attempt>>] = "answered"
      BY DEF IInv, RecordInv
    <3>1. i \in Cases /\ i < case /\ observations[i].attempt \in Attempts /\ case \in Nat
      BY CaseType DEF IInv
    <3>2. <<i, observations[i].attempt>> # Current
      BY <2>1, <3>1
    <3> QED
      BY <2>2, <3>1, <3>2 DEF IInv, RecordInv, Requests, Attempts
  <2> QED
    BY <2>4, <2>5, <2>6, <2>7, <2>8 DEF IInv
<1> QED
  BY <1>1, <1>2

\* Recording a case turns what is known of the current one into what is known of
\* one that is done.
LEMMA RecordStep == IInv /\ Record => IInv'
<1> SUFFICES ASSUME IInv, Record PROVE IInv'
  OBVIOUS
<1>1. CASE Fail
  BY <1>1, FailStep DEF Record, UnderWay, Begun
<1>2. CASE ~Fail
  <2> DEFINE o == [case_id |-> case, attempt |-> attempt, latency_ms |-> elapsed]
  <2>1. /\ pc = "evidence" /\ ~Late /\ pc' = "next"
        /\ observations' = Append(observations, o)
        /\ UNCHANGED <<attempt, elapsed, limit, timer, steps, received, network, ended>>
    BY <1>2 DEF Record
  <2>2. case \in Cases /\ attempt \in Attempts /\ case = Len(observations) + 1
        /\ Len(observations) \in Nat /\ Current = <<case, attempt>> /\ case \in Nat
    BY <2>1, CaseType DEF IInv, CurrentInv, UnderWay, Begun
  <2>3. o \in Observed
    BY <2>2 DEF Observed, IInv, TypeOK, Attempts
  <2>4. observations \in Seq(Observed)
    BY DEF IInv, TypeOK, Observed
  <2>5. /\ observations' \in Seq(Observed)
        /\ Len(observations') = case
        /\ \A i \in 1..Len(observations) : observations'[i] = observations[i]
        /\ observations'[case] = o
    BY <2>1, <2>2, <2>3, <2>4, AppendElements
  <2>6. case' = case + 1
    BY <2>5 DEF case
  <2>7. TypeOK'
    BY <2>1, <2>2, <2>5, AdapterAssumption DEF IInv, TypeOK, Observed, Cases, network
  <2>8. PausesLeaveTime' /\ CurrentInv'
    BY <2>1 DEF PausesLeaveTime, CurrentInv, UnderWay, Begun
  <2>9. RepeatInv'
    BY <2>1 DEF IInv, RepeatInv, network
  <2>10. SentInv'
    <3> SUFFICES ASSUME NEW c \in Cases, NEW k \in Attempts
                 PROVE  /\ c < case + 1 => (<<c, k>> \in sent <=> k <= observations'[c].attempt)
                        /\ c >= case + 1 => <<c, k>> \notin sent
      <4>1. ~UnderWay' /\ ~Begun' /\ sent' = sent
        BY <2>1 DEF UnderWay, Begun, network
      <4>2. \A c \in Cases : (c = case' \/ c > case') <=> c >= case + 1
        BY <2>2, <2>6 DEF Cases
      <4> HIDE DEF o
      <4> QED
        BY <2>6, <4>1, <4>2 DEF SentInv
    <3>1. c \in Nat /\ k \in Nat /\ attempt \in Nat /\ c >= 1
      BY <2>2 DEF Cases, Attempts
    <3>2. CASE c < case
      <4>1. observations'[c] = observations[c]
        BY <2>2, <2>5, <3>1, <3>2
      <4> QED
        BY <2>2, <3>1, <3>2, <4>1 DEF IInv, SentInv
    <3>3. CASE c = case
      <4>1. <<c, k>> \in sent <=> k < attempt \/ k = attempt
        BY <2>1, <3>3 DEF IInv, SentInv, UnderWay, Begun
      <4>2. observations'[c].attempt = attempt
        BY <2>5, <3>3
      <4> QED
        BY <2>2, <3>1, <3>3, <4>1, <4>2
    <3>4. CASE c > case
      BY <2>2, <3>1, <3>4 DEF IInv, SentInv
    <3> QED
      BY <2>2, <3>1, <3>2, <3>3, <3>4
  <2>11. RecordInv'
    <3> SUFFICES ASSUME NEW i \in 1..case
                 PROVE  /\ observations'[i].case_id = i
                        /\ <<i, observations'[i].attempt>> \in performed
                        /\ ended[<<i, observations'[i].attempt>>] = "answered"
                        /\ observations'[i].latency_ms < max_elapsed_s
      BY <2>1, <2>5 DEF RecordInv, network
    <3>1. CASE i = case
      <4>1. elapsed < max_elapsed_s
        BY <2>1, AdapterAssumption DEF IInv, TypeOK, Late, Remaining
      <4>2. Current \in performed /\ ended[Current] = "answered"
        BY <2>1 DEF IInv, CurrentInv
      <4> QED
        BY <2>2, <2>5, <3>1, <4>1, <4>2
    <3>2. CASE i # case
      <4>1. i \in 1..Len(observations)
        BY <2>2, <3>2
      <4> QED
        BY <2>5, <4>1 DEF IInv, RecordInv
    <3> QED
      BY <3>1, <3>2
  <2> QED
    BY <2>7, <2>8, <2>9, <2>10, <2>11 DEF IInv
<1> QED
  BY <1>1, <1>2

-----------------------------------------------------------------------------
(* Theorems *)

LEMMA StepInvariant == IInv /\ [Next]_vars => IInv'
<1> SUFFICES ASSUME IInv, [Next]_vars PROVE IInv'
  OBVIOUS
<1>1. CASE Tick
  BY <1>1, TickStep
<1>2. CASE Perform
  BY <1>2, PerformStep
<1>3. CASE Client
  <2>1. CASE BeginCase
    BY <2>1, BeginCaseStep
  <2>2. CASE Return
    BY <2>2, ReturnStep
  <2>3. CASE StartAttempt
    BY <2>3, StartAttemptStep
  <2>4. CASE TimeOut
    BY <2>4, TransportErrorStep DEF TimeOut
  <2>5. CASE Wake
    BY <2>5, WakeStep
  <2>6. CASE Parse
    BY <2>6, ParseStep
  <2>7. CASE Record
    BY <2>7, RecordStep
  <2> QED
    BY <1>3, <2>1, <2>2, <2>3, <2>4, <2>5, <2>6, <2>7 DEF Client
<1>4. CASE Receive
  <2>1. CASE Progress
    BY <2>1, ProgressStep
  <2>2. CASE ReceiveHead
    BY <2>2, ReceiveHeadStep
  <2>3. CASE ReceiveChunk
    BY <2>3, ReceiveChunkStep
  <2>4. CASE EndOfBody
    BY <2>4, EndOfBodyStep
  <2>5. CASE TransportError
    BY <2>5, TransportErrorStep
  <2> QED
    BY <1>4, <2>1, <2>2, <2>3, <2>4, <2>5 DEF Receive
<1>5. CASE UNCHANGED vars
  <2>1. case' = case /\ Current' = Current
    BY <1>5 DEF vars, case, Current
  <2> QED
    BY <1>5, <2>1 DEF vars, network, IInv, TypeOK, SentInv, CurrentInv, RepeatInv, RecordInv,
                      PausesLeaveTime, UnderWay, Begun, CanRetry
<1> QED
  BY <1>1, <1>2, <1>3, <1>4, <1>5 DEF Next

\* The inductive invariant holds throughout every run.
THEOREM Invariance == Spec => []IInv
BY InitInvariant, StepInvariant, PTL DEF Spec

\* Every reachable state of a run is well typed; in particular there is no attempt
\* beyond max_retries and no observation beyond the cases.
THEOREM TypeCorrect == Spec => []TypeOK
<1>1. IInv => TypeOK
  BY DEF IInv
<1> QED
  BY <1>1, Invariance, PTL

\* A pause before a retry ends before the deadline of its case.
THEOREM PausesFit == Spec => []PausesLeaveTime
<1>1. IInv => PausesLeaveTime
  BY DEF IInv
<1> QED
  BY <1>1, Invariance, PTL

\* Only a request that failed, or that the endpoint asked to repeat, is repeated.
THEOREM OnlyFailures == Spec => []OnlyFailuresAreRepeated
<1>1. IInv => OnlyFailuresAreRepeated
  <2> SUFFICES ASSUME IInv, NEW r \in sent, NEW k \in 0..(r[2] - 1)
               PROVE  ended[<<r[1], k>>] \in Failures
    BY DEF OnlyFailuresAreRepeated, Failures
  <2>1. r[1] \in Cases /\ r[2] \in Attempts /\ r = <<r[1], r[2]>>
    BY DEF IInv, TypeOK, Requests, Attempts
  <2>2. k \in Attempts /\ k < r[2]
    BY <2>1, AdapterAssumption DEF Attempts
  <2> QED
    BY <2>1, <2>2 DEF IInv, RepeatInv
<1> QED
  BY <1>1, Invariance, PTL

\* What is recorded of a case is the timely answer to its own last request.
THEOREM Justified == Spec => []ObservationIsJustified
<1>1. IInv => ObservationIsJustified
  <2> SUFFICES ASSUME IInv, NEW i \in DOMAIN observations
               PROVE  /\ observations[i].case_id = i
                      /\ {r \in sent : r[1] = i} = {i} \X (0..observations[i].attempt)
                      /\ <<i, observations[i].attempt>> \in performed
                      /\ ended[<<i, observations[i].attempt>>] = "answered"
                      /\ observations[i].latency_ms < max_elapsed_s
    BY DEF ObservationIsJustified
  <2>1. i \in 1..Len(observations)
    BY DEF IInv, TypeOK
  <2>2. i \in Cases /\ i < case /\ observations[i].attempt \in Attempts
    BY <2>1, CaseType DEF IInv
  <2>3. \A k \in Attempts : <<i, k>> \in sent <=> k <= observations[i].attempt
    BY <2>2 DEF IInv, SentInv
  <2>4. \A k : k \in 0..observations[i].attempt <=> (k \in Attempts /\ k <= observations[i].attempt)
    BY <2>2, AdapterAssumption DEF Attempts
  <2>5. \A r \in sent : r = <<r[1], r[2]>> /\ r[2] \in Attempts
    BY DEF IInv, TypeOK, Requests, Attempts
  <2>6. {r \in sent : r[1] = i} = {i} \X (0..observations[i].attempt)
    <3>1. ASSUME NEW r \in sent, r[1] = i PROVE r \in {i} \X (0..observations[i].attempt)
      BY <2>3, <2>4, <2>5, <3>1
    <3>2. ASSUME NEW r \in {i} \X (0..observations[i].attempt) PROVE r \in sent /\ r[1] = i
      BY <2>3, <2>4
    <3> QED
      BY <3>1, <3>2
  <2> QED
    BY <2>1, <2>6 DEF IInv, RecordInv
<1> QED
  BY <1>1, Invariance, PTL

-----------------------------------------------------------------------------
(* Every step brings the run nearer to its end *)

Ended == pc \in {"returned", "failed"}

\* No operation and no pause lasts longer.
TimerInv == timer <= timeout_s + retry_after_cap_s

\* The turns that an attempt, and a case, can take at most.
TurnsOfAttempt == NetworkSteps + max_response_bytes + 6
TurnsOfCase == (max_retries + 1) * TurnsOfAttempt

\* The turns that are left in the current attempt: the operations before an
\* answer, then the bytes that the body may still have.
Stage ==
    CASE pc \in {"returned", "failed"}    -> 0
      [] pc = "next"                      -> 1
      [] pc = "attempt"                   -> TurnsOfAttempt
      [] pc = "waiting"                   -> steps + max_response_bytes + 5
      [] pc = "reading"                   -> (max_response_bytes - received) + 4
      [] pc = "parse"                     -> 3
      [] pc \in {"evidence", "sleeping"}  -> 2

CasesLeft == IF Ended THEN 0 ELSE IF UnderWay THEN NumCases - case ELSE NumCases - Len(observations)
AttemptsLeft == IF UnderWay THEN max_retries - attempt ELSE 0

\* What the adapter and the network may still do in turn; what time may do until
\* the next turn; and what the endpoint may still carry out.
TurnsLeft == CasesLeft * TurnsOfCase + AttemptsLeft * TurnsOfAttempt + Stage
TimeLeft == (max_elapsed_s - elapsed) + timer
RequestsLeft == Cardinality(Requests \ performed)

LongestTurn == max_elapsed_s + timeout_s + retry_after_cap_s

StepsLeft == TurnsLeft * (LongestTurn + 1) + TimeLeft + RequestsLeft

LEMMA Products ==
    /\ \A a, b \in Nat : a * b \in Nat
    /\ \A a, b, c \in Nat : a <= b => a * c <= b * c
    /\ \A a, c \in Nat : (a + 1) * c = a * c + c
OBVIOUS

LEMMA TurnTypes ==
    ASSUME IInv
    PROVE  /\ TurnsOfAttempt \in Nat /\ TurnsOfAttempt >= 7 /\ TurnsOfCase \in Nat
           /\ CasesLeft \in Nat /\ AttemptsLeft \in Nat
           /\ Stage \in 0..TurnsOfAttempt /\ (~Ended => Stage >= 1)
           /\ CasesLeft * TurnsOfCase \in Nat /\ AttemptsLeft * TurnsOfAttempt \in Nat
           /\ TurnsLeft \in Nat
<1>1. TurnsOfAttempt \in Nat /\ TurnsOfAttempt >= 7 /\ max_retries \in Nat /\ NumCases \in Nat
  BY AdapterAssumption DEF TurnsOfAttempt
<1>2. TurnsOfCase \in Nat
  <2> HIDE DEF TurnsOfAttempt
  <2> QED
    BY <1>1, Products DEF TurnsOfCase
<1>3. /\ Len(observations) \in Nat /\ Len(observations) <= NumCases
      /\ case = Len(observations) + 1 /\ attempt \in 0..max_retries
      /\ UnderWay => case \in 1..NumCases
  BY CaseType DEF IInv, TypeOK, CurrentInv, Attempts, Cases
<1>4. CasesLeft \in Nat /\ AttemptsLeft \in Nat
  BY <1>1, <1>3 DEF CasesLeft, AttemptsLeft
<1>5. Stage \in 0..TurnsOfAttempt /\ (~Ended => Stage >= 1)
  <2>1. /\ NetworkSteps \in Nat /\ max_response_bytes \in Nat \ {0}
        /\ steps \in 0..NetworkSteps /\ received \in 0..max_response_bytes
        /\ pc \in {"next", "attempt", "waiting", "reading", "sleeping", "parse", "evidence",
                   "returned", "failed"}
    BY AdapterAssumption DEF IInv, TypeOK
  <2>2. CASE pc \in {"returned", "failed", "next", "attempt"}
    BY <1>1, <2>2 DEF Stage, Ended
  <2>3. CASE pc \in {"waiting", "reading"}
    BY <2>1, <2>3 DEF Stage, TurnsOfAttempt
  <2>4. CASE pc \in {"parse", "evidence", "sleeping"}
    BY <1>1, <2>4 DEF Stage
  <2> QED
    BY <2>1, <2>2, <2>3, <2>4
<1>6. CasesLeft * TurnsOfCase \in Nat /\ AttemptsLeft * TurnsOfAttempt \in Nat
  BY <1>1, <1>2, <1>4, Products
<1>7. TurnsLeft \in Nat
  BY <1>5, <1>6 DEF TurnsLeft
<1> QED
  BY <1>1, <1>2, <1>4, <1>5, <1>6, <1>7

\* The three ways in which a turn takes the run further: it ends, ...
LEMMA EndingTurn ==
    ASSUME IInv, ~Ended, Ended'
    PROVE  TurnsLeft' \in Nat /\ TurnsLeft' < TurnsLeft
<1>1. CasesLeft' = 0 /\ AttemptsLeft' = 0 /\ Stage' = 0
  BY DEF Ended, CasesLeft, AttemptsLeft, Stage, UnderWay, Begun
<1>2. TurnsLeft' = 0
  <2>1. TurnsOfCase \in Nat /\ TurnsOfAttempt \in Nat
    BY TurnTypes
  <2>2. 0 * TurnsOfCase = 0 /\ 0 * TurnsOfAttempt = 0
    BY <2>1
  <2> QED
    BY <1>1, <2>2 DEF TurnsLeft, TurnsOfCase, TurnsOfAttempt
<1>3. TurnsLeft > 0
  BY TurnTypes DEF TurnsLeft
<1> QED
  BY <1>2, <1>3

\* ... or it goes on with the attempt, ...
LEMMA LaterTurn ==
    ASSUME IInv, UnderWay, UnderWay', observations' = observations, attempt' = attempt,
           Stage' \in Nat, Stage' < Stage
    PROVE  TurnsLeft' \in Nat /\ TurnsLeft' < TurnsLeft
<1>1. CasesLeft' = CasesLeft /\ AttemptsLeft' = AttemptsLeft
  BY DEF CasesLeft, AttemptsLeft, Ended, UnderWay, Begun, case
<1>2. TurnsLeft' = CasesLeft * TurnsOfCase + AttemptsLeft * TurnsOfAttempt + Stage'
  BY <1>1 DEF TurnsLeft, TurnsOfCase, TurnsOfAttempt
<1> QED
  BY <1>2, TurnTypes DEF TurnsLeft

\* ... or it begins the next one.
LEMMA RepeatedTurn ==
    ASSUME IInv, UnderWay, pc # "attempt", CanRetry, Retry
    PROVE  TurnsLeft' \in Nat /\ TurnsLeft' < TurnsLeft
<1>1. /\ TurnsOfAttempt \in Nat /\ CasesLeft * TurnsOfCase \in Nat
      /\ Stage \in Nat /\ Stage >= 1
  BY TurnTypes DEF UnderWay, Begun, Ended
<1>2. CasesLeft' = CasesLeft
  BY DEF CasesLeft, Ended, UnderWay, Begun, case, Retry
<1>3. AttemptsLeft' \in Nat /\ AttemptsLeft = AttemptsLeft' + 1
  BY AdapterAssumption DEF AttemptsLeft, UnderWay, Begun, Retry, CanRetry, IInv, TypeOK
<1>4. Stage' = TurnsOfAttempt
  BY DEF Stage, Retry, TurnsOfAttempt
<1>5. TurnsLeft' = CasesLeft * TurnsOfCase + AttemptsLeft' * TurnsOfAttempt + TurnsOfAttempt
  BY <1>2, <1>4 DEF TurnsLeft, TurnsOfCase, TurnsOfAttempt
<1> DEFINE y == AttemptsLeft'
<1>6. y \in Nat /\ AttemptsLeft * TurnsOfAttempt = y * TurnsOfAttempt + TurnsOfAttempt /\ y * TurnsOfAttempt \in Nat
  <2> HIDE DEF y
  <2>1. y \in Nat /\ AttemptsLeft = y + 1
    BY <1>3 DEF y
  <2> QED
    BY <1>1, <2>1, Products
<1> DEFINE z == y * TurnsOfAttempt  w == AttemptsLeft * TurnsOfAttempt  x == CasesLeft * TurnsOfCase
<1>7. TurnsLeft' = x + z + TurnsOfAttempt /\ TurnsLeft = x + w + Stage /\ w = z + TurnsOfAttempt
      /\ x \in Nat /\ z \in Nat
  BY <1>1, <1>5, <1>6 DEF TurnsLeft
<1> HIDE DEF x, y, z, w
<1> QED
  BY <1>1, <1>7

\* A case begins with all its attempts, and ends with at least one turn to spare.
LEMMA CaseTurns ==
    ASSUME IInv, BeginCase \/ Return \/ Record
    PROVE  TurnsLeft' \in Nat /\ TurnsLeft' < TurnsLeft
<1>1. CASE Ended'
  <2>1. ~Ended
    BY DEF BeginCase, Return, Record, Ended
  <2> QED
    BY <1>1, <2>1, EndingTurn
<1>2. CASE BeginCase /\ ~Ended'
  <2>1. /\ pc = "next" /\ pc' = "attempt" /\ attempt' = 0 /\ observations' = observations /\ case \in Cases
    BY <1>2 DEF BeginCase, Fail, Ended
  <2>2. Len(observations) \in Nat /\ case = Len(observations) + 1 /\ case' = case /\ max_retries \in Nat
    BY <2>1, CaseType, SameCase DEF IInv
  <2> DEFINE x == NumCases - case
  <2>3. x \in Nat /\ CasesLeft' = x /\ CasesLeft = x + 1
    BY <2>1, <2>2, AdapterAssumption DEF Cases, CasesLeft, Ended, UnderWay, Begun
  <2>4. AttemptsLeft' = max_retries /\ AttemptsLeft = 0 /\ Stage' = TurnsOfAttempt /\ Stage = 1
    BY <2>1, <2>2 DEF AttemptsLeft, UnderWay, Begun, Stage, TurnsOfAttempt
  <2>5. TurnsOfAttempt \in Nat /\ TurnsOfCase \in Nat
    BY TurnTypes
  <2>6. TurnsLeft' = x * TurnsOfCase + max_retries * TurnsOfAttempt + TurnsOfAttempt
    BY <2>3, <2>4 DEF TurnsLeft, TurnsOfCase, TurnsOfAttempt
  <2>7. TurnsLeft = (x + 1) * TurnsOfCase + 0 * TurnsOfAttempt + 1
    BY <2>3, <2>4 DEF TurnsLeft
  <2>8. /\ TurnsOfCase = max_retries * TurnsOfAttempt + TurnsOfAttempt
        /\ (x + 1) * TurnsOfCase = x * TurnsOfCase + TurnsOfCase /\ x * TurnsOfCase \in Nat
        /\ 0 * TurnsOfAttempt = 0 /\ max_retries * TurnsOfAttempt \in Nat
    <3>1. TurnsOfCase = max_retries * TurnsOfAttempt + TurnsOfAttempt
      <4> HIDE DEF TurnsOfAttempt
      <4> QED
        BY <2>2, <2>5, Products DEF TurnsOfCase
    <3> HIDE DEF x
    <3> QED
      BY <2>2, <2>3, <2>5, <3>1, Products
  <2> DEFINE y == x * TurnsOfCase  z == max_retries * TurnsOfAttempt  w == (x + 1) * TurnsOfCase
  <2>9. TurnsLeft' = y + z + TurnsOfAttempt /\ TurnsLeft = w + 1 /\ w = y + (z + TurnsOfAttempt)
        /\ y \in Nat /\ z \in Nat
    BY <2>6, <2>7, <2>8
  <2> HIDE DEF x, y, z, w
  <2> QED
    BY <2>5, <2>9
<1>3. CASE Record /\ ~Ended'
  <2>1. /\ pc = "evidence" /\ pc' = "next"
        /\ observations' = Append(observations,
               [case_id |-> case, attempt |-> attempt, latency_ms |-> elapsed])
    BY <1>3 DEF Record, Fail, Ended
  <2>2. Len(observations') = case /\ case \in Cases
    <3>1. case \in Cases
      BY <2>1 DEF IInv, CurrentInv, UnderWay, Begun
    <3>2. [case_id |-> case, attempt |-> attempt, latency_ms |-> elapsed] \in Observed
      BY <3>1 DEF Observed, IInv, TypeOK
    <3>3. observations \in Seq(Observed)
      BY DEF IInv, TypeOK, Observed
    <3> QED
      BY <2>1, <3>1, <3>2, <3>3, AppendElements DEF case
  <2>3. CasesLeft' = CasesLeft
    BY <2>1, <2>2 DEF CasesLeft, Ended, UnderWay, Begun
  <2>4. AttemptsLeft' = 0 /\ Stage' = 1 /\ Stage = 2
    BY <2>1 DEF AttemptsLeft, UnderWay, Begun, Stage
  <2>5. TurnsLeft' = CasesLeft * TurnsOfCase + 0 * TurnsOfAttempt + 1
    BY <2>3, <2>4 DEF TurnsLeft, TurnsOfCase, TurnsOfAttempt
  <2>6. TurnsOfAttempt \in Nat /\ CasesLeft * TurnsOfCase \in Nat /\ AttemptsLeft * TurnsOfAttempt \in Nat
    BY TurnTypes
  <2>7. 0 * TurnsOfAttempt = 0
    BY <2>6
  <2> QED
    BY <2>4, <2>5, <2>6, <2>7 DEF TurnsLeft
<1>4. CASE Return
  BY <1>1, <1>4 DEF Return, Ended
<1> QED
  BY <1>1, <1>2, <1>3, <1>4

LEMMA TurnsDecrease ==
    ASSUME IInv, Client \/ Receive
    PROVE  TurnsLeft' \in Nat /\ TurnsLeft' < TurnsLeft
<1> USE AdapterAssumption
<1>1. CASE BeginCase \/ Return \/ Record
  BY <1>1, CaseTurns
<1>2. CASE Ended'
  <2>1. ~Ended
    BY DEF Client, Receive, BeginCase, Return, Record, StartAttempt, TimeOut, TransportError, Wake, Parse,
           Progress, ReceiveHead, ReceiveChunk, EndOfBody, Ended
  <2> QED
    BY <1>2, <2>1, EndingTurn
<1>3. CASE TransportError /\ ~Ended'
  <2>1. pc \in {"waiting", "reading"} /\ CanRetry /\ Retry
    BY <1>3 DEF TransportError, Fail, Ended
  <2> QED
    BY <2>1, RepeatedTurn DEF UnderWay, Begun
<1>4. CASE Wake
  <2>1. pc = "sleeping" /\ Retry /\ CanRetry
    BY <1>4 DEF Wake, IInv, CurrentInv
  <2> QED
    BY <2>1, RepeatedTurn DEF UnderWay, Begun
\* What is left goes on with the attempt, if it does not repeat it.
<1>5. ASSUME UnderWay, UnderWay', observations' = observations, attempt' = attempt,
             Stage' \in Nat, Stage' < Stage
      PROVE  TurnsLeft' \in Nat /\ TurnsLeft' < TurnsLeft
  BY <1>5, LaterTurn
<1>6. CASE StartAttempt /\ ~Ended'
  <2>1. /\ pc = "attempt" /\ pc' = "waiting" /\ steps' \in 0..NetworkSteps
        /\ observations' = observations /\ attempt' = attempt
    BY <1>6 DEF StartAttempt, Fail, Ended
  <2>2. Stage' = steps' + max_response_bytes + 5 /\ Stage = NetworkSteps + max_response_bytes + 6
    BY <2>1 DEF Stage, TurnsOfAttempt
  <2>3. Stage' \in Nat /\ Stage' < Stage
    <3>1. NetworkSteps \in Nat /\ max_response_bytes \in Nat
      OBVIOUS
    <3> DEFINE u == Stage  v == Stage'  j == steps'
    <3>2. j \in 0..NetworkSteps /\ v = j + max_response_bytes + 5 /\ u = NetworkSteps + max_response_bytes + 6
      BY <2>1, <2>2
    <3> HIDE DEF u, v, j
    <3>3. v \in Nat /\ v < u
      BY <3>1, <3>2
    <3> QED
      BY <3>3 DEF u, v
  <2> QED
    BY <1>5, <2>1, <2>3 DEF UnderWay, Begun
<1>7. CASE Progress
  <2>1. /\ pc = "waiting" /\ pc' = "waiting" /\ steps' = steps - 1 /\ steps \in 0..NetworkSteps
        /\ observations' = observations /\ attempt' = attempt
    BY <1>7 DEF Progress, IInv, TypeOK
  <2>2. Stage' = steps' + max_response_bytes + 5 /\ Stage = steps + max_response_bytes + 5
    BY <2>1 DEF Stage
  <2> QED
    BY <1>5, <2>1, <2>2 DEF UnderWay, Begun
<1>8. CASE ReceiveHead /\ ~Ended'
  <2>1. pc = "waiting" /\ steps = 0 /\ Stage = max_response_bytes + 5
    BY <1>8 DEF ReceiveHead, Stage
  <2>2. \/ pc' = "reading" /\ received' = 0 /\ observations' = observations /\ attempt' = attempt
        \/ CanRetry /\ Retry
        \/ pc' = "sleeping" /\ observations' = observations /\ attempt' = attempt
    BY <1>8 DEF ReceiveHead, WaitBeforeRetry, Fail, Ended
  <2>3. CASE pc' = "reading" /\ received' = 0 /\ observations' = observations /\ attempt' = attempt
    <3>1. Stage' = (max_response_bytes - 0) + 4
      BY <2>3 DEF Stage
    <3> QED
      BY <1>5, <2>1, <2>3, <3>1 DEF UnderWay, Begun
  <2>4. CASE pc' = "sleeping" /\ observations' = observations /\ attempt' = attempt
    <3>1. Stage' = 2
      BY <2>4 DEF Stage
    <3> QED
      BY <1>5, <2>1, <2>4, <3>1 DEF UnderWay, Begun
  <2>5. CASE CanRetry /\ Retry
    BY <2>1, <2>5, RepeatedTurn DEF UnderWay, Begun
  <2> QED
    BY <2>2, <2>3, <2>4, <2>5
<1>9. CASE ReceiveChunk /\ ~Ended'
  <2>1. PICK size \in 1..(max_response_bytes + 1) :
            IF Late \/ received + size > max_response_bytes THEN Fail
            ELSE /\ received' = received + size /\ timer' = limit
                 /\ UNCHANGED <<pc, observations, attempt, elapsed, limit, steps>>
    BY <1>9 DEF ReceiveChunk
  <2>2. /\ pc = "reading" /\ pc' = "reading" /\ received' = received + size
        /\ received + size <= max_response_bytes /\ received \in 0..max_response_bytes
        /\ observations' = observations /\ attempt' = attempt
    BY <1>9, <2>1 DEF ReceiveChunk, Fail, Ended, IInv, TypeOK
  <2>3. Stage' = (max_response_bytes - (received + size)) + 4 /\ Stage = (max_response_bytes - received) + 4
    BY <2>2 DEF Stage
  <2> QED
    BY <1>5, <2>2, <2>3 DEF UnderWay, Begun
<1>10. CASE EndOfBody /\ ~Ended'
  <2>1. /\ pc = "reading" /\ pc' = "parse" /\ received \in 0..max_response_bytes
        /\ observations' = observations /\ attempt' = attempt
    BY <1>10 DEF EndOfBody, Fail, Ended, IInv, TypeOK
  <2>2. Stage' = 3 /\ Stage = (max_response_bytes - received) + 4
    BY <2>1 DEF Stage
  <2> QED
    BY <1>5, <2>1, <2>2 DEF UnderWay, Begun
<1>11. CASE Parse /\ ~Ended'
  <2>1. pc = "parse" /\ pc' = "evidence" /\ observations' = observations /\ attempt' = attempt
    BY <1>11 DEF Parse, Fail, Ended
  <2>2. Stage' = 2 /\ Stage = 3
    BY <2>1 DEF Stage
  <2> QED
    BY <1>5, <2>1, <2>2 DEF UnderWay, Begun
<1> QED
  BY <1>1, <1>2, <1>3, <1>4, <1>6, <1>7, <1>8, <1>9, <1>10, <1>11 DEF Client, Receive, TimeOut

-----------------------------------------------------------------------------
(* Time and the endpoint take steps of their own, between the turns *)

LEMMA RequestsAreFinite ==
    ASSUME NEW S
    PROVE  IsFiniteSet(Requests \ S) /\ Cardinality(Requests \ S) \in Nat
<1>1. IsFiniteSet(Cases) /\ IsFiniteSet(0..max_retries)
  BY AdapterAssumption, FS_Interval DEF Cases
<1>2. IsFiniteSet(Requests)
  BY <1>1, FS_Product DEF Requests
<1>3. IsFiniteSet(Requests \ S)
  BY <1>2, FS_Subset
<1> QED
  BY <1>3, FS_CardinalityType

LEMMA TimeType ==
    ASSUME NEW e \in 0..max_elapsed_s, NEW t \in Nat, t <= timeout_s + retry_after_cap_s
    PROVE  LongestTurn \in Nat /\ (max_elapsed_s - e) + t \in 0..LongestTurn
BY AdapterAssumption DEF LongestTurn

LEMMA TimerStep ==
    ASSUME IInv, TimerInv, [Next]_vars
    PROVE  TimerInv'
<1> USE AdapterAssumption DEF TimerInv
<1>1. timer \in Nat /\ limit \in 0..timeout_s /\ timeout_s \in Nat /\ retry_after_cap_s \in Nat
  BY DEF IInv, TypeOK
<1>2. CASE timer' \in {timer, timer - 1, limit}
  BY <1>1, <1>2
<1>3. CASE UNCHANGED vars
  BY <1>2, <1>3 DEF vars
<1>4. CASE Tick
  BY <1>1, <1>4 DEF Tick
<1>5. CASE StartAttempt
  <2>1. (limit' \in 0..timeout_s /\ timer' = limit') \/ timer' = timer
    BY <1>5 DEF StartAttempt, Fail, Minimum, Late, Remaining, IInv, TypeOK
  <2> QED
    BY <1>1, <2>1
<1>6. CASE ReceiveHead
  <2>1. timer' \in {timer, limit} \/ timer' \in 0..retry_after_cap_s
    <3>1. ASSUME NEW seconds \in RetryAfters, WaitBeforeRetry(seconds)
          PROVE  timer' = timer \/ timer' \in 0..retry_after_cap_s
      <4>1. Minimum(seconds, retry_after_cap_s) \in 0..retry_after_cap_s
        BY DEF Minimum
      <4> QED
        BY <3>1, <4>1 DEF WaitBeforeRetry, Retry, Fail
    <3> QED
      BY <1>6, <3>1 DEF ReceiveHead, Fail
  <2> QED
    BY <1>1, <2>1
<1>7. CASE Perform \/ BeginCase \/ Return \/ TransportError \/ Wake \/ Parse \/ Record
           \/ Progress \/ ReceiveChunk \/ EndOfBody
  <2>1. timer' \in {timer, limit}
    BY <1>7 DEF Perform, BeginCase, Return, TransportError, Wake, Parse, Record,
           Progress, ReceiveChunk, EndOfBody, Fail, Retry
  <2> QED
    BY <1>2, <2>1
<1> QED
  BY <1>3, <1>4, <1>5, <1>6, <1>7 DEF Next, Client, Receive, TimeOut

LEMMA StepsLeftType ==
    ASSUME IInv, TimerInv
    PROVE  StepsLeft \in Nat
<1>1. TurnsLeft \in Nat /\ LongestTurn + 1 \in Nat /\ TimeLeft \in Nat /\ RequestsLeft \in Nat
  <2>1. TurnsLeft \in Nat
    BY TurnTypes
  <2>2. LongestTurn \in Nat /\ TimeLeft \in 0..LongestTurn
    BY TimeType DEF IInv, TypeOK, TimerInv, TimeLeft
  <2>3. RequestsLeft \in Nat
    BY RequestsAreFinite DEF RequestsLeft
  <2> QED
    BY <2>1, <2>2, <2>3
<1>2. TurnsLeft * (LongestTurn + 1) \in Nat
  BY <1>1, Products
<1> QED
  BY <1>1, <1>2 DEF StepsLeft

LEMMA StepsLeftDecreases ==
    ASSUME IInv, TimerInv, Next, ~UNCHANGED vars
    PROVE  StepsLeft' < StepsLeft
<1>1. IInv' /\ TimerInv'
  BY StepInvariant, TimerStep
<1>2. /\ TurnsLeft \in Nat /\ LongestTurn \in Nat /\ TimeLeft \in 0..LongestTurn
      /\ RequestsLeft \in Nat
  <2>1. TurnsLeft \in Nat
    BY TurnTypes
  <2>2. LongestTurn \in Nat /\ TimeLeft \in 0..LongestTurn
    BY TimeType DEF IInv, TypeOK, TimerInv, TimeLeft
  <2>3. RequestsLeft \in Nat
    BY RequestsAreFinite DEF RequestsLeft
  <2> QED
    BY <2>1, <2>2, <2>3
<1>3. TimeLeft' \in 0..LongestTurn
  BY <1>1, TimeType DEF IInv, TypeOK, TimerInv, TimeLeft
<1> DEFINE o == LongestTurn + 1  x == TurnsLeft * o  y == TurnsLeft' * o
<1>4. StepsLeft = x + TimeLeft + RequestsLeft /\ StepsLeft' = y + TimeLeft' + RequestsLeft'
  BY DEF StepsLeft, LongestTurn
<1>5. o \in Nat /\ x \in Nat
  BY <1>2, Products
<1>6. CASE Client \/ Receive
  <2>1. TurnsLeft' \in Nat /\ TurnsLeft' < TurnsLeft
    BY <1>6, TurnsDecrease
  <2>2. RequestsLeft' = RequestsLeft
    <3>1. performed' = performed
      BY <1>6 DEF Client, Receive, BeginCase, Return, Record, StartAttempt, TimeOut, TransportError, Wake,
             Parse, Progress, ReceiveHead, ReceiveChunk, EndOfBody, network
    <3> QED
      BY <3>1 DEF RequestsLeft, Requests, Cases
\* A turn is worth more than all the time that the next one may take.
  <2>3. y \in Nat /\ y + o <= x
    <3> DEFINE u == TurnsLeft  v == TurnsLeft'
    <3>1. u \in Nat /\ v \in Nat /\ v < u
      BY <1>2, <2>1
    <3> HIDE DEF u, v, o
    <3>2. v + 1 \in Nat /\ v + 1 <= u
      BY <3>1
    <3>3. v * o \in Nat /\ (v + 1) * o = v * o + o /\ (v + 1) * o <= u * o
      BY <1>5, <3>1, <3>2, Products
    <3>4. v * o \in Nat /\ v * o + o <= u * o
      BY <3>3
    <3> QED
      BY <3>4 DEF u, v
  <2> DEFINE e == TimeLeft  f == TimeLeft'  g == RequestsLeft  h == LongestTurn
             i == StepsLeft  j == StepsLeft'
  <2>4. /\ e \in 0..h /\ f \in 0..h /\ g \in Nat /\ h \in Nat /\ o = h + 1 /\ x \in Nat
        /\ i = x + e + g /\ j = y + f + g
    BY <1>2, <1>3, <1>4, <1>5, <2>2
  <2> HIDE DEF x, y, o, e, f, g, h, i, j
  <2>5. j < i
    BY <2>3, <2>4
  <2> QED
    BY <2>5 DEF i, j
<1>7. CASE Tick
  <2>1. /\ elapsed' = Minimum(elapsed + 1, max_elapsed_s) /\ timer' = IF timer = 0 THEN 0 ELSE timer - 1
        /\ UNCHANGED <<pc, observations, attempt, limit, steps, received, network, ended>>
    BY <1>7 DEF Tick
  <2>2. TurnsLeft' = TurnsLeft /\ RequestsLeft' = RequestsLeft
    <3>1. CasesLeft' = CasesLeft /\ AttemptsLeft' = AttemptsLeft /\ Stage' = Stage
      BY <2>1 DEF CasesLeft, AttemptsLeft, Stage, TurnsOfAttempt, Ended, UnderWay, Begun, case
    <3>2. TurnsLeft' = TurnsLeft
      BY <3>1 DEF TurnsLeft, TurnsOfCase, TurnsOfAttempt
    <3>3. performed' = performed
      BY <2>1 DEF network
    <3> QED
      BY <3>2, <3>3 DEF RequestsLeft, Requests, Cases
  <2>3. elapsed \in 0..max_elapsed_s /\ timer \in Nat /\ max_elapsed_s \in Nat
    BY AdapterAssumption DEF IInv, TypeOK
  <2>4. elapsed' # elapsed \/ timer' # timer
    BY <2>1 DEF vars
  <2>5. TimeLeft' < TimeLeft
    BY <2>1, <2>3, <2>4 DEF TimeLeft, Minimum
  <2>6. y = x
    BY <2>2
  <2> DEFINE e == TimeLeft  f == TimeLeft'  g == RequestsLeft  i == StepsLeft  j == StepsLeft'
  <2>7. e \in Int /\ f \in Int /\ f < e /\ g \in Nat /\ x \in Nat /\ i = x + e + g /\ j = x + f + g
    BY <1>2, <1>3, <1>4, <1>5, <2>2, <2>5, <2>6
  <2> HIDE DEF x, y, e, f, g, i, j
  <2>8. j < i
    BY <2>7
  <2> QED
    BY <2>8 DEF i, j
<1>8. CASE Perform
  <2>1. PICK r \in sent \ performed : performed' = performed \cup {r}
    BY <1>8 DEF Perform
  <2>2. UNCHANGED <<pc, observations, attempt, elapsed, limit, timer, steps, received, sent, ended>>
    BY <1>8 DEF Perform
  <2>3. TurnsLeft' = TurnsLeft /\ TimeLeft' = TimeLeft
    <3>1. CasesLeft' = CasesLeft /\ AttemptsLeft' = AttemptsLeft /\ Stage' = Stage
      BY <2>2 DEF CasesLeft, AttemptsLeft, Stage, TurnsOfAttempt, Ended, UnderWay, Begun, case
    <3> QED
      BY <2>2, <3>1 DEF TurnsLeft, TurnsOfCase, TurnsOfAttempt, TimeLeft
  <2>4. RequestsLeft' = RequestsLeft - 1
    <3> DEFINE S == Requests \ performed
    <3>1. IsFiniteSet(S) /\ r \in S
      BY <2>1, RequestsAreFinite DEF IInv, TypeOK
    <3>2. Requests' \ performed' = S \ {r}
      BY <2>1 DEF Requests, Cases
    <3> HIDE DEF S
    <3>3. Cardinality(S \ {r}) = Cardinality(S) - 1
      BY <3>1, FS_RemoveElement
    <3> QED
      BY <3>2, <3>3 DEF RequestsLeft, S
  <2>5. y = x
    BY <2>3
  <2> HIDE DEF x, y
  <2> QED
    BY <1>2, <1>4, <1>5, <2>3, <2>4, <2>5
<1> QED
  BY <1>6, <1>7, <1>8 DEF Next

\* A run cannot go on for ever (_request_case, _read_bounded_response,
\* _wait_before_retry): the turns it can take, the time that each of them can last
\* and the requests that the endpoint can carry out are bounded from the beginning,
\* and every step uses some of them up, whether the endpoint sends byte after byte,
\* asks for pause after pause, or never answers.
THEOREM RunIsFinite ==
    Spec => [](StepsLeft \in Nat) /\ [][StepsLeft' < StepsLeft]_vars
<1>1. Init => TimerInv
  BY AdapterAssumption DEF Init, TimerInv
<1>2. IInv /\ TimerInv /\ [Next]_vars => TimerInv'
  BY TimerStep
<1>3. IInv /\ TimerInv => StepsLeft \in Nat
  BY StepsLeftType
<1>4. IInv /\ TimerInv /\ [Next]_vars => [StepsLeft' < StepsLeft]_vars
  <2> SUFFICES ASSUME IInv, TimerInv, [Next]_vars, ~UNCHANGED vars PROVE StepsLeft' < StepsLeft
    OBVIOUS
  <2> QED
    BY StepsLeftDecreases
<1> QED
  BY <1>1, <1>2, <1>3, <1>4, Invariance, PTL DEF Spec
=============================================================================
