---------------------------- MODULE RemoteAdapter ----------------------------
(***************************************************************************)
(* One run of OpenAICompatibleAdapter (adapters/openai_compatible.py): the *)
(* cases are sent one after the other to a chat endpoint, each with a      *)
(* bounded number of retries and one deadline for all its attempts.        *)
(*                                                                         *)
(* The endpoint and the network are external.  An attempt that fails for   *)
(* the client may yet be carried out by the endpoint, then or later.  Time *)
(* passes between any two steps.                                           *)
(***************************************************************************)
EXTENDS Integers, Sequences

CONSTANTS
    NumCases,        \* cases of the run
    max_retries, timeout_s, retry_after_cap_s, max_response_bytes, max_elapsed_s,
    RetryAfters,     \* seconds an endpoint may ask for; 0 when it asks for none
    NetworkSteps     \* bound: network operations of an attempt before its answer

\* _validate_execution_limits, in whole units.
ASSUME AdapterAssumption ==
    /\ NumCases \in Nat
    /\ max_retries \in 0..5
    /\ timeout_s \in Nat \ {0}
    /\ retry_after_cap_s \in Nat
    /\ max_response_bytes \in Nat \ {0}
    /\ max_elapsed_s \in Nat \ {0}
    /\ RetryAfters \subseteq Nat
    /\ NetworkSteps \in Nat

VARIABLES
    pc,             \* what the adapter does next
    observations,   \* of the cases done so far
    attempt,        \* of the current case
    elapsed,        \* since the current case began; time after its deadline is not told apart
    limit,          \* what a network operation of this attempt may last
    timer,          \* how long the current operation or pause may still last
    steps,          \* network operations left before an answer may arrive
    received,       \* bytes of the body
    sent,           \* requests that were begun
    performed,      \* requests that the endpoint carried out
    ended           \* history: how the attempts ended

network == <<sent, performed>>
vars == <<pc, observations, attempt, elapsed, limit, timer, steps, received, network, ended>>

Cases == 1..NumCases
Requests == Cases \X (0..max_retries)
Statuses == {"ok", "retryable", "refused"}

Minimum(a, b) == IF a <= b THEN a ELSE b

case == Len(observations) + 1
Current == <<case, attempt>>

Init ==
    /\ pc = "next" /\ observations = <<>>
    /\ attempt = 0 /\ elapsed = 0 /\ limit = 0 /\ timer = 0 /\ steps = 0 /\ received = 0
    /\ sent = {} /\ performed = {}
    /\ ended = [r \in Requests |-> "open"]

-----------------------------------------------------------------------------
(* The clock and the endpoint *)

Tick ==
    /\ pc \notin {"returned", "failed"}
    /\ elapsed' = Minimum(elapsed + 1, max_elapsed_s)
    /\ timer' = IF timer = 0 THEN 0 ELSE timer - 1
    /\ UNCHANGED <<pc, observations, attempt, limit, steps, received, network, ended>>

\* Also for a request that the client has given up.
Perform ==
    /\ \E r \in sent \ performed : performed' = performed \cup {r}
    /\ UNCHANGED <<pc, observations, attempt, elapsed, limit, timer, steps, received, sent, ended>>

-----------------------------------------------------------------------------
(* Deadline and retries *)

Remaining == max_elapsed_s - elapsed

\* Mutant: the deadline itself still counts.
Late_Lenient == Remaining < 0

\* _ensure_before_deadline raises.
Late == Remaining <= 0

CanRetry == attempt < max_retries

\* Mutant: any response but a success is retried.
ShouldRetry_Refused(status) == status # "ok"

ShouldRetry(status) == status = "retryable"

\* Mutant: a pause may end on the deadline.
PauseIsTooLong_OnDeadline(delay) == delay > Remaining

PauseIsTooLong(delay) == delay >= Remaining

Fail ==
    /\ pc' = "failed"
    /\ UNCHANGED <<observations, attempt, elapsed, limit, timer, steps, received>>

Retry ==
    /\ pc' = "attempt" /\ attempt' = attempt + 1
    /\ UNCHANGED <<observations, elapsed, limit, timer, steps, received>>

Ends(how) == ended' = [ended EXCEPT ![Current] = how]

-----------------------------------------------------------------------------
(* The client *)

\* A case whose input is not acceptable fails before any request.
BeginCase ==
    /\ pc = "next" /\ case \in Cases
    /\ \/ Fail
       \/ /\ pc' = "attempt" /\ attempt' = 0 /\ elapsed' = 0
          /\ UNCHANGED <<observations, limit, timer, steps, received>>
    /\ UNCHANGED <<network, ended>>

Return ==
    /\ pc = "next" /\ case \notin Cases
    /\ pc' = "returned"
    /\ UNCHANGED <<observations, attempt, elapsed, limit, timer, steps, received, network, ended>>

StartAttempt ==
    /\ pc = "attempt"
    /\ IF Late
         THEN Fail /\ UNCHANGED sent
         ELSE /\ pc' = "waiting"
              /\ limit' = Minimum(timeout_s, Remaining)
              /\ timer' = limit'
              /\ steps' \in 0..NetworkSteps
              /\ sent' = sent \cup {Current}
              /\ UNCHANGED <<observations, attempt, elapsed, received>>
    /\ UNCHANGED <<performed, ended>>

\* One network operation before the response ends and the next begins, with the
\* full limit again.
Progress ==
    /\ pc = "waiting" /\ steps > 0
    /\ steps' = steps - 1 /\ timer' = limit
    /\ UNCHANGED <<pc, observations, attempt, elapsed, limit, received, network, ended>>

\* _wait_before_retry: no pause, or one of at most retry_after_cap_s that has to
\* end before the deadline.
WaitBeforeRetry(seconds) ==
    LET delay == Minimum(seconds, retry_after_cap_s) IN
    IF delay = 0 THEN Retry
    ELSE IF Late \/ PauseIsTooLong(delay) THEN Fail
    ELSE /\ pc' = "sleeping" /\ timer' = delay
         /\ UNCHANGED <<observations, attempt, elapsed, limit, steps, received>>

\* The response arrives.  The body of a success is read, unless its headers are
\* not acceptable; any other response ends the attempt, and the run if it may
\* not be tried again.
ReceiveHead ==
    /\ pc = "waiting" /\ steps = 0
    /\ \E status \in Statuses :
          /\ status = "ok" => Current \in performed
          /\ IF status = "ok"
               THEN /\ UNCHANGED ended
                    /\ \/ Fail
                       \/ /\ ~Late
                          /\ pc' = "reading" /\ received' = 0 /\ timer' = limit
                          /\ UNCHANGED <<observations, attempt, elapsed, limit, steps>>
               ELSE /\ Ends(status)
                    /\ IF ShouldRetry(status) /\ CanRetry
                         THEN \E seconds \in RetryAfters : WaitBeforeRetry(seconds)
                         ELSE Fail
    /\ UNCHANGED network

ReceiveChunk ==
    /\ pc = "reading"
    /\ \E size \in 1..(max_response_bytes + 1) :
          IF Late \/ received + size > max_response_bytes
            THEN Fail
            ELSE /\ received' = received + size /\ timer' = limit
                 /\ UNCHANGED <<pc, observations, attempt, elapsed, limit, steps>>
    /\ UNCHANGED <<network, ended>>

EndOfBody ==
    /\ pc = "reading"
    /\ Ends("answered")
    /\ IF Late THEN Fail
       ELSE /\ pc' = "parse"
            /\ UNCHANGED <<observations, attempt, elapsed, limit, timer, steps, received>>
    /\ UNCHANGED network

\* httpx.TransportError, while waiting or while reading.
TransportError ==
    /\ pc \in {"waiting", "reading"}
    /\ Ends("transport")
    /\ IF Late \/ ~CanRetry THEN Fail ELSE Retry
    /\ UNCHANGED network

\* Mutant: the request is sent without a timeout.
TimeOut_Never == FALSE /\ TransportError

TimeOut == timer = 0 /\ TransportError

Wake ==
    /\ pc = "sleeping" /\ timer = 0
    /\ Retry
    /\ UNCHANGED <<network, ended>>

\* The body is parsed; then its text is taken and recorded.  Either may fail.
Parse ==
    /\ pc = "parse"
    /\ \/ Fail
       \/ /\ ~Late
          /\ pc' = "evidence"
          /\ UNCHANGED <<observations, attempt, elapsed, limit, timer, steps, received>>
    /\ UNCHANGED <<network, ended>>

Record ==
    /\ pc = "evidence"
    /\ \/ Fail
       \/ /\ ~Late
          /\ observations' = Append(observations,
                [case_id |-> case, attempt |-> attempt, latency_ms |-> elapsed])
          /\ pc' = "next"
          /\ UNCHANGED <<attempt, elapsed, limit, timer, steps, received>>
    /\ UNCHANGED <<network, ended>>

\* What the adapter does by itself, and what it does when the network lets it.
Client == BeginCase \/ Return \/ StartAttempt \/ TimeOut \/ Wake \/ Parse \/ Record
Receive == Progress \/ ReceiveHead \/ ReceiveChunk \/ EndOfBody \/ TransportError

Next == Tick \/ Perform \/ Client \/ Receive

Spec == Init /\ [][Next]_vars

\* Time passes and the adapter does not stop of its own accord; nothing is
\* assumed of the endpoint or the network.
FairSpec == Spec /\ WF_vars(Tick) /\ WF_vars(Client)

-----------------------------------------------------------------------------
(* Properties *)

\* Type invariant.
TypeOK ==
    /\ pc \in {"next", "attempt", "waiting", "reading", "sleeping", "parse", "evidence",
               "returned", "failed"}
    /\ observations \in Seq([case_id : Cases, attempt : 0..max_retries, latency_ms : 0..max_elapsed_s])
    /\ Len(observations) <= NumCases
    /\ attempt \in 0..max_retries
    /\ elapsed \in 0..max_elapsed_s
    /\ limit \in 0..timeout_s
    /\ timer \in Nat
    /\ steps \in 0..NetworkSteps
    /\ received \in 0..max_response_bytes
    /\ sent \subseteq Requests
    /\ performed \subseteq sent
    /\ ended \in [Requests -> {"open", "transport", "answered"} \cup Statuses]

\* A pause before a retry always leaves time for the retry, whatever the endpoint
\* asks for and however much of the budget earlier attempts have used: as long as
\* it lasts, its end is before the deadline of the case.
PausesLeaveTime ==
    (pc = "sleeping" /\ timer > 0) => elapsed + timer < max_elapsed_s

\* What a run records of a case is the answer to its own last request, carried
\* out by the endpoint, complete before the deadline, and counted right: the
\* attempts before it were all made and all failed.
ObservationIsJustified ==
    \A i \in DOMAIN observations :
        LET o == observations[i] IN
        /\ o.case_id = i
        /\ {r \in sent : r[1] = i} = {i} \X (0..o.attempt)
        /\ <<i, o.attempt>> \in performed
        /\ ended[<<i, o.attempt>>] = "answered"
        /\ o.latency_ms < max_elapsed_s

\* A request is repeated only if the one before it got no usable answer: an
\* answer that was read in full, or a refusal, is never asked for again, even
\* when it came too late.
OnlyFailuresAreRepeated ==
    \A r \in sent : \A k \in 0..(r[2] - 1) : ended[<<r[1], k>>] \in {"transport", "retryable"}

\* Every run ends, though the endpoint may never answer, may send its answer byte
\* by byte and may ask for any pause.
Terminates == <>(pc \in {"returned", "failed"})
=============================================================================
