----------------------------- MODULE OnsetSearch -----------------------------
(***************************************************************************)
(* What a regression localisation promises, with no search strategy: under *)
(* the monotonicity assumption an ordered list of checkpoints has one      *)
(* onset, the first checkpoint that blocks, or none (written count).  An   *)
(* observation of one checkpoint may only rule onsets out, and a claim is  *)
(* made once, when the onsets still possible justify it.                   *)
(***************************************************************************)
EXTENDS Integers

CONSTANT CheckpointCounts   \* the lengths a caller may ask about

VARIABLES
    count,      \* number of checkpoints
    possible,   \* the onsets no observation has ruled out
    claim       \* what has been concluded

vars == <<count, possible, claim>>

Searching == [kind |-> "searching", low |-> -1, high |-> -1]

Claim(kind, low, high) == [kind |-> kind, low |-> low, high |-> high]

\* The onsets that a claim says are the possible ones.
Justified(c) ==
    \/ c = Claim("unknown", -1, -1)
    \/ c = Claim("sampled_clean", -1, -1)
    \/ c = Claim("no_onset", -1, -1) /\ possible = {count}
    \/ c = Claim("reversal", -1, -1) /\ possible = {}
    \/ \E k \in possible : c = Claim("onset", k, k) /\ possible = {k}
    \/ \E low, high \in 0..count-1 :
          c = Claim("bounded", low, high) /\ low < high /\ possible = low+1..high

Init ==
    /\ count \in CheckpointCounts
    /\ possible = 0..count
    /\ claim = Searching

\* A checkpoint that passes rules out every onset at or below it, one that
\* blocks every onset above it, an uncertain one nothing.
Observe ==
    /\ claim = Searching
    /\ \/ possible' = possible
       \/ \E i \in 0..count-1 : possible' = {k \in possible : k > i}
       \/ \E i \in 0..count-1 : possible' = {k \in possible : k <= i}
    /\ UNCHANGED <<count, claim>>

\* The claim is drawn from what is known, after a last observation that is
\* uncertain or from what was known already.
Conclude ==
    /\ claim = Searching
    /\ \E kind \in {"unknown", "sampled_clean", "no_onset", "reversal", "onset", "bounded"},
          low, high \in -1..count :
          /\ claim' = Claim(kind, low, high)
          /\ Justified(claim')
    /\ UNCHANGED <<count, possible>>

Next == Observe \/ Conclude

Spec == Init /\ [][Next]_vars
=============================================================================
