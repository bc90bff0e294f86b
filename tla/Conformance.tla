------------------------------ MODULE Conformance ------------------------------
(***************************************************************************)
(* The conformance commands (merriv/conformance.py): a producer's suite    *)
(* holds one bundle for each of the five decisions and four that must be   *)
(* rejected; each bundle is verified and its report then read a second     *)
(* time and compared with the normative vector.  A consumer's receipt is   *)
(* compared with what that yields.  The suite may be edited meanwhile.     *)
(*                                                                         *)
(* A report is [text, status], which is also its identity: text is         *)
(* "normative" for the vector normative_profile_report builds.             *)
(***************************************************************************)
EXTENDS Naturals, Sequences, SequencesExt

CONSTANTS
    Profiles,        \* _EXPECTED_STATUSES, in order: each named for its status
    Negatives,       \* _NEGATIVE_PROFILES, in order
    SuiteEdits,      \* what a bundle may become: [bundle, content]
    Receipts,        \* receipts a consumer may hand in: [names, idHolds]
    MaxSuiteEdits,   \* bound: edits of the suite
    Invalid,         \* a bundle that does not verify strictly
    NoDirectory,     \* no directory of that name
    NoReceipt        \* the command is conformance producer

VARIABLES
    suite,           \* bundle -> report, Invalid or NoDirectory
    examiner,        \* [pc, receipt, done, identified, refusal]
    suiteEdits,
    exchanged        \* history: bundles edited between their two readings

conformanceVars == <<suite, examiner, suiteEdits, exchanged>>

ASSUME ConformanceAssumption ==
    /\ Profiles \in Seq(ToSet(Profiles)) /\ Negatives \in Seq(ToSet(Negatives))
    /\ MaxSuiteEdits \in Nat

\* normative_profile_report.
Normative(profile) == [text |-> "normative", status |-> profile]

ConformanceInit ==
    /\ suite = [b \in ToSet(Profiles) \cup ToSet(Negatives) |->
                   IF b \in ToSet(Profiles) THEN Normative(b) ELSE Invalid]
    /\ examiner = [pc |-> "idle", receipt |-> NoReceipt, done |-> 0, identified |-> <<>>]
    /\ suiteEdits = 0 /\ exchanged = {}

Bundle == (Profiles \o Negatives)[examiner.done + 1]

EditSuite ==
    /\ examiner.pc \notin {"conformant", "refused"} /\ suiteEdits < MaxSuiteEdits
    /\ \E e \in SuiteEdits :
          /\ suite[e.bundle] # e.content
          /\ suite' = [suite EXCEPT ![e.bundle] = e.content]
          /\ exchanged' = IF examiner.pc = "compare" /\ e.bundle = Bundle
                            THEN exchanged \cup {e.bundle} ELSE exchanged
    /\ suiteEdits' = suiteEdits + 1
    /\ UNCHANGED examiner

Quietly == UNCHANGED <<suite, suiteEdits, exchanged>>

RefuseSuite == examiner' = [examiner EXCEPT !.pc = "refused"]

\* A consumer's receipt is read and must be the one its identity was made for.
BeginConformance ==
    /\ examiner.pc = "idle"
    /\ \E r \in Receipts \cup {NoReceipt} :
          examiner' = [examiner EXCEPT
              !.receipt = r,
              !.pc = IF r = NoReceipt THEN "verify" ELSE IF r.idHolds THEN "verify" ELSE "refused"]
    /\ Quietly

\* verify_report_bundle of one positive vector: its identities and its status.
VerifyProfile ==
    /\ examiner.pc = "verify" /\ examiner.done < Len(Profiles)
    /\ LET report == suite[Bundle]
       IN  IF report \in {Invalid, NoDirectory} THEN RefuseSuite
           ELSE IF report.status # Bundle THEN RefuseSuite
           ELSE examiner' = [examiner EXCEPT !.pc = "compare", !.identified = Append(@, report)]
    /\ Quietly

\* Mutant: the second reading is compared in its status only.
IsNormative_InStatus(report, profile) == report.status = profile

IsNormative(report, profile) == report = Normative(profile)

\* _load_profile_report: the report alone, read again.
CompareProfile ==
    /\ examiner.pc = "compare"
    /\ IF suite[Bundle] \in {Invalid, NoDirectory} THEN RefuseSuite
       ELSE IF ~IsNormative(suite[Bundle], Bundle) THEN RefuseSuite
       ELSE examiner' = [examiner EXCEPT !.pc = "verify", !.done = @ + 1]
    /\ Quietly

\* A negative vector must be there and must be rejected.
RejectNegative ==
    /\ examiner.pc = "verify"
    /\ examiner.done \in Len(Profiles) .. Len(Profiles) + Len(Negatives) - 1
    /\ IF suite[Bundle] = Invalid
         THEN examiner' = [examiner EXCEPT !.done = @ + 1]
         ELSE RefuseSuite
    /\ Quietly

\* The receipt names, for each profile, what the suite yielded.
FinishConformance ==
    /\ examiner.pc = "verify" /\ examiner.done = Len(Profiles) + Len(Negatives)
    /\ IF examiner.receipt # NoReceipt
         THEN IF \A k \in DOMAIN Profiles : examiner.receipt.names[Profiles[k]] = examiner.identified[k]
                THEN examiner' = [examiner EXCEPT !.pc = "conformant"] ELSE RefuseSuite
         ELSE examiner' = [examiner EXCEPT !.pc = "conformant"]
    /\ Quietly

ConformanceNext ==
    \/ EditSuite \/ BeginConformance \/ VerifyProfile \/ CompareProfile \/ RejectNegative
    \/ FinishConformance

ConformanceSpec == ConformanceInit /\ [][ConformanceNext]_conformanceVars

-----------------------------------------------------------------------------
(* Properties *)

\* What a conformance result certifies - the identities of the first reading,
\* and a consumer's that equal them - is the normative vector of each of the five
\* decisions, although that is established on a second reading of one file; only
\* a bundle that is exchanged between the two can be certified for another
\* (verify_producer_conformance, verify_consumer_conformance).
CertifiesNormative ==
    examiner.pc = "conformant" =>
        \A k \in DOMAIN Profiles :
            LET p == Profiles[k]
            IN  p \notin exchanged =>
                    /\ examiner.identified[k] = Normative(p)
                    /\ examiner.receipt # NoReceipt => examiner.receipt.names[p] = Normative(p)
=============================================================================
