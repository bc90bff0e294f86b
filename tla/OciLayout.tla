------------------------------- MODULE OciLayout -------------------------------
(***************************************************************************)
(* The OCI layout that carries a report's Statement (merriv/oci.py,        *)
(* create_mcr_oci_layout, with the Statement of merriv/attestation.py,     *)
(* behind the command mcr oci-layout): three blobs named by their digests, *)
(* index.json and oci-layout, each written in place, the blobs also when   *)
(* they are there already.  Writers of one destination may overlap, and    *)
(* one may die between opening a file and filling it and be run again.     *)
(*                                                                         *)
(* A report stands for all inputs of one layout: report, subject and       *)
(* media type.  The verification before is EvidenceBundle's and            *)
(* ReportBundle's.                                                         *)
(***************************************************************************)
EXTENDS Naturals, Sequences, SequencesExt

CONSTANTS
    LayoutReports,    \* reports laid out into one destination
    LayoutWriters,    \* invocations of the command
    MaxLayoutDeaths,  \* bound: deaths of writers
    MaxLayouts,       \* bound: layouts begun
    NoFile,           \* the file is not there
    Torn              \* it holds nothing, or not all of anything

VARIABLES
    disk,             \* file of the destination -> what it holds
    writer,           \* [pc, report, step]
    layouts,
    layoutDeaths,
    lost              \* history: files in which a writer died

layoutVars == <<disk, writer, layouts, layoutDeaths, lost>>

\* The bytes of the blobs: the empty config, the same for all, the Statement,
\* and the manifest that names both and the subject.
EmptyConfig == <<"config">>

StatementOf(report) == <<"statement", report>>

ManifestOf(report) == <<"manifest", report>>

BlobsOf(report) == <<EmptyConfig, StatementOf(report), ManifestOf(report)>>

\* Mutant: what a blob is named by leaves out the report.
Digest_OfKind(data) == <<data[1]>>

Digest(data) == data

Index == <<"index.json">>

Marker == <<"oci-layout">>

IndexOf(report) == <<"index", report>>

\* The files in the order they are written, each with its content.
Steps(report) ==
    [k \in 1 .. 3 |-> [file |-> Digest(BlobsOf(report)[k]), data |-> BlobsOf(report)[k]]]
        \o <<[file |-> Index, data |-> IndexOf(report)], [file |-> Marker, data |-> Marker]>>

\* Mutant: the index comes before the manifest it names.
StepOf_IndexFirst(report, k) == Steps(report)[CASE k = 3 -> 4 [] k = 4 -> 3 [] OTHER -> k]

StepOf(report, k) == Steps(report)[k]

Files == {Steps(r)[k].file : r \in LayoutReports, k \in 1 .. 5}

\* A file that is not there, or not whole, is none of the contents.
ASSUME LayoutAssumption ==
    /\ MaxLayoutDeaths \in Nat /\ MaxLayouts \in Nat /\ NoFile # Torn
    /\ \A r \in LayoutReports :
          {NoFile, Torn} \cap {EmptyConfig, StatementOf(r), ManifestOf(r), IndexOf(r), Marker} = {}

LayoutInit ==
    /\ disk = [f \in Files |-> NoFile]
    /\ writer = [w \in LayoutWriters |-> [pc |-> "idle", report |-> NoFile, step |-> 1]]
    /\ layouts = 0 /\ layoutDeaths = 0 /\ lost = {}

Current(w) == StepOf(writer[w].report, writer[w].step)

IsBlob(w) == Current(w).file \notin {Index, Marker}

Becomes(w, label) == writer' = [writer EXCEPT ![w].pc = label]

BeginLayout(w) ==
    /\ writer[w].pc \in {"idle", "returned", "refused"} /\ layouts < MaxLayouts
    /\ \E r \in LayoutReports : writer' = [writer EXCEPT ![w] = [pc |-> "look", report |-> r, step |-> 1]]
    /\ layouts' = layouts + 1
    /\ UNCHANGED <<disk, layoutDeaths, lost>>

\* _write_blob: an existing blob must hold the data; index.json and oci-layout
\* are not looked at.
LookAtFile(w) ==
    /\ writer[w].pc = "look"
    /\ Becomes(w, IF IsBlob(w) /\ disk[Current(w).file] \notin {NoFile, Current(w).data}
                    THEN "refused" ELSE "open")
    /\ UNCHANGED <<disk, layouts, layoutDeaths, lost>>

\* write_bytes opens, which truncates,
OpenForWriting(w) ==
    /\ writer[w].pc = "open"
    /\ disk' = [disk EXCEPT ![Current(w).file] = Torn]
    /\ Becomes(w, "fill")
    /\ UNCHANGED <<layouts, layoutDeaths, lost>>

\* and writes; over the bytes of a writer that opened the file before this one
\* and filled it after, which may stick out at the end.
FillFile(w) ==
    LET f    == Current(w).file
        data == Current(w).data
    IN  /\ writer[w].pc = "fill"
        /\ \E left \in IF disk[f] \in {Torn, data} THEN {data} ELSE {data, Torn} :
              disk' = [disk EXCEPT ![f] = left]
        /\ writer' = [writer EXCEPT ![w].pc = IF writer[w].step = 5 THEN "returned" ELSE "look",
                                    ![w].step = IF @ = 5 THEN @ ELSE @ + 1]
        /\ lost' = lost \ {f}
        /\ UNCHANGED <<layouts, layoutDeaths>>

DieWhileWriting(w) ==
    /\ writer[w].pc \in {"look", "open", "fill"} /\ layoutDeaths < MaxLayoutDeaths
    /\ Becomes(w, "idle")
    /\ lost' = IF writer[w].pc = "fill" THEN lost \cup {Current(w).file} ELSE lost
    /\ layoutDeaths' = layoutDeaths + 1
    /\ UNCHANGED <<disk, layouts>>

LayoutStep(w) ==
    BeginLayout(w) \/ LookAtFile(w) \/ OpenForWriting(w) \/ FillFile(w) \/ DieWhileWriting(w)

LayoutNext == \E w \in LayoutWriters : LayoutStep(w)

LayoutSpec == LayoutInit /\ [][LayoutNext]_layoutVars

-----------------------------------------------------------------------------
(* Properties *)

\* Files that are open for writing, and the damage done by dead writers.
BeingWritten == {Current(w).file : w \in {w \in LayoutWriters : writer[w].pc = "fill"}}

Holds(report, file, data) == disk[file] = data \/ file \in BeingWritten \cup lost

\* index.json never names a manifest, and no manifest a Statement or a config,
\* that is not there in full, except for a blob that is being written again at
\* this moment or in which a writer died doing so: the order of the writes is
\* what makes an interrupted first layout harmless (create_mcr_oci_layout).
IndexIsBacked ==
    \A r \in LayoutReports :
        disk[Index] = IndexOf(r) =>
            \A k \in DOMAIN BlobsOf(r) : Holds(r, Digest(BlobsOf(r)[k]), BlobsOf(r)[k])

\* A layout is refused only for a blob some writer left or has half written,
\* never because another report was laid out in the same destination
\* (_write_blob).
RefusesOnlyTorn ==
    [][\A w \in LayoutWriters :
          writer[w].pc = "look" /\ writer'[w].pc = "refused" =>
              Current(w).file \in BeingWritten \cup lost]_layoutVars
=============================================================================
