---------------------------- MODULE EvidenceBundle ----------------------------
(***************************************************************************)
(* The bodies of evidence a bundle retains (merriv/evidence.py) and their  *)
(* verification (merriv/reports/verify.py, verify_report_bundle, behind    *)
(* the command mcr verify): each declared reference is classified, read    *)
(* and rehashed with the files it binds, one file after another, and the   *)
(* links between the documents are checked at the end.  The files may be   *)
(* edited meanwhile.  Report, manifest and plan of the bundle are          *)
(* ReportBundle's.                                                         *)
(*                                                                         *)
(* Identifiers and digests are the contents they digest.                   *)
(***************************************************************************)
EXTENDS Naturals, Sequences, SequencesExt

CONSTANTS
    Bundles,         \* what a producer may have published: [references, files]
    Documents,       \* contents of files that are documents of evidence.py
    BundleEdits,     \* what a file may become: [path, content]
    MaxBundleEdits,  \* bound: edits of a bundle
    NotThere           \* no file; no local path; no parent

VARIABLES
    references,   \* manifest.evidence and report.evidence
    bundle,       \* the files below the report directory
    strict,       \* --strict
    bundleEdits,
    stage,
    todo,         \* references not looked at yet
    binding,      \* files the document just read binds, not hashed yet
    document,     \* the document just read
    verified,     \* _VerifiedEvidence: the documents rehashed so far
    counts,       \* and how each reference was classified
    warnings,
    hashed        \* history: [uri, sha256] pairs hashed by this verification

progress == <<todo, binding, document, verified, counts, warnings, hashed>>

bundleVars == <<references, bundle, strict, bundleEdits, stage, progress>>

Classes == {"structured", "opaque", "unavailable", "remote", "redacted", "unrecognized"}

Recognized == {"artifact-diff", "numerical-diff", "observation", "tool-native-evidence",
               "snapshot-artifact-manifest", "backend-comparison", "build-provenance"}

BundleInit ==
    /\ references = <<>> /\ bundle = <<>> /\ strict = FALSE /\ bundleEdits = 0
    /\ stage = "unpublished"
    /\ todo = <<>> /\ binding = {} /\ document = NotThere
    /\ verified = {} /\ counts = [class \in Classes |-> 0] /\ warnings = 0
    /\ hashed = {}

PublishBundle ==
    /\ stage = "unpublished"
    /\ \E b \in Bundles : references' = b.references /\ bundle' = b.files
    /\ strict' \in BOOLEAN
    /\ stage' = "published"
    /\ UNCHANGED <<bundleEdits, progress>>

FileAt(path) == IF path \in DOMAIN bundle THEN bundle[path] ELSE NotThere

EditBundle ==
    /\ stage \in {"published", "references", "files"} /\ bundleEdits < MaxBundleEdits
    /\ \E e \in BundleEdits :
          /\ FileAt(e.path) \notin {NotThere, e.content}
          /\ bundle' = [bundle EXCEPT ![e.path] = e.content]
    /\ bundleEdits' = bundleEdits + 1
    /\ UNCHANGED <<references, strict, stage, progress>>

-----------------------------------------------------------------------------
(* One reference *)

Enters(label) == stage' = label

RejectBundle == Enters("rejected") /\ UNCHANGED progress

\* _collect_references: one id, one reference.
CollectReferences ==
    /\ stage = "published"
    /\ IF \E r, s \in ToSet(references) : r # s /\ r.id = s.id
         THEN RejectBundle
         ELSE /\ todo' = FoldLeft(LAMBDA kept, r : IF r \in ToSet(kept) THEN kept ELSE Append(kept, r),
                                 <<>>, references)
              /\ Enters("references")
              /\ UNCHANGED <<binding, document, verified, counts, warnings, hashed>>
    /\ UNCHANGED <<references, bundle, strict, bundleEdits>>

Reference == Head(todo)

Classify(class, warns) ==
    /\ counts' = [counts EXCEPT ![class] = @ + 1]
    /\ warnings' = warnings + warns
    /\ todo' = Tail(todo)

IsLocal(reference) == ~reference.redacted /\ reference.path # NotThere /\ ~reference.remote

\* Where the body of a reference is, if it is not in a local file.
Elsewhere(reference) ==
    IF reference.redacted THEN "redacted"
    ELSE IF reference.path = NotThere THEN "unavailable"
    ELSE "remote"

\* A body that is not in the bundle is counted, and nothing else.
SkipReference ==
    /\ stage = "references" /\ todo # <<>> /\ ~IsLocal(Reference)
    /\ Classify(Elsewhere(Reference), 0)
    /\ UNCHANGED <<references, bundle, strict, bundleEdits, stage, binding, document, verified, hashed>>

\* The identity of a document digests its kind and everything in it but the
\* places where its files are.
DocumentId(d) == <<d.kind, d.body, {b.sha256 : b \in d.files}>>

\* Builds whose identity is that of their content.
GenuineBuilds == {d \in Documents : d.kind = "build-provenance" /\ d.id = DocumentId(d)}

\* A document that names another by its digest was made after it: among builds
\* there is always one that came from none of the others.
ASSUME EvidenceAssumption ==
    /\ MaxBundleEdits \in Nat /\ NotThere \notin Documents
    /\ \A S \in SUBSET GenuineBuilds :
          S # {} => \E p \in S : \A q \in S : q.id # p.body.parent

\* The contracts of evidence.py: a snapshot manifest binds exactly the artifacts
\* of its snapshot; a comparison whose tool succeeded has no mismatch, and one
\* whose tool failed has some.
IsContract(d) ==
    /\ d.kind = "snapshot-artifact-manifest" => {b.sha256 : b \in d.files} = d.body.snapshot
    /\ d.kind = "backend-comparison" => (d.body.exit_code = 0 <=> d.body.mismatches = 0)

\* _verify_supplemental_identity up to the files the document binds.
ReadReference ==
    /\ stage = "references" /\ todo # <<>> /\ IsLocal(Reference)
    /\ LET d == FileAt(Reference.path)
       IN  IF d \notin Documents THEN RejectBundle
           ELSE IF d.id # Reference.id THEN RejectBundle
           ELSE IF Reference.kind \notin Recognized
             THEN /\ Classify("unrecognized", 1)
                  /\ UNCHANGED <<stage, binding, document, verified, hashed>>
           ELSE IF d.kind # Reference.kind \/ d.id # DocumentId(d) \/ ~IsContract(d) THEN RejectBundle
           ELSE /\ document' = d /\ binding' = d.files
                /\ Enters("files")
                /\ UNCHANGED <<todo, verified, counts, warnings, hashed>>
    /\ UNCHANGED <<references, bundle, strict, bundleEdits>>

\* _verify_file_binding.
HashFile ==
    /\ stage = "files"
    /\ \E b \in binding :
          IF FileAt(b.uri) # b.sha256 THEN RejectBundle
          ELSE /\ hashed' = hashed \cup {b}
               /\ binding' = binding \ {b}
               /\ UNCHANGED <<stage, todo, document, verified, counts, warnings>>
    /\ UNCHANGED <<references, bundle, strict, bundleEdits>>

\* _record_verified_value.
RecordDocument ==
    /\ stage = "files" /\ binding = {}
    /\ verified' = verified \cup {document}
    /\ Classify(IF document.kind = "tool-native-evidence" THEN "opaque" ELSE "structured", 0)
    /\ document' = NotThere
    /\ Enters("references")
    /\ UNCHANGED <<references, bundle, strict, bundleEdits, binding, hashed>>

-----------------------------------------------------------------------------
(* Links between documents *)

Verified(kind) == {d \in verified : d.kind = kind}

Snapshots == {d.body.snapshot : d \in Verified("snapshot-artifact-manifest")}

\* _verify_backend_links: the tool's own file says the same, and both snapshots
\* are retained.
BackendLinkHolds(c) ==
    /\ \E n \in Verified("tool-native-evidence") :
          /\ n.id = c.body.native
          /\ n.body.tool = c.body.tool /\ n.body.exit_code = c.body.exit_code
          /\ c.body.runners \subseteq n.body.runners
    /\ {c.body.baseline, c.body.candidate} \subseteq Snapshots

\* Mutant: the build a build came from need not be retained.
ProvenanceLinkHolds_AnyParent(p) == p.body.output \in Snapshots /\ p.body.outputs = p.body.output

\* _verify_provenance_links: the output snapshot is retained with the outputs of
\* the build, and so is the build it came from.
ProvenanceLinkHolds(p) ==
    /\ p.body.output \in Snapshots /\ p.body.outputs = p.body.output
    /\ p.body.parent # NotThere => \E q \in Verified("build-provenance") : q.id = p.body.parent

LinksHold ==
    /\ \A c \in Verified("backend-comparison") : BackendLinkHolds(c)
    /\ \A p \in Verified("build-provenance") : ProvenanceLinkHolds(p)

FinishVerification ==
    /\ stage = "references" /\ todo = <<>>
    /\ Enters(IF LinksHold /\ ~(strict /\ warnings > 0) THEN "accepted" ELSE "rejected")
    /\ UNCHANGED <<references, bundle, strict, bundleEdits, progress>>

BundleNext ==
    \/ PublishBundle \/ EditBundle
    \/ CollectReferences \/ SkipReference \/ ReadReference \/ HashFile \/ RecordDocument
    \/ FinishVerification

BundleSpec == BundleInit /\ [][BundleNext]_bundleVars

-----------------------------------------------------------------------------
(* Properties *)

\* The artifacts of a snapshot, each found in a file during this verification.
IsRetained(snapshot) ==
    \A sha \in snapshot : \E h \in hashed : h.sha256 = sha

Parents(p) == {q \in Verified("build-provenance") : q.id = p.body.parent}

\* A build and those it came from, as far as they are retained: what is in every
\* set of retained builds that has it and the parents of its members.
Ancestry(p) ==
    {q \in Verified("build-provenance") :
        \A S \in SUBSET Verified("build-provenance") :
            p \in S /\ (\A m \in S : Parents(m) \subseteq S) => q \in S}

\* What an accepted bundle claims about a backend or a build ends in bytes that
\* this verification read, through every link in between: the file of the tool
\* behind a comparison and all artifacts of both its snapshots, the outputs of a
\* build and of all builds it came from, back to one that came from none.  A
\* document that is recorded too early, or a link that is skipped, leaves a
\* claim without bytes (_verify_file_binding, _verify_backend_links,
\* _verify_provenance_links).
ClaimsEndInBytes ==
    stage = "accepted" =>
        /\ \A c \in Verified("backend-comparison") :
              /\ \E n \in Verified("tool-native-evidence") : n.id = c.body.native /\ n.files \subseteq hashed
              /\ IsRetained(c.body.baseline) /\ IsRetained(c.body.candidate)
        /\ \A p \in Verified("build-provenance") :
              /\ \A q \in Ancestry(p) : IsRetained(q.body.outputs)
              /\ \E q \in Ancestry(p) : q.body.parent = NotThere
=============================================================================
