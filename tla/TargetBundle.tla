----------------------------- MODULE TargetBundle -----------------------------
(***************************************************************************)
(* The evidence root of a target execution (merriv/target.py): a manifest  *)
(* that lists and hashes every retained file and binds every report bundle *)
(* below one directory, written by the last phase of                       *)
(* examples/nvidia_tensorrt_vertical/run_vertical.py, which verifies it at *)
(* once, and verified again by the command mcr verify-target.  Others may  *)
(* edit the tree meanwhile, and the writer may die.                        *)
(*                                                                         *)
(* A report bundle is one file here, whose content is the identity of its  *)
(* report; the digest of a file is its content.                            *)
(***************************************************************************)
EXTENDS Naturals, FiniteSets, FiniteSetsExt

CONSTANTS
    EvidencePaths,   \* paths of evidence, in the order they are visited
    Temporaries,     \* names mkstemp may give the manifest's temporary file
    ReportPaths,     \* the paths of report bundles among EvidencePaths
    FileContents,    \* what a file may hold
    ValidReports,    \* the contents that verify strictly as a report bundle
    MaxTreeEdits,    \* bound: edits of the tree
    MaxTargetDeaths, \* bound: deaths of the writer
    Gone             \* no file, no manifest

VARIABLES
    tree,            \* path -> content
    targetManifest,  \* target-evidence-manifest.json: [files, reports]
    auditor,         \* [pc, todo, listed, files, reports, read]
    treeEdits,
    targetDeaths,
    witnessed,            \* history: files that were there since the verification began
    quiet            \* history: no edit since then

targetVars == <<tree, targetManifest, auditor, treeEdits, targetDeaths, witnessed, quiet>>

Paths == EvidencePaths \cup Temporaries

Idle == [pc |-> "idle", todo |-> {}, listed |-> {}, files |-> {}, reports |-> {}, read |-> Gone]

ASSUME TargetAssumption ==
    /\ Paths \subseteq Nat /\ EvidencePaths \cap Temporaries = {} /\ ReportPaths \subseteq EvidencePaths
    /\ ValidReports # {} /\ ValidReports \subseteq FileContents /\ FileContents \ ValidReports # {}
    /\ Gone \notin FileContents
    /\ MaxTreeEdits \in Nat /\ MaxTargetDeaths \in Nat

TargetInit ==
    /\ tree = [p \in Paths |-> IF p \in EvidencePaths THEN CHOOSE c \in ValidReports : TRUE ELSE Gone]
    /\ targetManifest = Gone
    /\ auditor = Idle
    /\ treeEdits = 0 /\ targetDeaths = 0
    /\ witnessed = {} /\ quiet = TRUE

Present == {[path |-> p, content |-> tree[p]] : p \in {p \in Paths : tree[p] # Gone}}

\* A file is written, replaced or removed by somebody else.
EditTree ==
    /\ treeEdits < MaxTreeEdits
    /\ \E p \in EvidencePaths, c \in FileContents \cup {Gone} :
          /\ tree[p] # c
          /\ tree' = [tree EXCEPT ![p] = c]
          /\ witnessed' = witnessed \cup {[path |-> p, content |-> c]}
    /\ treeEdits' = treeEdits + 1
    /\ quiet' = FALSE
    /\ UNCHANGED <<targetManifest, auditor, targetDeaths>>

-----------------------------------------------------------------------------
(* The traversal, shared by writer and verifier (_retained_files) *)

Goes(label) == auditor' = [auditor EXCEPT !.pc = label]

RefuseTarget == auditor' = [Idle EXCEPT !.pc = "refused"]

Observe == UNCHANGED <<tree, targetManifest, treeEdits, targetDeaths, witnessed, quiet>>

\* One entry after another: the list may never have been true as a whole.
VisitEntry ==
    /\ auditor.pc \in {"list", "relist"} /\ auditor.todo # {}
    /\ LET p == Min(auditor.todo)
       IN  auditor' = [auditor EXCEPT !.todo = @ \ {p},
                                      !.listed = IF tree[p] = Gone THEN @ ELSE @ \cup {p}]
    /\ Observe

-----------------------------------------------------------------------------
(* create_target_evidence_manifest and write_target_evidence_manifest *)

BeginManifest ==
    /\ auditor.pc = "idle"
    /\ auditor' = [Idle EXCEPT !.pc = "list", !.todo = Paths]
    /\ Observe

BeginHashing ==
    /\ auditor.pc = "list" /\ auditor.todo = {}
    /\ auditor' = [auditor EXCEPT !.pc = "hash", !.todo = auditor.listed]
    /\ Observe

HashRetained ==
    /\ auditor.pc = "hash" /\ auditor.todo # {}
    /\ LET p == Min(auditor.todo)
       IN  IF tree[p] = Gone THEN RefuseTarget
           ELSE auditor' = [auditor EXCEPT !.todo = @ \ {p},
                                           !.files = @ \cup {[path |-> p, content |-> tree[p]]}]
    /\ Observe

\* A manifest lists at least one file.
BeginBinding ==
    /\ auditor.pc = "hash" /\ auditor.todo = {}
    /\ IF auditor.files = {} THEN RefuseTarget
       ELSE auditor' = [auditor EXCEPT !.pc = "bind", !.todo = ReportPaths]
    /\ Observe

\* verify_report_bundle, strictly, of each build's report.
BindReport ==
    /\ auditor.pc = "bind" /\ auditor.todo # {}
    /\ LET p == Min(auditor.todo)
       IN  IF tree[p] \notin ValidReports THEN RefuseTarget
           ELSE auditor' = [auditor EXCEPT !.todo = @ \ {p},
                                           !.reports = @ \cup {[path |-> p, id |-> tree[p]]}]
    /\ Observe

\* _atomic_write_text: a temporary file in the root itself.
WriteTemporaryManifest ==
    /\ auditor.pc = "bind" /\ auditor.todo = {}
    /\ \E t \in Temporaries :
          /\ tree[t] = Gone
          /\ tree' = [tree EXCEPT ![t] = CHOOSE c \in FileContents : c \notin ValidReports]
          /\ auditor' = [auditor EXCEPT !.pc = "replace", !.todo = {t}]
    /\ UNCHANGED <<targetManifest, treeEdits, targetDeaths, witnessed, quiet>>

\* It is moved over the manifest, or removed when that fails.
ReplaceManifest ==
    /\ auditor.pc = "replace"
    /\ tree' = [p \in Paths |-> IF p \in auditor.todo THEN Gone ELSE tree[p]]
    /\ \/ /\ targetManifest' = [files |-> auditor.files, reports |-> auditor.reports]
          /\ auditor' = Idle
       \/ RefuseTarget /\ UNCHANGED targetManifest
    /\ UNCHANGED <<treeEdits, targetDeaths, witnessed, quiet>>

\* The writer dies, its temporary file stays, and it is started again.
DieBesideTemporary ==
    /\ auditor.pc = "replace" /\ targetDeaths < MaxTargetDeaths
    /\ targetDeaths' = targetDeaths + 1
    /\ auditor' = Idle
    /\ UNCHANGED <<tree, targetManifest, treeEdits, witnessed, quiet>>

-----------------------------------------------------------------------------
(* verify_target_evidence_manifest *)

ReadTargetManifest ==
    /\ auditor.pc = "idle" /\ targetManifest # Gone
    /\ auditor' = [Idle EXCEPT !.pc = "relist", !.todo = Paths, !.read = targetManifest]
    /\ witnessed' = Present /\ quiet' = TRUE
    /\ UNCHANGED <<tree, targetManifest, treeEdits, targetDeaths>>

\* Mutant: a file that is not listed goes unnoticed.
SamePaths_OnlyMissing(actual, declared) == declared \subseteq actual

SamePaths(actual, declared) == actual = declared

ComparePaths ==
    /\ auditor.pc = "relist" /\ auditor.todo = {}
    /\ LET declared == {f.path : f \in auditor.read.files}
       IN  IF SamePaths(auditor.listed, declared)
             THEN auditor' = [auditor EXCEPT !.pc = "rehash", !.todo = declared]
             ELSE RefuseTarget
    /\ Observe

Rehash ==
    /\ auditor.pc = "rehash" /\ auditor.todo # {}
    /\ LET p == Min(auditor.todo)
       IN  IF [path |-> p, content |-> tree[p]] \in auditor.read.files
             THEN auditor' = [auditor EXCEPT !.todo = @ \ {p}]
             ELSE RefuseTarget
    /\ Observe

BeginRechecking ==
    /\ auditor.pc = "rehash" /\ auditor.todo = {}
    /\ auditor' = [auditor EXCEPT !.pc = "recheck", !.todo = {r.path : r \in auditor.read.reports}]
    /\ Observe

RecheckReport ==
    /\ auditor.pc = "recheck" /\ auditor.todo # {}
    /\ LET p == Min(auditor.todo)
       IN  IF tree[p] \in ValidReports /\ [path |-> p, id |-> tree[p]] \in auditor.read.reports
             THEN auditor' = [auditor EXCEPT !.todo = @ \ {p}]
             ELSE RefuseTarget
    /\ Observe

AcceptTarget ==
    /\ auditor.pc = "recheck" /\ auditor.todo = {}
    /\ Goes("accepted")
    /\ Observe

TargetNext ==
    \/ EditTree \/ VisitEntry
    \/ BeginManifest \/ BeginHashing \/ HashRetained \/ BeginBinding \/ BindReport
    \/ WriteTemporaryManifest \/ ReplaceManifest \/ DieBesideTemporary
    \/ ReadTargetManifest \/ ComparePaths \/ Rehash \/ BeginRechecking \/ RecheckReport \/ AcceptTarget

TargetSpec == TargetInit /\ [][TargetNext]_targetVars

-----------------------------------------------------------------------------
(* Properties *)

\* An accepted target root lists nothing that was not there, as listed, at some
\* moment of its verification; and if nobody edited the tree during the
\* verification the list is the tree exactly, nothing more and nothing less, and
\* each report bound to a build is the report among the listed bytes - whatever
\* happened to the tree while the manifest was made, files hashed before an edit
\* and reports verified after it included, and whatever a dead writer left there
\* (target.py: "one root identity covering every retained target evidence byte").
TargetIsExact ==
    auditor.pc = "accepted" =>
        /\ auditor.read.files \subseteq witnessed
        /\ quiet => /\ auditor.read.files = Present
                    /\ \A r \in auditor.read.reports : [path |-> r.path, content |-> r.id] \in Present
=============================================================================
