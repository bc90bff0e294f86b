----------------------------- MODULE ReportBundle -----------------------------
(***************************************************************************)
(* A report directory between those who write it (merriv/reports/io.py,    *)
(* write_report_bundle) and those who read it (reports/verify.py,          *)
(* verify_report_bundle, and _load_strict_mcr of cli.py).  Each file is    *)
(* replaced atomically; a bundle is up to six files, written one after     *)
(* another and read one after another, with no lock.  A writer may die     *)
(* between two files and be started again, with evidence measured anew.    *)
(* A reader examines a file before it opens it and refuses one that was    *)
(* replaced in between (core/identity.py, read_verified_file).             *)
(***************************************************************************)
EXTENDS Naturals, Sequences, SequencesExt

CONSTANTS
    Writers, Readers,
    Plans, Manifests,   \* identifiers, which stand for the contents they digest
    Arguments,          \* what each writer may be called with: see Publications
    MaxRestarts,        \* bound: restarts of each writer
    None, Absent        \* no reference; no file

ASSUME BundleAssumption ==
    /\ \A w \in Writers : Arguments[w] \subseteq
           [plan : Plans \cup {None}, given_plan : Plans \cup {None},
            manifest : Manifests \cup {None}, given_manifest : Manifests \cup {None}]
    /\ MaxRestarts \in [Writers -> Nat]
    /\ None \notin Plans \cup Manifests /\ Absent \notin Plans \cup Manifests \cup {None}

VARIABLES
    destination,   \* whether the directory exists
    files,         \* the content of each file of the bundle
    pc,            \* where each writer is
    restarts,      \* how often each was started again
    publication,   \* the report each writer publishes
    queue,         \* the files it has still to write
    reading,       \* where each reader is
    examined,      \* whether the file it examined last is the one it would open
    seen,          \* what it has read
    published,     \* history: the publications that started
    latest,        \* history: the one that started last
    overlapped     \* history: whether two publications were in progress at once

writing == <<destination, files, pc, restarts, publication, queue>>
history == <<published, latest, overlapped>>
verifying == <<reading, examined, seen>>
vars == <<writing, verifying, history>>

\* In the order write_report_bundle writes them.
Names == <<"release-plan.json", "evidence-manifest.json", "mcr-report.json",
           "summary.md", "junit.xml", "results.sarif">>

\* A report with the references in it: run distinguishes two runs of a writer,
\* given_plan is the plan handed over beside the report.
Publications ==
    [run : Writers \X Nat, plan : Plans \cup {None}, given_plan : Plans \cup {None},
     manifest : Manifests \cup {None}, given_manifest : Manifests \cup {None}]

ASSUME PublicationAssumption == None \notin Publications /\ Absent \notin Publications

Report(w, argument) ==
    [run |-> <<w, restarts[w]>>, plan |-> argument.plan, given_plan |-> argument.given_plan,
     manifest |-> argument.manifest, given_manifest |-> argument.given_manifest]

Content(name, report) ==
    CASE name = "release-plan.json" -> report.given_plan
      [] name = "evidence-manifest.json" -> report.given_manifest
      [] OTHER -> report

Init ==
    /\ destination \in BOOLEAN
    /\ files = [name \in ToSet(Names) |-> Absent]
    /\ pc = [w \in Writers |-> "start"]
    /\ restarts = [w \in Writers |-> 0]
    /\ publication = [w \in Writers |-> None]
    /\ queue = [w \in Writers |-> {}]
    /\ reading = [r \in Readers |-> "report"]
    /\ examined = [r \in Readers |-> "not"]
    /\ seen = [r \in Readers |-> [report |-> None, manifest |-> None, plan |-> None,
                                  emitted |-> None]]
    /\ published = {}
    /\ latest = None
    /\ overlapped = FALSE

-----------------------------------------------------------------------------
(* Writers *)

InProgress == {w \in Writers : pc[w] \in {"make_destination", "write"}}

\* The identities of the plan and of the manifest match the report's references.
IsConsistent(report) ==
    /\ report.given_plan # None => report.given_plan = report.plan
    /\ (report.given_manifest = None) <=> (report.manifest = None)
    /\ report.given_manifest = report.manifest

\* Mutant: a file that exists is not written again.
FilesOf_OnlyMissing(report) ==
    {name \in ToSet(Names) : Content(name, report) # None /\ files[name] = Absent}

FilesOf(report) == {name \in ToSet(Names) : Content(name, report) # None}

\* Mutant: the opposite order, the report before what it refers to.
NextFile_Backwards(names) == Names[Max({k \in DOMAIN Names : Names[k] \in names})]

\* The file that is written next.
NextFile(names) == Names[Min({k \in DOMAIN Names : Names[k] \in names})]

Goto(w, label) == pc' = [pc EXCEPT ![w] = label]

Reject(w) ==
    /\ pc[w] = "start"
    /\ \E argument \in Arguments[w] : ~IsConsistent(argument)
    /\ Goto(w, "rejected")
    /\ UNCHANGED <<destination, files, restarts, publication, queue, verifying, history>>

\* All validation comes before the first file.
Publish(w) ==
    /\ pc[w] = "start"
    /\ \E argument \in Arguments[w] :
          LET report == Report(w, argument) IN
          /\ IsConsistent(report)
          /\ publication' = [publication EXCEPT ![w] = report]
          /\ queue' = [queue EXCEPT ![w] = FilesOf(report)]
          /\ published' = published \cup {report}
          /\ latest' = report
    /\ overlapped' = (overlapped \/ InProgress # {})
    /\ Goto(w, IF destination THEN "write" ELSE "make_destination")
    /\ UNCHANGED <<destination, files, restarts, verifying>>

\* mkdir fails when the directory appeared after the check.
MakeDestination(w) ==
    /\ pc[w] = "make_destination"
    /\ destination' = TRUE
    /\ Goto(w, IF destination THEN "failed" ELSE "write")
    /\ UNCHANGED <<files, restarts, publication, queue, verifying, history>>

\* The file a reader opens next.
FileOf == [report |-> "mcr-report.json", manifest |-> "evidence-manifest.json",
           plan |-> "release-plan.json"]

HasExamined(r, name) ==
    examined[r] # "not" /\ reading[r] \in DOMAIN FileOf /\ FileOf[reading[r]] = name

\* A file has another inode than the one it replaces, which goes free with it:
\* only a further replacement may take its number.
Overtake(name) ==
    /\ examined' \in [Readers -> {"not", "same", "replaced"}]
    /\ \A r \in Readers :
          IF HasExamined(r, name)
            THEN examined'[r] \in (IF examined[r] = "same" THEN {"replaced"} ELSE {"same", "replaced"})
            ELSE examined'[r] = examined[r]
    /\ UNCHANGED <<reading, seen>>

\* The next file, through a temporary one: it is replaced as a whole or, after
\* an exception, not at all, and then the bundle is left as it is.
WriteFile(w) ==
    /\ pc[w] = "write" /\ queue[w] # {}
    /\ LET name == NextFile(queue[w])
       IN  \/ /\ files' = [files EXCEPT ![name] = Content(name, publication[w])]
              /\ queue' = [queue EXCEPT ![w] = @ \ {name}]
              /\ Overtake(name)
              /\ UNCHANGED pc
           \/ /\ Goto(w, "failed")
              /\ UNCHANGED <<files, queue, verifying>>
    /\ UNCHANGED <<destination, restarts, publication, history>>

Return(w) ==
    /\ pc[w] = "write" /\ queue[w] = {}
    /\ Goto(w, "returned")
    /\ UNCHANGED <<destination, files, restarts, publication, queue, verifying, history>>

Crash(w) ==
    /\ pc[w] \in {"start", "make_destination", "write"}
    /\ restarts[w] < MaxRestarts[w]
    /\ Goto(w, "crashed")
    /\ UNCHANGED <<destination, files, restarts, publication, queue, verifying, history>>

\* The command is run again, after it died or failed.
Restart(w) ==
    /\ pc[w] \in {"crashed", "failed"} /\ restarts[w] < MaxRestarts[w]
    /\ Goto(w, "start")
    /\ restarts' = [restarts EXCEPT ![w] = @ + 1]
    /\ UNCHANGED <<destination, files, publication, queue, verifying, history>>

-----------------------------------------------------------------------------
(* Readers *)

Proceed(r, label) == reading' = [reading EXCEPT ![r] = label]

\* Whether the file that is due has to be there: the report has, the others when
\* the report refers to them.
Refers(r) == reading[r] # "report" => seen[r].report[reading[r]] # None

Skip(r) ==
    /\ reading[r] \in {"manifest", "plan"} /\ ~Refers(r)
    /\ Proceed(r, IF reading[r] = "manifest" THEN "plan" ELSE "verified")
    /\ UNCHANGED <<writing, examined, seen, history>>

\* lstat.  A report or a manifest that is not there is an error, a plan that is
\* not there a warning, which --strict rejects.
ExamineFile(r) ==
    /\ reading[r] \in DOMAIN FileOf /\ examined[r] = "not" /\ Refers(r)
    /\ IF files[FileOf[reading[r]]] # Absent
         THEN examined' = [examined EXCEPT ![r] = "same"] /\ UNCHANGED reading
         ELSE /\ Proceed(r, IF reading[r] = "plan" THEN "warned" ELSE "rejected")
              /\ UNCHANGED examined
    /\ UNCHANGED <<writing, seen, history>>

\* "artifact changed while being opened".
RefuseReplaced(r) ==
    /\ reading[r] \in DOMAIN FileOf /\ examined[r] = "replaced"
    /\ Proceed(r, "rejected")
    /\ UNCHANGED <<writing, examined, seen, history>>

\* What is open is read as it was when it was opened: a replacement has an inode
\* of its own.
Open(r, step, next) ==
    /\ reading[r] = step /\ examined[r] = "same"
    /\ seen' = [seen EXCEPT ![r][step] = files[FileOf[step]]]
    /\ examined' = [examined EXCEPT ![r] = "not"]
    /\ Proceed(r, next)
    /\ UNCHANGED <<writing, history>>

ReadReport(r) == Open(r, "report", "manifest")

\* Mutant: the manifest's identity is not compared with the reference.
ManifestAgrees_Any(report, manifest) == manifest # Absent

ManifestAgrees(report, manifest) == manifest = report.manifest

\* The manifest and the plan must be those the report refers to.
ReadManifest(r) ==
    Open(r, "manifest",
         IF ManifestAgrees(seen[r].report, files["evidence-manifest.json"]) THEN "plan" ELSE "rejected")

ReadPlan(r) ==
    Open(r, "plan", IF files["release-plan.json"] = seen[r].report.plan THEN "verified" ELSE "rejected")

\* _load_strict_mcr reads the report of a bundle that verified a second time.
Emit(r) ==
    /\ reading[r] = "verified"
    /\ seen' = [seen EXCEPT ![r].emitted = files["mcr-report.json"]]
    /\ Proceed(r, "emitted")
    /\ UNCHANGED <<writing, examined, history>>

-----------------------------------------------------------------------------
Write(w) ==
    \/ Reject(w) \/ Publish(w) \/ MakeDestination(w) \/ WriteFile(w) \/ Return(w)
    \/ Crash(w) \/ Restart(w)

Read(r) ==
    \/ Skip(r) \/ ExamineFile(r) \/ RefuseReplaced(r)
    \/ ReadReport(r) \/ ReadManifest(r) \/ ReadPlan(r) \/ Emit(r)

Next == (\E w \in Writers : Write(w)) \/ (\E r \in Readers : Read(r))

Spec == Init /\ [][Next]_vars

-----------------------------------------------------------------------------
(* Properties *)

\* The writer puts what a report refers to in place before the report.  Whoever
\* has read a report and then rejects it met a mixture of publications that really
\* differ in manifest or plan, or a file was replaced after it had examined it and
\* before it opened it.  Retries and concurrent writers of the same evidence make a
\* report unverifiable in that moment only.
RejectionHasCause ==
    \A r \in Readers :
        (reading[r] = "rejected" /\ seen[r].report # None) =>
            \/ examined[r] = "replaced"
            \/ \E one, other \in published :
                   one.manifest # other.manifest \/ one.plan # other.plan

\* A report that verifies was published, by one run, together with the very
\* manifest and plan the reader read, however many runs wrote meanwhile.
VerifiedWasPublished ==
    \A r \in Readers :
        reading[r] \in {"verified", "emitted"} =>
            /\ seen[r].report \in published
            /\ seen[r].manifest = seen[r].report.given_manifest
            /\ seen[r].plan = seen[r].report.plan

\* When runs do not overlap, one that returns has replaced everything an earlier
\* one left, complete or not: a retry repairs what a crash interrupted.
RetryReplacesEverything ==
    \A w \in Writers :
        (pc[w] = "returned" /\ ~overlapped /\ latest = publication[w]) =>
            \A name \in ToSet(Names) :
                \/ Content(name, publication[w]) = None
                \/ files[name] = Content(name, publication[w])

-----------------------------------------------------------------------------
\* SECURITY.md: report bundles verify content identities "before atomically
\* publishing the Model Change Report and its evidence manifest".
ReportAndManifestTogether ==
    LET report == files["mcr-report.json"]
    IN  (report # Absent /\ report.manifest # None) =>
            files["evidence-manifest.json"] = report.manifest

\* docs/supply-chain-interop.md: "The Statement command verifies the local MCR
\* bundle strictly before emitting".
EmittedIsVerified ==
    \A r \in Readers : reading[r] = "emitted" => seen[r].emitted = seen[r].report
=============================================================================
