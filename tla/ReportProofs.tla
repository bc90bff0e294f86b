----------------------------- MODULE ReportProofs -----------------------------
(***************************************************************************)
(* What a reader of results may rely on, for any number of writers,        *)
(* readers, restarts, documents and edits: that a report which verifies    *)
(* was published as it is read, while one that does not met a mixture or   *)
(* a replacement between examining a file and opening it (ReportBundle),   *)
(* that the claims of accepted evidence end in bytes (EvidenceBundle),     *)
(* and what a conformance result certifies (Conformance).                  *)
(***************************************************************************)
EXTENDS ReportBundle, EvidenceBundle, Conformance, TLAPS

-----------------------------------------------------------------------------
(* Writers and readers of one report directory *)

FileNames == ToSet(Names)

Known == Publications \cup Plans \cup Manifests \cup {None, Absent}

Working == {"make_destination", "write", "returned"}

PublicationTypes ==
    /\ files \in [FileNames -> Known]
    /\ pc \in [Writers -> Working \cup {"start", "rejected", "failed", "crashed"}]
    /\ restarts \in [Writers -> Nat]
    /\ publication \in [Writers -> Publications \cup {None}]
    /\ queue \in [Writers -> SUBSET FileNames]
    /\ reading \in [Readers -> {"report", "manifest", "plan", "verified", "warned", "emitted", "rejected"}]
    /\ examined \in [Readers -> {"not", "same", "replaced"}]
    /\ seen \in [Readers -> [report : Known, manifest : Known, plan : Known, emitted : Known]]
    /\ overlapped \in BOOLEAN

\* Only reports that are consistent in themselves are published.
PublishedIsConsistent == published \subseteq {p \in Publications : IsConsistent(p)}

\* A file, once there, is there for good, and is that of some publication.
FilesArePublished ==
    \A name \in FileNames :
        files[name] # Absent =>
            \E p \in published : files[name] = Content(name, p) /\ Content(name, p) # None

\* What a writer no longer has to write is there.
WritersProceed ==
    \A w \in Writers :
        pc[w] \in Working =>
            /\ publication[w] \in published /\ publication[w].run[1] = w
            /\ queue[w] \subseteq FilesOf(publication[w])
            /\ pc[w] = "returned" => queue[w] = {}
            /\ \A name \in FilesOf(publication[w]) \ queue[w] : files[name] # Absent

\* Whoever finds a report finds a manifest if the report refers to one.
ManifestComesFirst ==
    /\ files["mcr-report.json"] # Absent /\ files["mcr-report.json"].manifest # None =>
           files["evidence-manifest.json"] # Absent
    /\ \A r \in Readers :
           reading[r] = "manifest" /\ seen[r].report.manifest # None =>
               files["evidence-manifest.json"] # Absent

\* What a reader has read when it reads on.
ReadersProceed ==
    \A r \in Readers :
        /\ reading[r] \in {"manifest", "plan", "verified", "emitted"} => seen[r].report \in published
        /\ reading[r] = "report" => seen[r].report = None
        /\ reading[r] \in {"report", "manifest"} => seen[r].manifest = None
        /\ reading[r] \in {"report", "manifest", "plan"} => seen[r].plan = None
        /\ reading[r] \in {"plan", "verified", "emitted"} => seen[r].manifest = seen[r].report.manifest
        /\ reading[r] \in {"verified", "emitted"} => seen[r].plan = seen[r].report.plan

\* What a reader has examined, because the report refers to it, is there to be
\* opened, replaced or not.
ExaminedIsThere ==
    \A r \in Readers :
        reading[r] \in DOMAIN FileOf /\ examined[r] # "not" =>
            Refers(r) /\ files[FileOf[reading[r]]] # Absent

\* Without overlap the only writer is the latest, and has what it wrote.
LatestPrevails ==
    ~overlapped =>
        \A w \in Writers :
            /\ pc[w] \in {"make_destination", "write"} => latest = publication[w]
            /\ pc[w] \in Working /\ latest = publication[w] =>
                  \A name \in FilesOf(publication[w]) \ queue[w] :
                      files[name] = Content(name, publication[w])

PublicationInvariant ==
    /\ PublicationTypes /\ PublishedIsConsistent /\ FilesArePublished /\ WritersProceed
    /\ ManifestComesFirst /\ ReadersProceed /\ ExaminedIsThere /\ LatestPrevails /\ RejectionHasCause

LEMMA NamedFiles ==
    /\ FileNames = {"release-plan.json", "evidence-manifest.json", "mcr-report.json",
                    "summary.md", "junit.xml", "results.sarif"}
    /\ \A p : /\ Content("release-plan.json", p) = p.given_plan
              /\ Content("evidence-manifest.json", p) = p.given_manifest
              /\ Content("mcr-report.json", p) = p
    /\ \A name \in FileNames : \A p \in Publications : Content(name, p) \in Known
<1>1. /\ DOMAIN Names = 1 .. 6
      /\ Names[1] = "release-plan.json" /\ Names[2] = "evidence-manifest.json"
      /\ Names[3] = "mcr-report.json" /\ Names[4] = "summary.md"
      /\ Names[5] = "junit.xml" /\ Names[6] = "results.sarif"
  BY DEF Names
<1>2. FileNames = {Names[k] : k \in 1 .. 6}
  BY <1>1 DEF FileNames, ToSet
<1> QED
  BY <1>1, <1>2 DEF Content, Known, Publications

\* The report is written when the manifest is no longer to be written.
LEMMA NextFileIsNext ==
    ASSUME NEW S \in SUBSET FileNames, S # {}
    PROVE  /\ NextFile(S) \in S
           /\ NextFile(S) = "mcr-report.json" => "evidence-manifest.json" \notin S
<1> DEFINE at == {k \in DOMAIN Names : Names[k] \in S}
           k  == Min(at)
<1>1. /\ DOMAIN Names = 1 .. 6
      /\ Names[1] = "release-plan.json" /\ Names[2] = "evidence-manifest.json"
      /\ Names[3] = "mcr-report.json" /\ Names[4] = "summary.md"
      /\ Names[5] = "junit.xml" /\ Names[6] = "results.sarif"
  BY DEF Names
<1>2. at # {} /\ at \subseteq 1 .. 6
  BY <1>1 DEF FileNames, ToSet
<1>3. \E m \in at : \A n \in at : m <= n
  <2>1. CASE 1 \in at
    BY <1>2, <2>1
  <2>2. CASE 1 \notin at /\ 2 \in at
    BY <1>2, <2>2
  <2>3. CASE 1 \notin at /\ 2 \notin at /\ 3 \in at
    BY <1>2, <2>3
  <2>4. CASE 1 \notin at /\ 2 \notin at /\ 3 \notin at /\ 4 \in at
    BY <1>2, <2>4
  <2>5. CASE 1 \notin at /\ 2 \notin at /\ 3 \notin at /\ 4 \notin at
    BY <1>2, <2>5
  <2> QED
    BY <2>1, <2>2, <2>3, <2>4, <2>5
<1>4. k \in at /\ \A n \in at : k <= n
  BY <1>3 DEF Min
<1>5. NextFile(S) = Names[k]
  BY DEF NextFile
<1>6. Names[k] = "mcr-report.json" => k = 3
  BY <1>1, <1>2, <1>4
<1>7. "evidence-manifest.json" \in S => 2 \in at
  BY <1>1
<1> QED
  BY <1>1, <1>4, <1>5, <1>6, <1>7

\* What every step of a writer other than Publish and WriteFile leaves alone.
LEMMA IdleWriterKeepsInvariant ==
    ASSUME PublicationInvariant, NEW w \in Writers, NEW label,
           label \in {"start", "rejected", "failed", "crashed", "write", "returned"},
           label = "write" => pc[w] = "make_destination",
           label = "returned" => pc[w] = "write" /\ queue[w] = {},
           Goto(w, label), restarts' \in [Writers -> Nat],
           UNCHANGED <<files, publication, queue, verifying, history>>
    PROVE  PublicationInvariant'
<1>1. /\ files' = files /\ publication' = publication /\ queue' = queue
      /\ reading' = reading /\ examined' = examined /\ seen' = seen
      /\ published' = published /\ latest' = latest /\ overlapped' = overlapped
      /\ pc' = [pc EXCEPT ![w] = label]
  BY DEF verifying, history, Goto
<1>2. PublicationTypes'
  BY <1>1 DEF PublicationInvariant, PublicationTypes, Working
<1>3. /\ pc'[w] = label
      /\ \A v \in Writers : v # w => pc'[v] = pc[v]
  BY <1>1 DEF PublicationInvariant, PublicationTypes
<1>4. PublishedIsConsistent' /\ FilesArePublished' /\ ManifestComesFirst' /\ ReadersProceed'
         /\ ExaminedIsThere' /\ RejectionHasCause'
  BY <1>1 DEF PublicationInvariant, PublishedIsConsistent, FilesArePublished, ManifestComesFirst,
              ReadersProceed, ExaminedIsThere, Refers, RejectionHasCause
<1>5. \A v \in Writers : /\ pc'[v] \in Working => pc[v] \in Working
                         /\ pc'[v] \in {"make_destination", "write"} =>
                               pc[v] \in {"make_destination", "write"}
  BY <1>3 DEF Working
<1>6. WritersProceed'
  BY <1>1, <1>3, <1>5 DEF PublicationInvariant, WritersProceed
<1>7. LatestPrevails'
  BY <1>1, <1>3, <1>5 DEF PublicationInvariant, LatestPrevails
<1> QED
  BY <1>2, <1>4, <1>6, <1>7 DEF PublicationInvariant

\* A publication has a run of its own, and nothing of it is written yet.
LEMMA PublishKeepsInvariant ==
    ASSUME PublicationInvariant, NEW w \in Writers, Publish(w) PROVE PublicationInvariant'
<1>1. PICK argument \in Arguments[w] :
          LET report == Report(w, argument) IN
          /\ IsConsistent(report)
          /\ publication' = [publication EXCEPT ![w] = report]
          /\ queue' = [queue EXCEPT ![w] = FilesOf(report)]
          /\ published' = published \cup {report}
          /\ latest' = report
  BY DEF Publish
<1> DEFINE report == Report(w, argument)
<1>2. /\ files' = files /\ reading' = reading /\ examined' = examined /\ seen' = seen
      /\ restarts' = restarts
      /\ overlapped' = (overlapped \/ InProgress # {})
      /\ pc' = [pc EXCEPT ![w] = IF destination THEN "write" ELSE "make_destination"]
  BY DEF Publish, verifying, Goto
<1>3. report \in Publications /\ report.run[1] = w
  BY BundleAssumption DEF Report, Publications, PublicationInvariant, PublicationTypes
<1> HIDE DEF report
<1>4. FilesOf(report) \subseteq FileNames
  BY DEF FilesOf, FileNames
<1>5. PublicationTypes'
  BY <1>1, <1>2, <1>3, <1>4 DEF PublicationInvariant, PublicationTypes, Working, report
<1>6. /\ publication'[w] = report /\ queue'[w] = FilesOf(report) /\ pc'[w] \in {"write", "make_destination"}
      /\ published' = published \cup {report} /\ latest' = report
      /\ \A v \in Writers : v # w =>
            publication'[v] = publication[v] /\ queue'[v] = queue[v] /\ pc'[v] = pc[v]
  BY <1>1, <1>2 DEF PublicationInvariant, PublicationTypes, report
<1>7. PublishedIsConsistent' /\ FilesArePublished' /\ ManifestComesFirst' /\ ReadersProceed'
         /\ ExaminedIsThere' /\ RejectionHasCause'
  <2>1. PublishedIsConsistent'
    BY <1>1, <1>3, <1>6 DEF PublicationInvariant, PublishedIsConsistent, report
  <2>2. FilesArePublished'
    BY <1>2, <1>6 DEF PublicationInvariant, FilesArePublished
  <2>3. ManifestComesFirst' /\ ReadersProceed' /\ ExaminedIsThere' /\ RejectionHasCause'
    BY <1>2, <1>6
       DEF PublicationInvariant, ManifestComesFirst, ReadersProceed, ExaminedIsThere, Refers,
           RejectionHasCause
  <2> QED
    BY <2>1, <2>2, <2>3
<1>8. WritersProceed'
  <2> SUFFICES ASSUME NEW v \in Writers, pc'[v] \in Working
               PROVE  /\ publication'[v] \in published' /\ publication'[v].run[1] = v
                      /\ queue'[v] \subseteq FilesOf(publication'[v])
                      /\ pc'[v] = "returned" => queue'[v] = {}
                      /\ \A name \in FilesOf(publication'[v]) \ queue'[v] : files'[name] # Absent
    BY DEF WritersProceed, FilesOf
  <2>1. CASE v = w
    BY <1>3, <1>6, <2>1
  <2>2. CASE v # w
    BY <1>2, <1>6, <2>2 DEF PublicationInvariant, WritersProceed
  <2> QED
    BY <2>1, <2>2
<1>9. LatestPrevails'
  <2> SUFFICES ASSUME ~overlapped', NEW v \in Writers
               PROVE  /\ pc'[v] \in {"make_destination", "write"} => latest' = publication'[v]
                      /\ pc'[v] \in Working /\ latest' = publication'[v] =>
                            \A name \in FilesOf(publication'[v]) \ queue'[v] :
                                files'[name] = Content(name, publication'[v])
    BY DEF LatestPrevails, FilesOf
  <2>1. CASE v = w
    BY <1>6, <2>1
  <2>2. CASE v # w
    <3>1. v \notin InProgress
      BY <1>2
    <3>2. pc'[v] \notin {"make_destination", "write"}
      BY <1>6, <2>2, <3>1 DEF InProgress
    <3>3. pc'[v] \in Working => publication'[v].run[1] = v
      BY <1>6, <2>2 DEF PublicationInvariant, WritersProceed
    <3> QED
      BY <1>3, <1>6, <2>2, <3>2, <3>3
  <2> QED
    BY <2>1, <2>2
<1> QED
  BY <1>5, <1>7, <1>8, <1>9 DEF PublicationInvariant

\* The file that is replaced was due, and the report comes after its manifest.
LEMMA WriteKeepsInvariant ==
    ASSUME PublicationInvariant, NEW w \in Writers, pc[w] = "write", queue[w] # {},
           files' = [files EXCEPT ![NextFile(queue[w])] = Content(NextFile(queue[w]), publication[w])],
           queue' = [queue EXCEPT ![w] = @ \ {NextFile(queue[w])}],
           Overtake(NextFile(queue[w])),
           UNCHANGED <<pc, restarts, publication, history>>
    PROVE  PublicationInvariant'
<1> DEFINE name == NextFile(queue[w])
           report == publication[w]
           content == Content(name, report)
<1>1. /\ reading' = reading /\ seen' = seen /\ published' = published /\ latest' = latest
      /\ overlapped' = overlapped /\ pc' = pc /\ publication' = publication /\ restarts' = restarts
      /\ examined' \in [Readers -> {"not", "same", "replaced"}]
      /\ \A r \in Readers : reading[r] \notin DOMAIN FileOf => examined'[r] = examined[r]
      /\ \A r \in Readers : examined'[r] # "not" => examined[r] # "not"
  BY DEF history, Overtake, HasExamined
<1>2. /\ queue[w] \subseteq FileNames
      /\ name \in queue[w] /\ name \in FileNames
      /\ name = "mcr-report.json" => "evidence-manifest.json" \notin queue[w]
  BY NextFileIsNext DEF PublicationInvariant, PublicationTypes
<1>3. /\ report \in published /\ report \in Publications /\ IsConsistent(report)
      /\ report.run[1] = w
      /\ name \in FilesOf(report) /\ content # None /\ content \in Known
  BY <1>2, NamedFiles
     DEF PublicationInvariant, WritersProceed, Working, PublishedIsConsistent, FilesOf
<1>4. content # Absent
  BY <1>2, <1>3, NamedFiles, BundleAssumption, PublicationAssumption DEF Content, Publications
<1> HIDE DEF name, report, content
<1>5. /\ files' = [files EXCEPT ![name] = content]
      /\ queue' = [queue EXCEPT ![w] = queue[w] \ {name}]
  BY DEF name, report, content
<1>6. PublicationTypes'
  BY <1>1, <1>2, <1>3, <1>5 DEF PublicationInvariant, PublicationTypes
<1>7. /\ files'[name] = content /\ queue'[w] = queue[w] \ {name}
      /\ \A other \in FileNames : other # name => files'[other] = files[other]
      /\ \A v \in Writers : v # w => queue'[v] = queue[v]
      /\ \A other \in FileNames : files[other] # Absent => files'[other] # Absent
  BY <1>2, <1>4, <1>5 DEF PublicationInvariant, PublicationTypes
<1>8. PublishedIsConsistent' /\ ReadersProceed' /\ ExaminedIsThere' /\ RejectionHasCause'
  <2>1. PublishedIsConsistent' /\ ReadersProceed'
    BY <1>1 DEF PublicationInvariant, PublishedIsConsistent, ReadersProceed
  <2>2. \A step \in DOMAIN FileOf : FileOf[step] \in FileNames
    BY NamedFiles DEF FileOf
  <2>3. ExaminedIsThere'
    BY <1>1, <1>7, <2>2 DEF PublicationInvariant, ExaminedIsThere, Refers
  <2>4. "rejected" \notin DOMAIN FileOf
    BY DEF FileOf
  <2>5. RejectionHasCause'
    BY <1>1, <2>4 DEF PublicationInvariant, RejectionHasCause
  <2> QED
    BY <2>1, <2>3, <2>5
<1>9. FilesArePublished'
  <2> SUFFICES ASSUME NEW other \in FileNames, files'[other] # Absent
               PROVE  \E p \in published : files'[other] = Content(other, p) /\ Content(other, p) # None
    BY <1>1 DEF FilesArePublished
  <2>1. CASE other = name
    BY <1>3, <1>7, <2>1 DEF content
  <2>2. CASE other # name
    BY <1>7, <2>2 DEF PublicationInvariant, FilesArePublished
  <2> QED
    BY <2>1, <2>2
<1>10. WritersProceed'
  <2> SUFFICES ASSUME NEW v \in Writers, pc[v] \in Working
               PROVE  /\ publication[v] \in published /\ publication[v].run[1] = v
                      /\ queue'[v] \subseteq FilesOf(publication[v])
                      /\ pc[v] = "returned" => queue'[v] = {}
                      /\ \A other \in FilesOf(publication[v]) \ queue'[v] : files'[other] # Absent
    BY <1>1 DEF WritersProceed, FilesOf
  <2>1. /\ publication[v] \in published /\ publication[v].run[1] = v
        /\ queue[v] \subseteq FilesOf(publication[v])
        /\ pc[v] = "returned" => queue[v] = {}
        /\ \A other \in FilesOf(publication[v]) \ queue[v] : files[other] # Absent
    BY DEF PublicationInvariant, WritersProceed
  <2>2. FilesOf(publication[v]) \subseteq FileNames
    BY DEF FilesOf, FileNames
  <2>3. CASE v = w
    BY <1>4, <1>7, <2>1, <2>2, <2>3
  <2>4. CASE v # w
    BY <1>7, <2>1, <2>2, <2>4
  <2> QED
    BY <2>3, <2>4
<1>11. ManifestComesFirst'
  <2>1. CASE name # "mcr-report.json"
    BY <1>1, <1>7, <2>1, NamedFiles DEF PublicationInvariant, ManifestComesFirst
  <2>2. CASE name = "mcr-report.json"
    <3>1. files'["mcr-report.json"] = report
      BY <1>7, <2>2, NamedFiles DEF content
    <3>2. report.manifest # None => files["evidence-manifest.json"] # Absent
      <4> SUFFICES ASSUME report.manifest # None
                   PROVE  files["evidence-manifest.json"] # Absent
        OBVIOUS
      <4>1. Content("evidence-manifest.json", report) # None
        BY <1>3, NamedFiles DEF IsConsistent
      <4>2. "evidence-manifest.json" \in FilesOf(report) \ queue[w]
        BY <1>2, <2>2, <4>1, NamedFiles DEF FilesOf, FileNames
      <4> QED
        BY <4>2 DEF PublicationInvariant, WritersProceed, Working, report
    <3> QED
      BY <1>1, <1>7, <3>1, <3>2, NamedFiles DEF PublicationInvariant, ManifestComesFirst
  <2> QED
    BY <2>1, <2>2
<1>12. LatestPrevails'
  <2> SUFFICES ASSUME ~overlapped, NEW v \in Writers
               PROVE  /\ pc[v] \in {"make_destination", "write"} => latest = publication[v]
                      /\ pc[v] \in Working /\ latest = publication[v] =>
                            \A other \in FilesOf(publication[v]) \ queue'[v] :
                                files'[other] = Content(other, publication[v])
    BY <1>1 DEF LatestPrevails, FilesOf
  <2>1. /\ pc[v] \in {"make_destination", "write"} => latest = publication[v]
        /\ pc[v] \in Working /\ latest = publication[v] =>
              \A other \in FilesOf(publication[v]) \ queue[v] :
                  files[other] = Content(other, publication[v])
    BY DEF PublicationInvariant, LatestPrevails
  <2>2. latest = report
    BY DEF PublicationInvariant, LatestPrevails, report
  <2>3. CASE v = w
    <3>1. FilesOf(report) \subseteq FileNames
      BY DEF FilesOf, FileNames
    <3> QED
      BY <1>7, <2>1, <2>3, <3>1 DEF report, content
  <2>4. CASE v # w
    <3>1. pc[v] \in Working => publication[v].run[1] = v
      BY DEF PublicationInvariant, WritersProceed
    <3> QED
      BY <1>3, <2>1, <2>2, <2>4, <3>1
  <2> QED
    BY <2>3, <2>4
<1> QED
  BY <1>6, <1>8, <1>9, <1>10, <1>11, <1>12 DEF PublicationInvariant

LEMMA WriterKeepsInvariant ==
    ASSUME PublicationInvariant, NEW w \in Writers, Write(w) PROVE PublicationInvariant'
<1>1. restarts' \in [Writers -> Nat]
  BY DEF Write, Reject, Publish, MakeDestination, WriteFile, Return, Crash, Restart,
         PublicationInvariant, PublicationTypes
<1>2. CASE Reject(w)
  BY <1>1, <1>2, IdleWriterKeepsInvariant DEF Reject
<1>3. CASE Publish(w)
  BY <1>3, PublishKeepsInvariant
<1>4. CASE MakeDestination(w)
  BY <1>1, <1>4, IdleWriterKeepsInvariant DEF MakeDestination
<1>5. CASE WriteFile(w)
  <2>1. CASE Goto(w, "failed") /\ UNCHANGED <<files, queue, verifying>>
    BY <1>1, <1>5, <2>1, IdleWriterKeepsInvariant DEF WriteFile
  <2>2. CASE ~(Goto(w, "failed") /\ UNCHANGED <<files, queue, verifying>>)
    <3>1. /\ pc[w] = "write" /\ queue[w] # {}
          /\ files' = [files EXCEPT ![NextFile(queue[w])] = Content(NextFile(queue[w]), publication[w])]
          /\ queue' = [queue EXCEPT ![w] = @ \ {NextFile(queue[w])}]
          /\ Overtake(NextFile(queue[w]))
          /\ UNCHANGED <<pc, restarts, publication, history>>
      BY <1>5, <2>2 DEF WriteFile
    <3> QED
      BY <3>1, WriteKeepsInvariant
  <2> QED
    BY <2>1, <2>2
<1>6. CASE Return(w)
  BY <1>1, <1>6, IdleWriterKeepsInvariant DEF Return
<1>7. CASE Crash(w)
  BY <1>1, <1>7, IdleWriterKeepsInvariant DEF Crash
<1>8. CASE Restart(w)
  BY <1>1, <1>8, IdleWriterKeepsInvariant DEF Restart
<1> QED
  BY <1>2, <1>3, <1>4, <1>5, <1>6, <1>7, <1>8 DEF Write

\* Which file of which publication a reader can find.
LEMMA WhatIsFound ==
    ASSUME PublicationInvariant
    PROVE  /\ files["mcr-report.json"] # Absent => files["mcr-report.json"] \in published
           /\ files["evidence-manifest.json"] # Absent =>
                 \E p \in published : files["evidence-manifest.json"] = p.manifest
           /\ files["release-plan.json"] # Absent =>
                 \E p \in published : files["release-plan.json"] = p.plan
           /\ \A name \in FileNames : files[name] \in Known
<1>1. \A p \in published :
          /\ p.given_plan # None => p.given_plan = p.plan
          /\ p.given_manifest = p.manifest
  BY DEF PublicationInvariant, PublishedIsConsistent, IsConsistent
<1> QED
  BY <1>1, NamedFiles DEF PublicationInvariant, PublicationTypes, FilesArePublished

\* A step of reader r that takes it to label, with what read and its examination
\* of the next file at mark, and what the invariant asks of them.
ReadsOn(r, label, mark, what) ==
    /\ label \in {"report", "manifest", "plan", "verified", "warned", "emitted", "rejected"}
    /\ mark \in {"not", "same", "replaced"}
    /\ what \in [report : Known, manifest : Known, plan : Known, emitted : Known]
    /\ reading' = [reading EXCEPT ![r] = label]
    /\ examined' = [examined EXCEPT ![r] = mark]
    /\ seen' = [seen EXCEPT ![r] = what]
    /\ UNCHANGED <<writing, history>>
    /\ label \in DOMAIN FileOf /\ mark # "not" =>
           /\ files[FileOf[label]] # Absent
           /\ label # "report" => what.report[label] # None
    /\ label \in {"manifest", "plan", "verified", "emitted"} => what.report \in published
    /\ label = "report" => what.report = None
    /\ label \in {"report", "manifest"} => what.manifest = None
    /\ label = "manifest" /\ what.report.manifest # None => files["evidence-manifest.json"] # Absent
    /\ label \in {"report", "manifest", "plan"} => what.plan = None
    /\ label \in {"plan", "verified", "emitted"} => what.manifest = what.report.manifest
    /\ label \in {"verified", "emitted"} => what.plan = what.report.plan
    /\ label = "rejected" /\ what.report # None =>
           \/ mark = "replaced"
           \/ \E one, other \in published : one.manifest # other.manifest \/ one.plan # other.plan

LEMMA ReaderStep ==
    ASSUME PublicationInvariant, NEW r \in Readers, NEW label, NEW mark, NEW what,
           ReadsOn(r, label, mark, what)
    PROVE  PublicationInvariant'
<1>1. /\ files' = files /\ publication' = publication /\ queue' = queue /\ pc' = pc
      /\ restarts' = restarts
      /\ published' = published /\ latest' = latest /\ overlapped' = overlapped
  BY DEF writing, history, ReadsOn
<1>2. PublicationTypes'
  BY <1>1 DEF PublicationInvariant, PublicationTypes, ReadsOn
<1>3. /\ reading'[r] = label /\ examined'[r] = mark /\ seen'[r] = what
      /\ \A q \in Readers : q # r =>
            reading'[q] = reading[q] /\ examined'[q] = examined[q] /\ seen'[q] = seen[q]
  BY <1>1 DEF PublicationInvariant, PublicationTypes, ReadsOn
<1>4. PublishedIsConsistent' /\ FilesArePublished'
  BY <1>1 DEF PublicationInvariant, PublishedIsConsistent, FilesArePublished
<1>5. WritersProceed' /\ LatestPrevails'
  BY <1>1 DEF PublicationInvariant, WritersProceed, LatestPrevails, FilesOf
<1>6. ManifestComesFirst'
  BY <1>1, <1>3 DEF PublicationInvariant, ManifestComesFirst, ReadsOn
<1>7. ReadersProceed' /\ ExaminedIsThere'
  BY <1>1, <1>3 DEF PublicationInvariant, ReadersProceed, ExaminedIsThere, Refers, ReadsOn
<1>8. RejectionHasCause'
  BY <1>1, <1>3 DEF PublicationInvariant, RejectionHasCause, ReadsOn
<1> QED
  BY <1>2, <1>4, <1>5, <1>6, <1>7, <1>8 DEF PublicationInvariant

LEMMA ReaderTypes ==
    ASSUME PublicationInvariant, NEW r \in Readers
    PROVE  /\ examined[r] \in {"not", "same", "replaced"}
           /\ seen[r] \in [report : Known, manifest : Known, plan : Known, emitted : Known]
           /\ reading = [reading EXCEPT ![r] = reading[r]]
           /\ examined = [examined EXCEPT ![r] = examined[r]]
           /\ seen = [seen EXCEPT ![r] = seen[r]]
BY DEF PublicationInvariant, PublicationTypes

\* A step that reads nothing: it moves on, examines, or gives up.
LEMMA IdleReaderStep ==
    ASSUME PublicationInvariant, NEW r \in Readers, Skip(r) \/ ExamineFile(r) \/ RefuseReplaced(r)
    PROVE  PublicationInvariant'
<1> USE ReaderTypes
<1>1. CASE Skip(r)
  <2>1. /\ reading[r] \in {"manifest", "plan"} /\ seen[r].report[reading[r]] = None
        /\ seen' = seen /\ examined' = examined /\ UNCHANGED <<writing, history>>
    BY <1>1 DEF Skip, Refers
  <2>2. seen[r].report \in published /\ seen[r].plan = None
    BY <2>1 DEF PublicationInvariant, ReadersProceed
  <2>3. seen[r].report \in Publications
    BY <2>2 DEF PublicationInvariant, PublishedIsConsistent
  <2>4. CASE reading[r] = "manifest"
    <3>1. seen[r].manifest = None /\ seen[r].report.manifest = None
      BY <2>1, <2>3, <2>4 DEF PublicationInvariant, ReadersProceed, Publications
    <3>2. reading' = [reading EXCEPT ![r] = "plan"]
      BY <1>1, <2>4 DEF Skip, Proceed
    <3>3. examined[r] = "not"
      BY <1>1, <2>4 DEF Skip, FileOf, PublicationInvariant, ExaminedIsThere
    <3>4. ReadsOn(r, "plan", "not", seen[r])
      BY <2>1, <2>2, <3>1, <3>2, <3>3 DEF ReadsOn
    <3> QED
      BY <3>4, ReaderStep
  <2>5. CASE reading[r] = "plan"
    <3>1. /\ reading' = [reading EXCEPT ![r] = "verified"] /\ seen[r].report.plan = None
          /\ seen[r].manifest = seen[r].report.manifest
      BY <1>1, <2>1, <2>3, <2>5 DEF Skip, Proceed, PublicationInvariant, ReadersProceed, Publications
    <3>2. "verified" \notin DOMAIN FileOf
      BY DEF FileOf
    <3>3. ReadsOn(r, "verified", examined[r], seen[r])
      BY <2>1, <2>2, <3>1, <3>2 DEF ReadsOn
    <3> QED
      BY <3>3, ReaderStep
  <2> QED
    BY <2>1, <2>4, <2>5
<1>2. CASE ExamineFile(r)
  <2> DEFINE file == files[FileOf[reading[r]]]
  <2>1. /\ reading[r] \in DOMAIN FileOf /\ Refers(r) /\ seen' = seen /\ UNCHANGED <<writing, history>>
    BY <1>2 DEF ExamineFile
  <2>2. CASE file # Absent
    <3>1. examined' = [examined EXCEPT ![r] = "same"] /\ reading' = reading
      BY <1>2, <2>2 DEF ExamineFile
    <3>2. reading[r] \in {"report", "manifest", "plan"}
      BY <2>1 DEF FileOf
    <3>3. ReadsOn(r, reading[r], "same", seen[r])
      BY <2>1, <2>2, <3>1, <3>2
         DEF ReadsOn, Refers, PublicationInvariant, ReadersProceed, ManifestComesFirst
    <3> QED
      BY <3>3, ReaderStep
  <2>3. CASE file = Absent /\ reading[r] = "report"
    <3>1. examined' = examined /\ reading' = [reading EXCEPT ![r] = "rejected"]
      BY <1>2, <2>3 DEF ExamineFile, Proceed
    <3>2. seen[r].report = None /\ "rejected" \notin DOMAIN FileOf
      BY <2>3 DEF PublicationInvariant, ReadersProceed, FileOf
    <3>3. ReadsOn(r, "rejected", examined[r], seen[r])
      BY <2>1, <3>1, <3>2 DEF ReadsOn
    <3> QED
      BY <3>3, ReaderStep
  <2>4. CASE file = Absent /\ reading[r] = "manifest"
    <3>1. seen[r].report.manifest # None
      BY <2>1, <2>4 DEF Refers
    <3>2. files["evidence-manifest.json"] = Absent
      BY <2>4 DEF FileOf
    <3> QED
      BY <2>4, <3>1, <3>2 DEF PublicationInvariant, ManifestComesFirst
  <2>5. CASE file = Absent /\ reading[r] = "plan"
    <3>1. examined' = examined /\ reading' = [reading EXCEPT ![r] = "warned"]
      BY <1>2, <2>5 DEF ExamineFile, Proceed
    <3>2. "warned" \notin DOMAIN FileOf
      BY DEF FileOf
    <3>3. ReadsOn(r, "warned", examined[r], seen[r])
      BY <2>1, <3>1, <3>2 DEF ReadsOn
    <3> QED
      BY <3>3, ReaderStep
  <2>6. reading[r] \in {"report", "manifest", "plan"}
    BY <2>1 DEF FileOf
  <2> QED
    BY <2>2, <2>3, <2>4, <2>5, <2>6
<1>3. CASE RefuseReplaced(r)
  <2>1. /\ examined[r] = "replaced" /\ examined' = examined /\ seen' = seen
        /\ reading' = [reading EXCEPT ![r] = "rejected"]
        /\ UNCHANGED <<writing, history>> /\ "rejected" \notin DOMAIN FileOf
    BY <1>3 DEF RefuseReplaced, Proceed, FileOf
  <2>2. ReadsOn(r, "rejected", examined[r], seen[r])
    BY <2>1 DEF ReadsOn
  <2> QED
    BY <2>2, ReaderStep
<1> QED
  BY <1>1, <1>2, <1>3

\* What is opened is there, and is what the report that was read refers to or is
\* of another publication.
LEMMA OpeningKeepsInvariant ==
    ASSUME PublicationInvariant, NEW r \in Readers,
           ReadReport(r) \/ ReadManifest(r) \/ ReadPlan(r)
    PROVE  PublicationInvariant'
<1> DEFINE step   == reading[r]
           file   == files[FileOf[step]]
           report == seen[r].report
           what   == [seen[r] EXCEPT ![step] = file]
           all    == [report : Known, manifest : Known, plan : Known, emitted : Known]
           Differs == \E one, other \in published : one.manifest # other.manifest \/ one.plan # other.plan
<1>1. /\ step \in {"report", "manifest", "plan"} /\ examined[r] = "same"
      /\ seen' = [seen EXCEPT ![r] = what]
      /\ examined' = [examined EXCEPT ![r] = "not"]
      /\ UNCHANGED <<writing, history>>
  BY DEF ReadReport, ReadManifest, ReadPlan, Open, PublicationInvariant, PublicationTypes
<1>2. /\ Refers(r) /\ file # Absent
      /\ FileOf["report"] = "mcr-report.json" /\ FileOf["manifest"] = "evidence-manifest.json"
      /\ FileOf["plan"] = "release-plan.json"
  BY <1>1 DEF FileOf, PublicationInvariant, ExaminedIsThere
<1>3. file \in Known /\ seen[r] \in all
  BY <1>1, <1>2, WhatIsFound, NamedFiles, ReaderTypes
<1>4. CASE ReadReport(r)
  <2>1. step = "report" /\ reading' = [reading EXCEPT ![r] = "manifest"]
    BY <1>4 DEF ReadReport, Open, Proceed
  <2>2. /\ what \in all /\ what.report = files["mcr-report.json"]
        /\ what.manifest = None /\ what.plan = None
    BY <1>2, <1>3, <2>1 DEF PublicationInvariant, ReadersProceed
  <2>3. /\ what.report \in published
        /\ what.report.manifest # None => files["evidence-manifest.json"] # Absent
    BY <1>2, <2>1, <2>2, WhatIsFound DEF PublicationInvariant, ManifestComesFirst
  <2> HIDE DEF what
  <2>4. ReadsOn(r, "manifest", "not", what)
    BY <1>1, <2>1, <2>2, <2>3 DEF ReadsOn
  <2> QED
    BY <2>4, ReaderStep
<1>5. CASE ReadManifest(r)
  <2>1. /\ step = "manifest"
        /\ reading' = [reading EXCEPT ![r] = IF file = report.manifest THEN "plan" ELSE "rejected"]
    BY <1>2, <1>5 DEF ReadManifest, ManifestAgrees, Open, Proceed
  <2>2. /\ what \in all /\ what.report = report /\ what.manifest = file /\ what.plan = None
        /\ report \in published
    BY <1>3, <2>1 DEF PublicationInvariant, ReadersProceed
  <2>3. \E p \in published : file = p.manifest
    BY <1>2, <2>1, WhatIsFound
  <2> HIDE DEF what
  <2>4. CASE file = report.manifest
    <3>1. ReadsOn(r, "plan", "not", what)
      BY <1>1, <2>1, <2>2, <2>4 DEF ReadsOn
    <3> QED
      BY <3>1, ReaderStep
  <2>5. CASE file # report.manifest
    <3>1. ReadsOn(r, "rejected", "not", what)
      BY <1>1, <2>1, <2>2, <2>3, <2>5 DEF ReadsOn
    <3> QED
      BY <3>1, ReaderStep
  <2> QED
    BY <2>4, <2>5
<1>6. CASE ReadPlan(r)
  <2>1. /\ step = "plan"
        /\ reading' = [reading EXCEPT ![r] = IF file = report.plan THEN "verified" ELSE "rejected"]
    BY <1>2, <1>6 DEF ReadPlan, Open, Proceed
  <2>2. /\ what \in all /\ what.report = report /\ what.manifest = report.manifest
        /\ what.plan = file /\ report \in published
    BY <1>3, <2>1 DEF PublicationInvariant, ReadersProceed
  <2>3. \E p \in published : file = p.plan
    BY <1>2, <2>1, WhatIsFound
  <2> HIDE DEF what
  <2>4. CASE file = report.plan
    <3>1. ReadsOn(r, "verified", "not", what)
      BY <1>1, <2>1, <2>2, <2>4 DEF ReadsOn, FileOf
    <3> QED
      BY <3>1, ReaderStep
  <2>5. CASE file # report.plan
    <3>1. ReadsOn(r, "rejected", "not", what)
      BY <1>1, <2>1, <2>2, <2>3, <2>5 DEF ReadsOn
    <3> QED
      BY <3>1, ReaderStep
  <2> QED
    BY <2>4, <2>5
<1> QED
  BY <1>4, <1>5, <1>6

LEMMA ReaderKeepsInvariant ==
    ASSUME PublicationInvariant, NEW r \in Readers, Read(r) PROVE PublicationInvariant'
<1> DEFINE found  == files["mcr-report.json"]
           report == seen[r].report
           what   == [seen[r] EXCEPT !.emitted = found]
<1>1. CASE Emit(r)
  <2>1. /\ reading[r] = "verified" /\ seen' = [seen EXCEPT ![r] = what]
        /\ reading' = [reading EXCEPT ![r] = "emitted"]
        /\ examined' = examined /\ UNCHANGED <<writing, history>>
    BY <1>1 DEF Emit, Proceed, PublicationInvariant, PublicationTypes
  <2>2. found \in Known
    BY WhatIsFound, NamedFiles
  <2>3. /\ what \in [report : Known, manifest : Known, plan : Known, emitted : Known]
        /\ what.report = report /\ what.manifest = seen[r].manifest /\ what.plan = seen[r].plan
    BY <2>2, ReaderTypes
  <2>4. /\ report \in published /\ seen[r].manifest = report.manifest /\ seen[r].plan = report.plan
    BY <2>1 DEF PublicationInvariant, ReadersProceed
  <2>5. "emitted" \notin DOMAIN FileOf
    BY DEF FileOf
  <2> HIDE DEF what
  <2>6. ReadsOn(r, "emitted", examined[r], what)
    BY <2>1, <2>3, <2>4, <2>5, ReaderTypes DEF ReadsOn
  <2> QED
    BY <2>6, ReaderStep
<1> QED
  BY <1>1, IdleReaderStep, OpeningKeepsInvariant DEF Read

LEMMA PublicationInitially == Init => PublicationInvariant
<1> SUFFICES ASSUME Init PROVE PublicationInvariant
  OBVIOUS
<1>1. PublicationTypes
  BY DEF Init, PublicationTypes, FileNames, Known, Working
<1>2. /\ files["mcr-report.json"] = Absent
      /\ \A name \in FileNames : files[name] = Absent
      /\ \A w \in Writers : pc[w] = "start"
      /\ \A r \in Readers :
            /\ reading[r] = "report" /\ examined[r] = "not"
            /\ seen[r].report = None /\ seen[r].manifest = None /\ seen[r].plan = None
      /\ published = {}
  BY NamedFiles DEF Init, FileNames
<1> QED
  BY <1>1, <1>2
     DEF PublicationInvariant, PublishedIsConsistent, FilesArePublished, WritersProceed, Working,
         ManifestComesFirst, ReadersProceed, ExaminedIsThere, LatestPrevails, RejectionHasCause

\* The state of the directory, of its writers and of its readers, for any number
\* of them, any arguments and any number of restarts (write_report_bundle,
\* verify_report_bundle).
THEOREM PublicationInvariance == Spec => []PublicationInvariant
<1>1. PublicationInvariant /\ UNCHANGED vars => PublicationInvariant'
  <2> SUFFICES ASSUME PublicationInvariant, UNCHANGED vars PROVE PublicationInvariant'
    OBVIOUS
  <2>1. /\ files' = files /\ publication' = publication /\ queue' = queue /\ pc' = pc
        /\ restarts' = restarts /\ reading' = reading /\ examined' = examined /\ seen' = seen
        /\ published' = published /\ latest' = latest /\ overlapped' = overlapped
    BY DEF vars, writing, verifying, history
  <2> QED
    BY <2>1 DEF PublicationInvariant, PublicationTypes, PublishedIsConsistent, FilesArePublished,
                WritersProceed, FilesOf, ManifestComesFirst, ReadersProceed, ExaminedIsThere,
                Refers, LatestPrevails, RejectionHasCause
<1>2. PublicationInvariant /\ [Next]_vars => PublicationInvariant'
  BY <1>1, WriterKeepsInvariant, ReaderKeepsInvariant DEF Next
<1> QED
  BY PublicationInitially, <1>2, PTL DEF Spec

\* RejectionHasCause for any number of writers and restarts: a manifest is in
\* place before any report that refers to it, whoever wrote it and died when, so
\* that a reader of the report is turned away by publications that differ or by a
\* replacement under its hands (_verify_manifest, read_verified_file).
THEOREM RejectionIsExplained == Spec => []RejectionHasCause
<1>1. PublicationInvariant => RejectionHasCause
  BY DEF PublicationInvariant
<1> QED
  BY PublicationInvariance, <1>1, PTL

\* VerifiedWasPublished: a report that verifies is one run's, with the manifest
\* that was handed over beside it.
THEOREM VerifiedIsPublished == Spec => []VerifiedWasPublished
<1>1. PublicationInvariant => VerifiedWasPublished
  BY DEF PublicationInvariant, ReadersProceed, PublishedIsConsistent, IsConsistent,
         VerifiedWasPublished
<1> QED
  BY PublicationInvariance, <1>1, PTL

\* RetryReplacesEverything: what a run that did not overlap another returned
\* from is there as a whole.
THEOREM RetryIsComplete == Spec => []RetryReplacesEverything
<1>1. PublicationInvariant => RetryReplacesEverything
  <2> SUFFICES ASSUME PublicationInvariant,
                      NEW w \in Writers, pc[w] = "returned", ~overlapped, latest = publication[w],
                      NEW name \in ToSet(Names), Content(name, publication[w]) # None
               PROVE  files[name] = Content(name, publication[w])
    BY DEF RetryReplacesEverything
  <2>1. queue[w] = {}
    BY DEF PublicationInvariant, WritersProceed, Working
  <2>2. name \in FilesOf(publication[w]) \ queue[w]
    BY <2>1 DEF FilesOf
  <2> QED
    BY <2>2 DEF PublicationInvariant, LatestPrevails, Working
<1> QED
  BY PublicationInvariance, <1>1, PTL

-----------------------------------------------------------------------------
(* The evidence of one bundle *)

\* A document that was read, of whatever kind.
WasAccepted(d) == d \in Documents /\ d.id = DocumentId(d) /\ IsContract(d)

EvidenceInvariant ==
    /\ \A d \in verified : WasAccepted(d) /\ d.files \subseteq hashed
    /\ stage = "files" => WasAccepted(document) /\ document.files \ binding \subseteq hashed
    /\ stage = "accepted" => LinksHold

LEMMA EvidenceInitially == BundleInit => EvidenceInvariant
  BY DEF BundleInit, EvidenceInvariant

\* A step that neither records a document nor hashes a file.
LEMMA OtherStepsKeepEvidence ==
    ASSUME EvidenceInvariant, verified' = verified, hashed' = hashed,
           \/ stage' \notin {"files", "accepted"}
           \/ stage' = stage /\ document' = document /\ binding' = binding
    PROVE  EvidenceInvariant'
  BY DEF EvidenceInvariant, LinksHold, BackendLinkHolds, ProvenanceLinkHolds, Verified, Snapshots,
         WasAccepted, DocumentId, IsContract

LEMMA ReadKeepsEvidence == EvidenceInvariant /\ ReadReference => EvidenceInvariant'
<1> SUFFICES ASSUME EvidenceInvariant, ReadReference PROVE EvidenceInvariant'
  OBVIOUS
<1>1. stage = "references" /\ verified' = verified /\ hashed' = hashed
  BY DEF ReadReference, RejectBundle, progress
<1>2. CASE stage' \in {"references", "rejected"}
  BY <1>1, <1>2, OtherStepsKeepEvidence
<1>3. CASE stage' \notin {"references", "rejected"}
  <2> DEFINE d == FileAt(Reference.path)
  <2>1. /\ stage' = "files" /\ document' = d /\ binding' = d.files
        /\ d \in Documents /\ d.id = DocumentId(d) /\ IsContract(d)
    BY <1>1, <1>3 DEF ReadReference, RejectBundle, Enters
  <2>2. \A e : WasAccepted(e)' <=> WasAccepted(e)
    BY DEF WasAccepted, DocumentId, IsContract
  <2> HIDE DEF d
  <2>3. WasAccepted(d)
    BY <2>1 DEF WasAccepted
  <2> QED
    BY <1>1, <2>1, <2>2, <2>3 DEF EvidenceInvariant, WasAccepted, DocumentId, IsContract
<1> QED
  BY <1>2, <1>3

LEMMA HashKeepsEvidence == EvidenceInvariant /\ HashFile => EvidenceInvariant'
<1> SUFFICES ASSUME EvidenceInvariant, HashFile PROVE EvidenceInvariant'
  OBVIOUS
<1>1. stage = "files" /\ verified' = verified
  BY DEF HashFile, RejectBundle, progress
<1>2. CASE stage' = "rejected" /\ hashed' = hashed
  BY <1>1, <1>2, OtherStepsKeepEvidence
<1>3. CASE ~(stage' = "rejected" /\ hashed' = hashed)
  <2>1. PICK b \in binding :
            /\ hashed' = hashed \cup {b} /\ binding' = binding \ {b}
            /\ stage' = stage /\ document' = document
    BY <1>3 DEF HashFile, RejectBundle, Enters, progress
  <2> QED
    BY <1>1, <2>1 DEF EvidenceInvariant, WasAccepted, DocumentId, IsContract
<1> QED
  BY <1>2, <1>3

\* A document is recorded when nothing it binds is left to hash.
LEMMA RecordKeepsEvidence == EvidenceInvariant /\ RecordDocument => EvidenceInvariant'
<1> SUFFICES ASSUME EvidenceInvariant, RecordDocument PROVE EvidenceInvariant'
  OBVIOUS
<1>1. /\ WasAccepted(document) /\ document.files \subseteq hashed
      /\ verified' = verified \cup {document} /\ hashed' = hashed /\ stage' = "references"
  BY DEF EvidenceInvariant, RecordDocument, Enters
<1> QED
  BY <1>1 DEF EvidenceInvariant, WasAccepted, DocumentId, IsContract

\* The links are about the documents alone.
LEMMA LinksStay == verified' = verified => (LinksHold <=> LinksHold')
<1> SUFFICES ASSUME verified' = verified PROVE LinksHold <=> LinksHold'
  OBVIOUS
<1>1. \A kind : Verified(kind)' = Verified(kind)
  BY DEF Verified
<1>2. Snapshots' = Snapshots
  BY <1>1 DEF Snapshots
<1>3. \A d : /\ BackendLinkHolds(d)' <=> BackendLinkHolds(d)
             /\ ProvenanceLinkHolds(d)' <=> ProvenanceLinkHolds(d)
  BY <1>1, <1>2 DEF BackendLinkHolds, ProvenanceLinkHolds
<1> QED
  BY <1>1, <1>3 DEF LinksHold

LEMMA FinishKeepsEvidence == EvidenceInvariant /\ FinishVerification => EvidenceInvariant'
<1> SUFFICES ASSUME EvidenceInvariant, FinishVerification PROVE EvidenceInvariant'
  OBVIOUS
<1>1. /\ verified' = verified /\ hashed' = hashed /\ stage' \in {"accepted", "rejected"}
      /\ stage' = "accepted" => LinksHold
  BY DEF FinishVerification, Enters, progress
<1>2. LinksHold => LinksHold'
  BY <1>1, LinksStay
<1> QED
  BY <1>1, <1>2 DEF EvidenceInvariant, WasAccepted, DocumentId, IsContract

\* What was recorded of a bundle, for any documents in it and any edits meanwhile.
THEOREM EvidenceInvariance == BundleSpec => []EvidenceInvariant
<1>1. EvidenceInvariant /\ [BundleNext]_bundleVars => EvidenceInvariant'
  <2> SUFFICES ASSUME EvidenceInvariant, [BundleNext]_bundleVars PROVE EvidenceInvariant'
    OBVIOUS
  <2>1. CASE PublishBundle \/ EditBundle
    BY <2>1, OtherStepsKeepEvidence DEF PublishBundle, EditBundle, progress
  <2>2. CASE CollectReferences \/ SkipReference
    BY <2>2, OtherStepsKeepEvidence
       DEF CollectReferences, SkipReference, RejectBundle, Enters, progress
  <2>3. CASE UNCHANGED bundleVars
    BY <2>3, OtherStepsKeepEvidence DEF bundleVars, progress
  <2> QED
    BY <2>1, <2>2, <2>3, ReadKeepsEvidence, HashKeepsEvidence, RecordKeepsEvidence,
       FinishKeepsEvidence DEF BundleNext
<1> QED
  BY EvidenceInitially, <1>1, PTL DEF BundleSpec

\* A snapshot one of the verified manifests is of.
LEMMA SnapshotsAreRetained ==
    ASSUME EvidenceInvariant, NEW s \in Snapshots PROVE IsRetained(s)
<1>1. PICK d \in Verified("snapshot-artifact-manifest") : s = d.body.snapshot
  BY DEF Snapshots
<1>2. {b.sha256 : b \in d.files} = s /\ d.files \subseteq hashed
  BY <1>1 DEF Verified, EvidenceInvariant, WasAccepted, IsContract
<1> QED
  BY <1>2 DEF IsRetained

LEMMA AncestryIsClosed ==
    ASSUME NEW p \in Verified("build-provenance")
    PROVE  /\ p \in Ancestry(p)
           /\ \A q \in Ancestry(p) : Parents(q) \subseteq Ancestry(p)
  BY DEF Ancestry, Parents

\* However far back: the first of the builds that are retained has no parent,
\* because a parent would be retained and come before it.
LEMMA AncestryHasRoot ==
    ASSUME EvidenceInvariant, LinksHold, NEW p \in Verified("build-provenance")
    PROVE  \E q \in Ancestry(p) : q.body.parent = NotThere
<1>1. /\ Ancestry(p) \subseteq Verified("build-provenance")
      /\ Ancestry(p) \in SUBSET GenuineBuilds /\ Ancestry(p) # {}
  BY AncestryIsClosed DEF Ancestry, Verified, EvidenceInvariant, WasAccepted, GenuineBuilds
<1>2. PICK q \in Ancestry(p) : \A m \in Ancestry(p) : m.id # q.body.parent
  BY <1>1, EvidenceAssumption
<1>3. Parents(q) = {}
  BY <1>2, AncestryIsClosed DEF Parents
<1>4. q.body.parent = NotThere
  BY <1>1, <1>3 DEF LinksHold, ProvenanceLinkHolds, Parents
<1> QED
  BY <1>4

\* ClaimsEndInBytes for any documents, any links between them and any edits
\* during the verification (verify_report_bundle).
THEOREM ClaimsHaveBytes == BundleSpec => []ClaimsEndInBytes
<1>1. EvidenceInvariant => ClaimsEndInBytes
  <2> SUFFICES ASSUME EvidenceInvariant, LinksHold PROVE ClaimsEndInBytes
    BY DEF EvidenceInvariant, ClaimsEndInBytes
  <2>1. ASSUME NEW c \in Verified("backend-comparison")
        PROVE  /\ \E n \in Verified("tool-native-evidence") :
                      n.id = c.body.native /\ n.files \subseteq hashed
               /\ IsRetained(c.body.baseline) /\ IsRetained(c.body.candidate)
    <3>1. BackendLinkHolds(c)
      BY DEF LinksHold
    <3>2. \A n \in Verified("tool-native-evidence") : n.files \subseteq hashed
      BY DEF Verified, EvidenceInvariant
    <3> QED
      BY <3>1, <3>2, SnapshotsAreRetained DEF BackendLinkHolds
  <2>2. ASSUME NEW p \in Verified("build-provenance"), NEW q \in Ancestry(p)
        PROVE  IsRetained(q.body.outputs)
    <3>1. ProvenanceLinkHolds(q)
      BY DEF LinksHold, Ancestry
    <3> QED
      BY <3>1, SnapshotsAreRetained DEF ProvenanceLinkHolds
  <2> QED
    BY <2>1, <2>2, AncestryHasRoot DEF ClaimsEndInBytes
<1> QED
  BY EvidenceInvariance, <1>1, PTL

-----------------------------------------------------------------------------
(* Conformance *)

Contents ==
    {Normative(p) : p \in ToSet(Profiles)} \cup {Invalid} \cup {e.content : e \in SuiteEdits}

Phases == {"idle", "verify", "compare", "conformant", "refused"}

ConformanceTypes ==
    /\ suite \in [ToSet(Profiles) \cup ToSet(Negatives) -> Contents]
    /\ examiner \in [pc : Phases, receipt : Receipts \cup {NoReceipt}, done : Nat,
                     identified : Seq(Contents)]

\* One identity per positive vector done, and one more during a comparison.
Progress ==
    /\ examiner.pc = "idle" => examiner.done = 0 /\ examiner.identified = <<>>
    /\ examiner.pc = "verify" =>
          /\ examiner.done <= Len(Profiles) => Len(examiner.identified) = examiner.done
          /\ examiner.done > Len(Profiles) => Len(examiner.identified) = Len(Profiles)
    /\ examiner.pc = "compare" =>
          /\ examiner.done < Len(Profiles)
          /\ Len(examiner.identified) = examiner.done + 1
    /\ examiner.pc = "conformant" => examiner.done >= Len(Profiles)

\* The identities of the vectors that were compared and not exchanged meanwhile.
Established ==
    \A k \in DOMAIN Profiles :
        k <= examiner.done /\ Profiles[k] \notin exchanged
            /\ examiner.pc \in {"verify", "compare", "conformant"} =>
            examiner.identified[k] = Normative(Profiles[k])

\* Between the readings of a vector only an exchange of it changes it.
StillTheSame ==
    LET p == Profiles[examiner.done + 1]
    IN  examiner.pc = "compare" /\ p \notin exchanged =>
            suite[p] = examiner.identified[examiner.done + 1]

\* A consumer's receipt has been compared at the end.
ReceiptAgrees ==
    examiner.pc = "conformant" /\ examiner.receipt # NoReceipt =>
        \A k \in DOMAIN Profiles : examiner.receipt.names[Profiles[k]] = examiner.identified[k]

ConformanceInvariant ==
    ConformanceTypes /\ Progress /\ Established /\ StillTheSame /\ ReceiptAgrees

LEMMA VectorOrder ==
    /\ Len(Profiles) \in Nat /\ DOMAIN Profiles = 1 .. Len(Profiles)
    /\ \A k \in DOMAIN Profiles : (Profiles \o Negatives)[k] = Profiles[k]
    /\ \A k \in DOMAIN Profiles : Profiles[k] \in ToSet(Profiles)
<1>1. Profiles \in Seq(ToSet(Profiles)) /\ Negatives \in Seq(ToSet(Negatives))
  BY ConformanceAssumption
<1>2. Len(Profiles) \in Nat /\ DOMAIN Profiles = 1 .. Len(Profiles)
  BY <1>1
<1>3. \A k \in 1 .. Len(Profiles) : (Profiles \o Negatives)[k] = Profiles[k]
  BY <1>1
<1> QED
  BY <1>1, <1>2, <1>3

\* The suite starts as the producer made it.
LEMMA ConformanceInitially == ConformanceInit => ConformanceInvariant
<1> SUFFICES ASSUME ConformanceInit PROVE ConformanceInvariant
  OBVIOUS
<1>1. /\ suite = [b \in ToSet(Profiles) \cup ToSet(Negatives) |->
                     IF b \in ToSet(Profiles) THEN Normative(b) ELSE Invalid]
      /\ examiner = [pc |-> "idle", receipt |-> NoReceipt, done |-> 0, identified |-> <<>>]
  BY DEF ConformanceInit
<1>2. <<>> \in Seq(Contents)
  OBVIOUS
<1>3. suite \in [ToSet(Profiles) \cup ToSet(Negatives) -> Contents]
  BY <1>1 DEF Contents
<1>4. ConformanceTypes
  BY <1>1, <1>2, <1>3 DEF ConformanceTypes, Phases
<1> QED
  BY <1>1, <1>4 DEF ConformanceInvariant, Progress, Established, StillTheSame, ReceiptAgrees

\* An edit between the readings of a vector is an exchange of it.
LEMMA EditKeepsInvariant == ConformanceInvariant /\ EditSuite => ConformanceInvariant'
<1> SUFFICES ASSUME ConformanceInvariant, EditSuite PROVE ConformanceInvariant'
  OBVIOUS
<1>1. PICK e \in SuiteEdits :
          /\ suite' = [suite EXCEPT ![e.bundle] = e.content]
          /\ exchanged' = IF examiner.pc = "compare" /\ e.bundle = Bundle
                            THEN exchanged \cup {e.bundle} ELSE exchanged
  BY DEF EditSuite
<1>2. UNCHANGED examiner /\ examiner.pc \notin {"conformant", "refused"}
  BY DEF EditSuite
<1>3. ConformanceTypes'
  <2>1. e.content \in Contents
    BY DEF Contents
  <2> QED
    BY <1>1, <1>2, <2>1 DEF ConformanceInvariant, ConformanceTypes
<1>4. exchanged \subseteq exchanged'
  BY <1>1
<1>5. StillTheSame'
  <2> SUFFICES ASSUME examiner.pc = "compare", Profiles[examiner.done + 1] \notin exchanged'
               PROVE  suite'[Profiles[examiner.done + 1]] = examiner.identified[examiner.done + 1]
    BY <1>2 DEF StillTheSame
  <2>1. examiner.done + 1 \in DOMAIN Profiles
    BY VectorOrder DEF ConformanceInvariant, ConformanceTypes, Progress
  <2>2. Bundle = Profiles[examiner.done + 1]
    BY <2>1, VectorOrder DEF Bundle
  <2>3. e.bundle # Profiles[examiner.done + 1]
    BY <1>1, <2>2
  <2>4. suite'[Profiles[examiner.done + 1]] = suite[Profiles[examiner.done + 1]]
    BY <1>1, <2>1, <2>3, VectorOrder DEF ConformanceInvariant, ConformanceTypes
  <2> QED
    BY <1>4, <2>4 DEF ConformanceInvariant, StillTheSame
<1> QED
  BY <1>2, <1>3, <1>4, <1>5
     DEF ConformanceInvariant, Progress, Established, ReceiptAgrees

\* Every refusal, at whatever step.
LEMMA RefusalKeepsInvariant ==
    ASSUME ConformanceInvariant, RefuseSuite, Quietly PROVE ConformanceInvariant'
<1>1. examiner' = [examiner EXCEPT !.pc = "refused"] /\ UNCHANGED <<suite, exchanged>>
  BY DEF RefuseSuite, Quietly
<1>2. ConformanceTypes' /\ examiner'.pc = "refused"
  BY <1>1 DEF ConformanceInvariant, ConformanceTypes, Phases
<1> QED
  BY <1>2 DEF ConformanceInvariant, Progress, Established, StillTheSame, ReceiptAgrees

LEMMA BeginKeepsInvariant == ConformanceInvariant /\ BeginConformance => ConformanceInvariant'
<1> SUFFICES ASSUME ConformanceInvariant, BeginConformance PROVE ConformanceInvariant'
  OBVIOUS
<1>1. PICK r \in Receipts \cup {NoReceipt} :
          examiner' = [examiner EXCEPT
              !.receipt = r,
              !.pc = IF r = NoReceipt THEN "verify" ELSE IF r.idHolds THEN "verify" ELSE "refused"]
  BY DEF BeginConformance
<1>2. examiner.done = 0 /\ examiner.identified = <<>> /\ UNCHANGED <<suite, exchanged>>
  BY DEF BeginConformance, Quietly, ConformanceInvariant, Progress
<1>3. /\ examiner'.pc \in {"verify", "refused"} /\ examiner'.receipt = r
      /\ examiner'.done = 0 /\ examiner'.identified = <<>>
      /\ ConformanceTypes'
  BY <1>1, <1>2 DEF ConformanceInvariant, ConformanceTypes, Phases
<1> QED
  BY <1>3, VectorOrder DEF ConformanceInvariant, Progress, Established, StillTheSame, ReceiptAgrees

\* What a vector is identified by is what it is at that moment.
LEMMA VerifyKeepsInvariant == ConformanceInvariant /\ VerifyProfile => ConformanceInvariant'
<1> SUFFICES ASSUME ConformanceInvariant, VerifyProfile, ~RefuseSuite PROVE ConformanceInvariant'
  BY RefusalKeepsInvariant DEF VerifyProfile
<1> DEFINE report == suite[Bundle]
           n      == examiner.done
<1>1. /\ examiner.pc = "verify" /\ n < Len(Profiles)
      /\ examiner' = [examiner EXCEPT !.pc = "compare", !.identified = Append(@, report)]
      /\ UNCHANGED <<suite, exchanged>>
  BY DEF VerifyProfile, Quietly
<1>2. n \in Nat /\ examiner.identified \in Seq(Contents) /\ Len(examiner.identified) = n
  BY <1>1 DEF ConformanceInvariant, ConformanceTypes, Progress
<1>3. n + 1 \in DOMAIN Profiles /\ Bundle = Profiles[n + 1]
  BY <1>1, <1>2, VectorOrder DEF Bundle
<1>4. report \in Contents
  BY <1>3, VectorOrder DEF ConformanceInvariant, ConformanceTypes
<1> HIDE DEF report
<1>5. /\ Append(examiner.identified, report) \in Seq(Contents)
      /\ Len(Append(examiner.identified, report)) = n + 1
      /\ Append(examiner.identified, report)[n + 1] = report
      /\ \A k \in 1 .. n : Append(examiner.identified, report)[k] = examiner.identified[k]
  BY <1>2, <1>4
<1>6. /\ examiner'.pc = "compare" /\ examiner'.done = n
      /\ examiner'.identified = Append(examiner.identified, report)
      /\ ConformanceTypes'
  BY <1>1, <1>5 DEF ConformanceInvariant, ConformanceTypes, Phases
<1>7. Progress' /\ ReceiptAgrees'
  BY <1>1, <1>5, <1>6 DEF Progress, ReceiptAgrees
<1>8. Established'
  BY <1>1, <1>2, <1>5, <1>6, VectorOrder DEF ConformanceInvariant, Established
<1>9. StillTheSame'
  BY <1>1, <1>3, <1>5, <1>6 DEF StillTheSame, report
<1> QED
  BY <1>6, <1>7, <1>8, <1>9 DEF ConformanceInvariant

\* What was identified is the normative vector if what is compared was not exchanged.
LEMMA CompareKeepsInvariant == ConformanceInvariant /\ CompareProfile => ConformanceInvariant'
<1> SUFFICES ASSUME ConformanceInvariant, CompareProfile, ~RefuseSuite PROVE ConformanceInvariant'
  BY RefusalKeepsInvariant DEF CompareProfile
<1> DEFINE n == examiner.done
<1>1. /\ examiner.pc = "compare" /\ IsNormative(suite[Bundle], Bundle)
      /\ examiner' = [examiner EXCEPT !.pc = "verify", !.done = @ + 1]
      /\ UNCHANGED <<suite, exchanged>>
  BY DEF CompareProfile, Quietly
<1>2. n \in Nat /\ n < Len(Profiles) /\ Len(examiner.identified) = n + 1
  BY <1>1 DEF ConformanceInvariant, ConformanceTypes, Progress
<1>3. n + 1 \in DOMAIN Profiles /\ Bundle = Profiles[n + 1]
  BY <1>2, VectorOrder DEF Bundle
<1>4. /\ examiner'.pc = "verify" /\ examiner'.done = n + 1
      /\ examiner'.identified = examiner.identified
      /\ ConformanceTypes'
  <2>1. examiner' = [examiner EXCEPT !.pc = "verify", !.done = n + 1] /\ n + 1 \in Nat
    BY <1>1, <1>2
  <2> QED
    BY <1>1, <2>1 DEF ConformanceInvariant, ConformanceTypes, Phases
<1>5. Progress' /\ ReceiptAgrees' /\ StillTheSame'
  BY <1>2, <1>4, VectorOrder DEF Progress, ReceiptAgrees, StillTheSame
<1>6. Established'
  <2> SUFFICES ASSUME NEW k \in DOMAIN Profiles, k <= n + 1, Profiles[k] \notin exchanged
               PROVE  examiner.identified[k] = Normative(Profiles[k])
    BY <1>1, <1>4 DEF Established
  <2>1. CASE k <= n
    BY <1>1, <2>1 DEF ConformanceInvariant, Established
  <2>2. CASE k = n + 1
    BY <1>1, <1>3, <2>2 DEF ConformanceInvariant, StillTheSame, IsNormative
  <2> QED
    BY <1>2, <2>1, <2>2, VectorOrder
<1> QED
  BY <1>4, <1>5, <1>6 DEF ConformanceInvariant

\* The negative vectors come after all positive ones.
LEMMA RejectKeepsInvariant == ConformanceInvariant /\ RejectNegative => ConformanceInvariant'
<1> SUFFICES ASSUME ConformanceInvariant, RejectNegative, ~RefuseSuite PROVE ConformanceInvariant'
  BY RefusalKeepsInvariant DEF RejectNegative
<1>1. /\ examiner.pc = "verify" /\ examiner.done >= Len(Profiles)
      /\ examiner' = [examiner EXCEPT !.done = @ + 1]
      /\ UNCHANGED <<suite, exchanged>>
  BY VectorOrder DEF RejectNegative, Quietly
<1>2. /\ examiner'.pc = "verify" /\ examiner'.done = examiner.done + 1 /\ examiner.done \in Nat
      /\ examiner'.identified = examiner.identified
      /\ ConformanceTypes'
  BY <1>1 DEF ConformanceInvariant, ConformanceTypes, Phases
<1>3. Progress' /\ ReceiptAgrees' /\ StillTheSame'
  BY <1>1, <1>2, VectorOrder DEF ConformanceInvariant, Progress, ReceiptAgrees, StillTheSame
<1>4. Established'
  BY <1>1, <1>2, VectorOrder DEF ConformanceInvariant, Established
<1> QED
  BY <1>2, <1>3, <1>4 DEF ConformanceInvariant

LEMMA FinishKeepsInvariant == ConformanceInvariant /\ FinishConformance => ConformanceInvariant'
<1> SUFFICES ASSUME ConformanceInvariant, FinishConformance, ~RefuseSuite PROVE ConformanceInvariant'
  BY RefusalKeepsInvariant DEF FinishConformance
<1>1. /\ examiner.pc = "verify" /\ examiner.done = Len(Profiles) + Len(Negatives)
      /\ examiner' = [examiner EXCEPT !.pc = "conformant"]
      /\ examiner.receipt # NoReceipt =>
            \A k \in DOMAIN Profiles : examiner.receipt.names[Profiles[k]] = examiner.identified[k]
      /\ UNCHANGED <<suite, exchanged>>
  BY DEF FinishConformance, Quietly
<1>2. Len(Negatives) \in Nat
  BY ConformanceAssumption
<1>3. /\ examiner'.pc = "conformant" /\ examiner'.done = examiner.done
      /\ examiner'.identified = examiner.identified /\ examiner'.receipt = examiner.receipt
      /\ ConformanceTypes'
  BY <1>1 DEF ConformanceInvariant, ConformanceTypes, Phases
<1>4. Progress' /\ ReceiptAgrees' /\ StillTheSame'
  BY <1>1, <1>2, <1>3, VectorOrder DEF Progress, ReceiptAgrees, StillTheSame
<1>5. Established'
  BY <1>1, <1>3 DEF ConformanceInvariant, Established
<1> QED
  BY <1>3, <1>4, <1>5 DEF ConformanceInvariant

\* CertifiesNormative for suites of any length: the two readings of each vector
\* amount to one unless the vector is exchanged between them.
THEOREM CertificationIsSound == ConformanceSpec => []CertifiesNormative
<1>1. ConformanceInvariant /\ UNCHANGED conformanceVars => ConformanceInvariant'
  BY DEF conformanceVars, ConformanceInvariant, ConformanceTypes, Progress, Established,
         StillTheSame, ReceiptAgrees
<1>2. ConformanceInvariant /\ [ConformanceNext]_conformanceVars => ConformanceInvariant'
  BY <1>1, EditKeepsInvariant, BeginKeepsInvariant, VerifyKeepsInvariant, CompareKeepsInvariant,
     RejectKeepsInvariant, FinishKeepsInvariant DEF ConformanceNext
<1>3. ConformanceInvariant => CertifiesNormative
  <2> SUFFICES ASSUME ConformanceInvariant, examiner.pc = "conformant",
                      NEW k \in DOMAIN Profiles, Profiles[k] \notin exchanged
               PROVE  /\ examiner.identified[k] = Normative(Profiles[k])
                      /\ examiner.receipt # NoReceipt =>
                            examiner.receipt.names[Profiles[k]] = Normative(Profiles[k])
    BY DEF CertifiesNormative
  <2>1. k <= examiner.done
    BY VectorOrder DEF ConformanceInvariant, ConformanceTypes, Progress
  <2>2. examiner.identified[k] = Normative(Profiles[k])
    BY <2>1 DEF ConformanceInvariant, Established
  <2> QED
    BY <2>2 DEF ConformanceInvariant, ReceiptAgrees
<1> QED
  BY ConformanceInitially, <1>2, <1>3, PTL DEF ConformanceSpec
=============================================================================
