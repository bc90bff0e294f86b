------------------------------ MODULE FileProofs ------------------------------
(***************************************************************************)
(* What stands on disk, and what is read from there, while others write:   *)
(* one file read while it changes, an OCI layout written by several        *)
(* processes that may die, and an evidence root verified while its tree is *)
(* edited.                                                                 *)
(***************************************************************************)
EXTENDS VerifiedFile, OciLayout, TargetBundle,
        SequenceTheorems, FiniteSetTheorems, WellFoundedInduction, TLAPS

-----------------------------------------------------------------------------
(* Reading one file (VerifiedFile): it is atomic up to the resolution of its *)
(* times, for files of every size and edits of every number and extent.      *)

Version == [data : Seq(Chunks), mtime : Nat]

Labels == {"idle", "open", "stat", "read", "done", "refused"}

FileTypes ==
    /\ clock \in Nat
    /\ path \in [inode : Inodes, link : BOOLEAN]
    /\ inodes \in [Inodes -> Version]
    /\ handle \in [pc : Labels, inode : Inodes, opened : Version, got : Seq(Chunks)]

\* The file was written in the tick in which it had last been modified when it
\* was opened.
WrittenInItsTick ==
    \E v \in versions : v.mtime = handle.opened.mtime /\ v.data # handle.opened.data

\* Times only advance; and a file that still has its time, and was not written in
\* that tick, is the one that was opened, of which a part has been read.
ReadingInv ==
    LET now == inodes[handle.inode]
    IN  handle.pc = "read" =>
            /\ handle.opened.mtime <= now.mtime
            /\ now.mtime = handle.opened.mtime /\ ~WrittenInItsTick =>
                  /\ now.data = handle.opened.data
                  /\ Len(handle.got) <= Len(now.data)
                  /\ \A k \in 1 .. Len(handle.got) : handle.got[k] = now.data[k]

NothingReadYet == handle.pc \in {"idle", "open", "stat"} => handle.got = <<>>

FileInvariant ==
    /\ FileTypes
    /\ NothingReadYet
    /\ \A i \in Inodes : inodes[i].mtime <= clock
    /\ ReadingInv
    /\ ReadIsOneVersion

\* What an edit leaves is a sequence of chunks.
LEMMA ContentsAreSequences ==
    ASSUME NEW data \in BoundedSeq(Chunks, MaxSize) PROVE data \in Seq(Chunks)
<1>1. PICK m \in 0 .. MaxSize : data \in [1 .. m -> Chunks]
  BY DEF BoundedSeq, SeqOf
<1>2. m \in Nat
  BY FileAssumption
<1> QED
  BY <1>1, <1>2

LEMMA EmptyContent == <<>> \in Seq(Chunks)
OBVIOUS

\* Nothing is being read at first.
LEMMA FileInitially == FileInit => FileInvariant
<1> SUFFICES ASSUME FileInit PROVE FileInvariant
  OBVIOUS
<1>1. AnInode \in Inodes /\ AChunk \in Chunks
  BY FileAssumption DEF AnInode, AChunk
<1>2. <<AChunk, AChunk>> \in Seq(Chunks) /\ <<>> \in Seq(Chunks)
  BY <1>1
<1>3. inodes \in [Inodes -> Version] /\ \A i \in Inodes : inodes[i].mtime = 0
  BY <1>2 DEF FileInit, Version
<1>4. FileTypes
  <2>1. path = [inode |-> AnInode, link |-> FALSE] /\ clock = 0
           /\ handle = [pc |-> "idle", inode |-> AnInode, opened |-> inodes[AnInode], got |-> <<>>]
    BY DEF FileInit
  <2>2. inodes[AnInode] \in Version
    BY <1>1, <1>3
  <2> QED
    BY <1>1, <1>2, <1>3, <2>1, <2>2 DEF FileTypes, Labels
<1> QED
  BY <1>3, <1>4 DEF FileInit, FileInvariant, NothingReadYet, ReadingInv, ReadIsOneVersion

\* A step outside the reading: no file changes, and nothing is read or done.
LEMMA StepOutsideReading ==
    ASSUME FileInvariant, FileTypes', NothingReadYet', UNCHANGED <<inodes, clock>>,
           handle'.pc \notin {"read", "done"}
    PROVE  FileInvariant'
BY DEF FileInvariant, ReadingInv, ReadIsOneVersion

\* A write into the file being read is later than its opening, or in its tick.
LEMMA WriteKeepsInvariant == FileInvariant /\ WriteInPlace => FileInvariant'
<1> SUFFICES ASSUME FileInvariant, WriteInPlace PROVE FileInvariant'
  OBVIOUS
<1>1. PICK i \in Inodes, data \in BoundedSeq(Chunks, MaxSize) :
          /\ data # inodes[i].data
          /\ inodes' = [inodes EXCEPT ![i] = [data |-> data, mtime |-> clock]]
          /\ versions' = IF handle.pc = "read" /\ i = handle.inode
                           THEN versions \cup {[data |-> data, mtime |-> clock]}
                           ELSE versions
  BY DEF WriteInPlace
<1>2. UNCHANGED <<path, clock, handle>> /\ handle.pc # "done"
  BY DEF WriteInPlace, CanEdit
<1>3. [data |-> data, mtime |-> clock] \in Version
  BY ContentsAreSequences DEF Version, FileInvariant, FileTypes, Labels
<1>4. FileTypes' /\ NothingReadYet' /\ \A j \in Inodes : inodes'[j].mtime <= clock'
  BY <1>1, <1>2, <1>3 DEF FileInvariant, FileTypes, Labels, Version, NothingReadYet
<1>5. ReadingInv'
  <2> SUFFICES ASSUME handle.pc = "read"
               PROVE  ReadingInv'
    BY <1>2 DEF ReadingInv
  <2>1. CASE i = handle.inode
    <3>1. inodes'[handle'.inode] = [data |-> data, mtime |-> clock]
      BY <1>1, <1>2, <2>1 DEF FileInvariant, FileTypes, Labels
    <3>2. handle.opened.mtime <= clock /\ inodes[i].mtime <= clock
             /\ handle.opened.mtime <= inodes[i].mtime
             /\ inodes[i].mtime \in Nat /\ clock \in Nat /\ handle.opened.mtime \in Nat
      BY <2>1 DEF FileInvariant, FileTypes, Labels, Version, ReadingInv
    <3>3. clock = handle.opened.mtime => WrittenInItsTick'
      <4> SUFFICES ASSUME clock = handle.opened.mtime PROVE WrittenInItsTick'
        OBVIOUS
      <4>1. inodes[i].mtime = handle.opened.mtime
        BY <3>2
      <4>2. CASE WrittenInItsTick
        BY <1>1, <1>2, <4>2 DEF WrittenInItsTick
      <4>3. CASE ~WrittenInItsTick
        <5>1. inodes[i].data = handle.opened.data
          BY <2>1, <4>1, <4>3 DEF FileInvariant, ReadingInv
        <5>2. [data |-> data, mtime |-> clock] \in versions' /\ data # handle.opened.data
          BY <1>1, <2>1, <5>1
        <5> QED
          BY <1>2, <5>2 DEF WrittenInItsTick
      <4> QED
        BY <4>2, <4>3
    <3> QED
      BY <1>2, <3>1, <3>2, <3>3 DEF ReadingInv
  <2>2. CASE i # handle.inode
    <3>1. inodes'[handle.inode] = inodes[handle.inode] /\ versions' = versions
      BY <1>1, <2>2 DEF FileInvariant, FileTypes, Labels
    <3> QED
      BY <1>2, <3>1 DEF FileInvariant, ReadingInv, WrittenInItsTick
  <2> QED
    BY <2>1, <2>2
<1>6. ReadIsOneVersion'
  BY <1>2 DEF ReadIsOneVersion
<1> QED
  BY <1>4, <1>5, <1>6 DEF FileInvariant

\* What is compared once more is the file as it is at that moment.
LEMMA StatKeepsInvariant == FileInvariant /\ StatOpened => FileInvariant'
<1> SUFFICES ASSUME FileInvariant, StatOpened PROVE FileInvariant'
  OBVIOUS
<1>1. handle' = [handle EXCEPT !.pc = "read", !.opened = inodes[handle.inode]]
         /\ handle.got = <<>> /\ UNCHANGED <<path, inodes, clock>>
  BY DEF StatOpened, FileInvariant, NothingReadYet
<1>2. FileTypes' /\ NothingReadYet'
  <2>1. inodes[handle.inode] \in Version /\ handle'.pc = "read"
    BY <1>1 DEF FileInvariant, FileTypes, Labels
  <2>2. handle' \in [pc : Labels, inode : Inodes, opened : Version, got : Seq(Chunks)]
    BY <1>1, <2>1 DEF FileInvariant, FileTypes, Labels
  <2> QED
    BY <1>1, <2>1, <2>2 DEF FileInvariant, FileTypes, Labels, NothingReadYet
<1>3. ReadingInv'
  BY <1>1 DEF FileInvariant, FileTypes, Labels, Version, ReadingInv
<1> QED
  BY <1>1, <1>2, <1>3 DEF FileInvariant, ReadIsOneVersion

\* A chunk is read from the file as it is now.
LEMMA ReadKeepsInvariant == FileInvariant /\ ReadChunk => FileInvariant'
<1> SUFFICES ASSUME FileInvariant, ReadChunk PROVE FileInvariant'
  OBVIOUS
<1> DEFINE data == inodes[handle.inode].data
           k    == Len(handle.got) + 1
<1>1. /\ handle.pc = "read" /\ k <= Len(data)
      /\ UNCHANGED <<path, inodes, clock, versions>>
      /\ IF k > MaxBytes THEN Refuse ELSE handle' = [handle EXCEPT !.got = Append(@, data[k])]
  BY DEF ReadChunk
<1>2. handle.got \in Seq(Chunks) /\ data \in Seq(Chunks)
  BY DEF FileInvariant, FileTypes, Labels, Version
<1>3. CASE k > MaxBytes
  <2>1. handle' = [handle EXCEPT !.pc = "refused", !.got = <<>>]
    BY <1>1, <1>3 DEF Refuse
  <2>2. handle' \in [pc : Labels, inode : Inodes, opened : Version, got : Seq(Chunks)]
    BY <2>1, EmptyContent DEF FileInvariant, FileTypes, Labels
  <2>3. FileTypes' /\ NothingReadYet' /\ handle'.pc = "refused"
    BY <1>1, <2>1, <2>2 DEF FileInvariant, FileTypes, NothingReadYet
  <2> QED
    BY <1>1, <2>3, StepOutsideReading
<1>4. CASE ~(k > MaxBytes)
  <2>1. handle' = [handle EXCEPT !.got = Append(@, data[k])]
    BY <1>1, <1>4
  <2>2. data[k] \in Chunks
    BY <1>1, <1>2
  <2>3. FileTypes' /\ NothingReadYet'
    <3>1. Append(handle.got, data[k]) \in Seq(Chunks)
      BY <1>2, <2>2
    <3>2. handle' \in [pc : Labels, inode : Inodes, opened : Version, got : Seq(Chunks)]
             /\ handle'.pc = "read"
      <4> HIDE DEF data, k
      <4> QED
        BY <1>1, <2>1, <3>1 DEF FileInvariant, FileTypes
    <3> QED
      BY <1>1, <3>2 DEF FileInvariant, FileTypes, NothingReadYet
  <2>4. /\ handle'.opened = handle.opened /\ handle'.inode = handle.inode /\ handle'.pc = "read"
        /\ handle'.got = Append(handle.got, data[k])
    BY <1>1, <2>1 DEF FileInvariant, FileTypes, Labels
  <2>5. /\ Len(handle'.got) = k
        /\ \A j \in 1 .. k : handle'.got[j] = IF j = k THEN data[k] ELSE handle.got[j]
    BY <1>2, <2>4
  <2>6. ReadingInv'
    BY <1>1, <1>2, <2>4, <2>5 DEF FileInvariant, ReadingInv, WrittenInItsTick
  <2> QED
    BY <1>1, <2>3, <2>4, <2>6 DEF FileInvariant, ReadIsOneVersion
<1> QED
  BY <1>3, <1>4

\* Two sequences of one length that agree everywhere are the same.
LEMMA SameSequence ==
    ASSUME NEW s \in Seq(Chunks), NEW t \in Seq(Chunks), Len(s) = Len(t),
           \A k \in 1 .. Len(s) : s[k] = t[k]
    PROVE  s = t
OBVIOUS

\* What is accepted has the size and the time it was opened with.
LEMMA FinishKeepsInvariant == FileInvariant /\ FinishReading => FileInvariant'
<1> SUFFICES ASSUME FileInvariant, FinishReading PROVE FileInvariant'
  OBVIOUS
<1> DEFINE now == inodes[handle.inode]
<1>1. handle.pc = "read" /\ UNCHANGED <<path, inodes, clock, versions>>
  BY DEF FinishReading
<1>2. CASE handle' = [handle EXCEPT !.pc = "refused", !.got = <<>>]
  <2>1. handle' \in [pc : Labels, inode : Inodes, opened : Version, got : Seq(Chunks)]
    BY <1>2, EmptyContent DEF FileInvariant, FileTypes, Labels
  <2>2. FileTypes' /\ NothingReadYet' /\ handle'.pc = "refused"
    BY <1>1, <1>2, <2>1 DEF FileInvariant, FileTypes, NothingReadYet
  <2> QED
    BY <1>1, <2>2, StepOutsideReading
<1>3. CASE handle' = [handle EXCEPT !.pc = "done"] /\ IsUnchanged(handle.opened, now, handle.got)
  <2>1. FileTypes' /\ NothingReadYet'
    BY <1>1, <1>3 DEF FileInvariant, FileTypes, Labels, NothingReadYet
  <2>2. /\ handle'.opened = handle.opened /\ handle'.inode = handle.inode
        /\ handle'.pc = "done" /\ handle'.got = handle.got
    BY <1>3 DEF FileInvariant, FileTypes, Labels
  <2>3. /\ Len(handle.opened.data) = Len(now.data) /\ handle.opened.mtime = now.mtime
        /\ Len(handle.got) = Len(now.data)
    BY <1>3 DEF IsUnchanged
  <2>4. ASSUME WrittenInItsTick PROVE ReadIsOneVersion'
    BY <1>1, <2>2, <2>3, <2>4 DEF ReadIsOneVersion, IsUnnoticeable, WrittenInItsTick
  <2>5. ASSUME ~WrittenInItsTick PROVE ReadIsOneVersion'
    <3>1. /\ now.data = handle.opened.data
          /\ \A k \in 1 .. Len(handle.got) : handle.got[k] = now.data[k]
      BY <1>1, <2>3, <2>5 DEF FileInvariant, ReadingInv
    <3>2. handle.got \in Seq(Chunks) /\ now.data \in Seq(Chunks)
      BY DEF FileInvariant, FileTypes, Labels, Version
    <3>3. handle.got = now.data
      BY <2>3, <3>1, <3>2, SameSequence
    <3> QED
      BY <1>1, <2>2, <3>1, <3>3 DEF ReadIsOneVersion
  <2>6. ReadIsOneVersion'
    BY <2>4, <2>5
  <2>7. ReadingInv'
    BY <2>2 DEF ReadingInv
  <2> QED
    BY <1>1, <2>1, <2>6, <2>7 DEF FileInvariant
<1> QED
  BY <1>2, <1>3 DEF FinishReading, Refuse

\* The clock, the name of the file, and the steps before it is read.
LEMMA OtherFileSteps ==
    FileInvariant /\ (Tick \/ ReplacePath \/ Examine \/ OpenFile \/ UNCHANGED fileVars) => FileInvariant'
<1> SUFFICES ASSUME FileInvariant PROVE
        Tick \/ ReplacePath \/ Examine \/ OpenFile \/ UNCHANGED fileVars => FileInvariant'
  OBVIOUS
<1>1. ASSUME Tick PROVE FileInvariant'
  <2>1. clock' = clock + 1 /\ UNCHANGED <<path, inodes, handle, versions>>
    BY <1>1 DEF Tick
  <2>2. FileTypes' /\ NothingReadYet'
    BY <2>1 DEF FileInvariant, FileTypes, Labels, NothingReadYet
  <2>3. \A i \in Inodes : inodes'[i].mtime <= clock'
    BY <2>1 DEF FileInvariant, FileTypes, Labels, Version
  <2>4. ReadingInv' /\ ReadIsOneVersion'
    BY <2>1 DEF FileInvariant, ReadingInv, WrittenInItsTick, ReadIsOneVersion, IsUnnoticeable
  <2> QED
    BY <2>2, <2>3, <2>4 DEF FileInvariant
<1>2. ASSUME ReplacePath PROVE FileInvariant'
  BY <1>2 DEF ReplacePath, FileInvariant, FileTypes, Labels, NothingReadYet, ReadingInv, WrittenInItsTick,
              ReadIsOneVersion, IsUnnoticeable
<1>3. ASSUME Examine PROVE FileInvariant'
  <2>1. /\ handle.pc = "idle" /\ handle.got = <<>>
        /\ UNCHANGED <<path, inodes, clock>>
        /\ handle' \in {[handle EXCEPT !.pc = "refused", !.got = <<>>],
                         [handle EXCEPT !.pc = "open", !.inode = path.inode]}
    BY <1>3 DEF Examine, Refuse, FileInvariant, NothingReadYet
  <2>2. FileTypes' /\ NothingReadYet' /\ handle'.pc \in {"refused", "open"}
    BY <2>1 DEF FileInvariant, FileTypes, Labels, NothingReadYet
  <2> QED
    BY <2>1, <2>2, StepOutsideReading
<1>4. ASSUME OpenFile PROVE FileInvariant'
  <2>1. /\ handle.pc = "open" /\ handle.got = <<>>
        /\ UNCHANGED <<path, inodes, clock>>
        /\ handle' \in {[handle EXCEPT !.pc = "refused", !.got = <<>>], [handle EXCEPT !.pc = "stat"]}
    BY <1>4 DEF OpenFile, Refuse, FileInvariant, NothingReadYet
  <2>2. FileTypes' /\ NothingReadYet' /\ handle'.pc \in {"refused", "stat"}
    BY <2>1 DEF FileInvariant, FileTypes, Labels, NothingReadYet
  <2> QED
    BY <2>1, <2>2, StepOutsideReading
<1>5. ASSUME UNCHANGED fileVars PROVE FileInvariant'
  BY <1>5 DEF fileVars, FileInvariant, FileTypes, Labels, NothingReadYet, ReadingInv, WrittenInItsTick,
              ReadIsOneVersion, IsUnnoticeable
<1> QED
  BY <1>1, <1>2, <1>3, <1>4, <1>5

\* ReadIsOneVersion for files of any size and any number of edits: an accepted
\* read returns what the file held when it was opened, unless a write fell into
\* the tick whose time is compared.
THEOREM ReadingIsAtomic == FileSpec => []ReadIsOneVersion
<1>1. FileInvariant /\ [FileNext]_fileVars => FileInvariant'
  BY WriteKeepsInvariant, StatKeepsInvariant, ReadKeepsInvariant, FinishKeepsInvariant,
     OtherFileSteps DEF FileNext
<1>2. FileInvariant => ReadIsOneVersion
  BY DEF FileInvariant
<1> QED
  BY FileInitially, <1>1, <1>2, PTL DEF FileSpec

-----------------------------------------------------------------------------
(* The OCI layout (OciLayout) at every moment, for any number of reports,    *)
(* writers that overlap, and deaths.                                         *)

Blobs == {BlobsOf(r)[k] : r \in LayoutReports, k \in 1 .. 3}

WriterTypes ==
    writer \in [LayoutWriters -> [pc : {"idle", "look", "open", "fill", "returned", "refused"},
                                  report : LayoutReports \cup {NoFile}, step : 1 .. 5]]

DiskTypes == disk \in [Files -> {NoFile, Torn} \cup {StepOf(r, k).data : r \in LayoutReports, k \in 1 .. 5}]

IsWorking(w) == writer[w].pc \in {"look", "open", "fill"}

WorksOnReport == \A w \in LayoutWriters : IsWorking(w) => writer[w].report \in LayoutReports

IsOpenForWriting(f) == \E w \in LayoutWriters : writer[w].pc = "fill" /\ Current(w).file = f

\* The file named b holds the blob b, or it is being written or was lost.
Safe(b) == disk[b] = b \/ IsOpenForWriting(b) \/ b \in lost

BlobsAreWhole == \A b \in Blobs : disk[b] \in {NoFile, Torn, b}

TornIsExplained == \A b \in Blobs : disk[b] = Torn => IsOpenForWriting(b) \/ b \in lost

OpenedExists == \A w \in LayoutWriters : writer[w].pc = "fill" => disk[Current(w).file] # NoFile

\* b is one of the blobs of a report that are written before step n.
IsBlobBefore(b, report, n) == \E k \in 1 .. 3 : k < n /\ b = BlobsOf(report)[k]

\* A writer leaves behind what it has passed.
WritesInOrder ==
    \A w \in LayoutWriters : IsWorking(w) =>
        \A b \in Blobs : IsBlobBefore(b, writer[w].report, writer[w].step) => Safe(b)

IndexAfterBlobs ==
    \A r \in LayoutReports : disk[Index] = IndexOf(r) =>
        \A b \in Blobs : IsBlobBefore(b, r, 4) => Safe(b)

LayoutInvariant ==
    /\ WriterTypes /\ DiskTypes /\ WorksOnReport
    /\ BlobsAreWhole /\ TornIsExplained /\ OpenedExists
    /\ WritesInOrder /\ IndexAfterBlobs

LEMMA BlobList ==
    ASSUME NEW r
    PROVE  /\ DOMAIN BlobsOf(r) = 1 .. 3
           /\ BlobsOf(r)[1] = EmptyConfig /\ BlobsOf(r)[2] = StatementOf(r)
           /\ BlobsOf(r)[3] = ManifestOf(r)
BY DEF BlobsOf

LEMMA ThreeAndTwo ==
    ASSUME NEW S, NEW s \in Seq(S), NEW t \in Seq(S), Len(s) = 3, Len(t) = 2
    PROVE  /\ \A k \in 1 .. 3 : (s \o t)[k] = s[k]
           /\ (s \o t)[4] = t[1] /\ (s \o t)[5] = t[2]
<1> DEFINE u == s \o t
<1>1. \A i \in 1 .. Len(s) + Len(t) : u[i] = IF i <= Len(s) THEN s[i] ELSE t[i - Len(s)]
  BY ConcatProperties
<1> HIDE DEF u
<1>2. \A i \in 1 .. 5 : u[i] = IF i <= 3 THEN s[i] ELSE t[i - 3]
  BY <1>1
<1>3. u[4] = t[1] /\ u[5] = t[2] /\ \A k \in 1 .. 3 : u[k] = s[k]
  BY <1>2
<1> QED
  BY <1>3 DEF u

LEMMA StepList ==
    ASSUME NEW r
    PROVE  /\ \A k \in 1 .. 3 : StepOf(r, k).file = BlobsOf(r)[k] /\ StepOf(r, k).data = BlobsOf(r)[k]
           /\ StepOf(r, 4).file = Index /\ StepOf(r, 4).data = IndexOf(r)
           /\ StepOf(r, 5).file = Marker /\ StepOf(r, 5).data = Marker
<1> DEFINE first == [k \in 1 .. 3 |-> [file |-> Digest(BlobsOf(r)[k]), data |-> BlobsOf(r)[k]]]
           last  == <<[file |-> Index, data |-> IndexOf(r)], [file |-> Marker, data |-> Marker]>>
           all   == {first[k] : k \in 1 .. 3} \cup {last[k] : k \in 1 .. 2}
<1>1. first \in Seq(all) /\ Len(first) = 3
  OBVIOUS
<1>2. last \in Seq(all) /\ Len(last) = 2
         /\ last[1] = [file |-> Index, data |-> IndexOf(r)] /\ last[2] = [file |-> Marker, data |-> Marker]
  OBVIOUS
<1>3. \A k \in 1 .. 3 : first[k].file = BlobsOf(r)[k] /\ first[k].data = BlobsOf(r)[k]
  BY DEF Digest
<1>4. Steps(r) = first \o last
  BY DEF Steps
<1> HIDE DEF first, last, all
<1>5. /\ \A k \in 1 .. 3 : (first \o last)[k] = first[k]
      /\ (first \o last)[4] = last[1] /\ (first \o last)[5] = last[2]
  BY <1>1, <1>2, ThreeAndTwo
<1>6. \A k \in 1 .. 3 : StepOf(r, k) = first[k]
  BY <1>4, <1>5 DEF StepOf
<1>7. StepOf(r, 4) = last[1] /\ StepOf(r, 5) = last[2]
  BY <1>4, <1>5 DEF StepOf
<1> QED
  BY <1>2, <1>3, <1>6, <1>7

\* The names of the five files differ, and marks are no contents.
LEMMA NamesDiffer ==
    /\ Index \notin Blobs /\ Marker \notin Blobs /\ Index # Marker
    /\ NoFile \notin Blobs /\ Torn \notin Blobs
    /\ \A r \in LayoutReports : Torn # IndexOf(r) /\ NoFile # IndexOf(r)
    /\ \A r, s \in LayoutReports : IndexOf(r) = IndexOf(s) => r = s
<1>1. \A r \in LayoutReports : \A k \in 1 .. 3 :
          BlobsOf(r)[k] \in {EmptyConfig, StatementOf(r), ManifestOf(r)}
  BY BlobList
<1>2. \A r \in LayoutReports :
          /\ Index \notin {EmptyConfig, StatementOf(r), ManifestOf(r)}
          /\ Marker \notin {EmptyConfig, StatementOf(r), ManifestOf(r)}
  BY DEF Index, Marker, EmptyConfig, StatementOf, ManifestOf
<1>3. Index # Marker /\ \A r, s \in LayoutReports : IndexOf(r) = IndexOf(s) => r = s
  BY DEF Index, Marker, IndexOf
<1>4. \A r \in LayoutReports :
          {NoFile, Torn} \cap {EmptyConfig, StatementOf(r), ManifestOf(r), IndexOf(r)} = {}
  BY LayoutAssumption
<1>5. \A b \in Blobs : b # Index /\ b # Marker /\ b # NoFile /\ b # Torn
  <2> TAKE b \in Blobs
  <2>1. PICK r \in LayoutReports : b \in {EmptyConfig, StatementOf(r), ManifestOf(r)}
    BY <1>1 DEF Blobs
  <2> QED
    BY <1>2, <1>4, <2>1
<1> QED
  BY <1>3, <1>4, <1>5

\* Every file of a report is one of the destination.
LEMMA FilesOfReports ==
    /\ \A r \in LayoutReports, k \in 1 .. 5 : StepOf(r, k).file \in Files
    /\ \A r \in LayoutReports, k \in 1 .. 3 : BlobsOf(r)[k] \in Blobs
    /\ Blobs \subseteq Files
<1>1. \A r \in LayoutReports, k \in 1 .. 5 : StepOf(r, k).file \in Files
  BY DEF Files, StepOf
<1>2. \A r \in LayoutReports, k \in 1 .. 3 : BlobsOf(r)[k] \in Files
  <2> TAKE r \in LayoutReports, k \in 1 .. 3
  <2>1. StepOf(r, k).file = BlobsOf(r)[k]
    BY StepList
  <2> QED
    BY <1>1, <2>1
<1> QED
  BY <1>1, <1>2 DEF Blobs

\* The five things a working writer may be at.
LEMMA CurrentStep ==
    ASSUME LayoutInvariant, NEW w \in LayoutWriters, IsWorking(w)
    PROVE  /\ writer[w].report \in LayoutReports /\ Current(w).file \in Files
           /\ Current(w) = StepOf(writer[w].report, writer[w].step)
           /\ \/ /\ writer[w].step \in 1 .. 3 /\ Current(w).file \in Blobs
                 /\ Current(w).file = BlobsOf(writer[w].report)[writer[w].step]
                 /\ Current(w).data = Current(w).file
              \/ /\ writer[w].step = 4 /\ Current(w).file = Index
                 /\ Current(w).data = IndexOf(writer[w].report)
              \/ /\ writer[w].step = 5 /\ Current(w).file = Marker /\ Current(w).data = Marker
<1>1. writer[w].report \in LayoutReports /\ writer[w].step \in 1 .. 5
  BY DEF LayoutInvariant, WorksOnReport, WriterTypes
<1>2. Current(w) = StepOf(writer[w].report, writer[w].step)
  BY DEF Current
<1>3. CASE writer[w].step \in 1 .. 3
  BY <1>1, <1>2, <1>3, StepList, FilesOfReports
<1>4. CASE writer[w].step = 4
  BY <1>1, <1>2, <1>4, StepList, FilesOfReports
<1>5. CASE writer[w].step = 5
  BY <1>1, <1>2, <1>5, StepList, FilesOfReports
<1> QED
  BY <1>1, <1>3, <1>4, <1>5

\* An empty destination.
LEMMA LayoutInitially == LayoutInit => LayoutInvariant
<1> SUFFICES ASSUME LayoutInit PROVE LayoutInvariant
  OBVIOUS
<1>1. WriterTypes /\ \A w \in LayoutWriters : writer[w].pc = "idle"
  BY DEF LayoutInit, WriterTypes
<1>2. \A f \in Files : disk[f] = NoFile
  BY DEF LayoutInit
<1>3. DiskTypes
  BY DEF LayoutInit, DiskTypes
<1>4. BlobsAreWhole /\ TornIsExplained
  BY <1>2, FilesOfReports, LayoutAssumption DEF BlobsAreWhole, TornIsExplained
<1>5. WorksOnReport /\ OpenedExists /\ WritesInOrder
  BY <1>1 DEF WorksOnReport, OpenedExists, WritesInOrder, IsWorking
<1>6. IndexAfterBlobs
  <2> SUFFICES ASSUME NEW r \in LayoutReports, disk[Index] = IndexOf(r) PROVE FALSE
    BY DEF IndexAfterBlobs
  <2>1. Index \in Files
    BY StepList, FilesOfReports
  <2> QED
    BY <1>2, <2>1, NamesDiffer
<1> QED
  BY <1>1, <1>3, <1>4, <1>5, <1>6 DEF LayoutInvariant

\* A writer that opens nothing, and is at the same step as before or at none: no
\* file changes.
LEMMA QuietLayoutStep ==
    ASSUME LayoutInvariant, NEW w \in LayoutWriters, NEW label,
           label \in {"idle", "look", "open", "returned", "refused"},
           writer[w].pc # "fill",
           \/ writer' = [writer EXCEPT ![w].pc = label] /\ (IsWorking(w) \/ label \notin {"look", "open"})
           \/ \E r \in LayoutReports :
                 label = "look" /\ writer' = [writer EXCEPT ![w] = [pc |-> label, report |-> r, step |-> 1]],
           UNCHANGED <<disk, lost>>
    PROVE  LayoutInvariant'
<1>1. WriterTypes'
  BY DEF LayoutInvariant, WriterTypes
<1>2. \A v \in LayoutWriters : v # w => writer'[v] = writer[v]
  BY DEF LayoutInvariant, WriterTypes
<1>3. writer'[w].pc = label
  BY DEF LayoutInvariant, WriterTypes
<1>4. \A f : IsOpenForWriting(f) <=> IsOpenForWriting(f)'
  BY <1>2, <1>3 DEF IsOpenForWriting, Current
<1>5. \A b : Safe(b) <=> Safe(b)'
  BY <1>4 DEF Safe
<1>6. \/ writer'[w].report = writer[w].report /\ writer'[w].step = writer[w].step
         /\ (IsWorking(w)' => IsWorking(w))
      \/ writer'[w].report \in LayoutReports /\ writer'[w].step = 1
  BY <1>3 DEF LayoutInvariant, WriterTypes, IsWorking
<1>7. WorksOnReport'
  BY <1>2, <1>6 DEF LayoutInvariant, WorksOnReport, IsWorking
<1>8. WritesInOrder'
  <2> SUFFICES ASSUME NEW v \in LayoutWriters, IsWorking(v)', NEW b \in Blobs,
                      IsBlobBefore(b, writer'[v].report, writer'[v].step)
               PROVE  Safe(b)'
    BY DEF WritesInOrder, IsBlobBefore
  <2>1. writer'[v].step # 1
    BY DEF IsBlobBefore
  <2>2. IsWorking(v) /\ writer'[v].report = writer[v].report /\ writer'[v].step = writer[v].step
    BY <1>2, <1>6, <2>1 DEF IsWorking
  <2> QED
    BY <1>5, <2>2 DEF LayoutInvariant, WritesInOrder
<1>9. OpenedExists'
  BY <1>2, <1>3 DEF LayoutInvariant, OpenedExists, Current
<1>10. DiskTypes' /\ BlobsAreWhole' /\ TornIsExplained' /\ IndexAfterBlobs'
  BY <1>4, <1>5 DEF LayoutInvariant, DiskTypes, BlobsAreWhole, TornIsExplained, IndexAfterBlobs,
                    IsBlobBefore
<1> QED
  BY <1>1, <1>7, <1>8, <1>9, <1>10 DEF LayoutInvariant

\* A file that is opened is truncated, and open.
LEMMA OpenKeepsInvariant ==
    ASSUME LayoutInvariant, NEW w \in LayoutWriters, OpenForWriting(w) PROVE LayoutInvariant'
<1> DEFINE f == Current(w).file
<1>1. /\ writer[w].pc = "open" /\ writer' = [writer EXCEPT ![w].pc = "fill"]
      /\ disk' = [disk EXCEPT ![f] = Torn] /\ lost' = lost
  BY DEF OpenForWriting, Becomes
<1>2. IsWorking(w) /\ f \in Files
  BY <1>1, CurrentStep DEF IsWorking
<1> HIDE DEF f
<1>3. WriterTypes' /\ DiskTypes'
  BY <1>1, <1>2 DEF LayoutInvariant, WriterTypes, DiskTypes
<1>4. /\ \A v \in LayoutWriters : v # w => writer'[v] = writer[v]
      /\ writer'[w].pc = "fill" /\ writer'[w].report = writer[w].report
      /\ writer'[w].step = writer[w].step
  BY <1>1 DEF LayoutInvariant, WriterTypes
<1>5. \A v \in LayoutWriters : Current(v)' = Current(v)
  BY <1>4 DEF Current
<1>6. \A b : IsOpenForWriting(b)' <=> IsOpenForWriting(b) \/ b = f
  BY <1>1, <1>4, <1>5 DEF IsOpenForWriting, f
<1>7. \A b \in Files : disk'[b] = IF b = f THEN Torn ELSE disk[b]
  BY <1>1 DEF LayoutInvariant, DiskTypes
<1>8. \A b \in Blobs : Safe(b) => Safe(b)'
  BY <1>1, <1>6, <1>7, FilesOfReports DEF Safe
<1>9. \A v \in LayoutWriters : IsWorking(v)' <=> IsWorking(v)
  BY <1>1, <1>4 DEF IsWorking
<1>10. WorksOnReport'
  BY <1>4, <1>9 DEF LayoutInvariant, WorksOnReport
<1>11. BlobsAreWhole' /\ TornIsExplained'
  BY <1>1, <1>6, <1>7, FilesOfReports DEF LayoutInvariant, BlobsAreWhole, TornIsExplained
<1>12. OpenedExists'
  <2> SUFFICES ASSUME NEW v \in LayoutWriters, writer'[v].pc = "fill" PROVE disk'[Current(v).file] # NoFile
    BY <1>5 DEF OpenedExists
  <2>1. CASE Current(v).file = f
    BY <1>2, <1>7, <2>1, LayoutAssumption
  <2>2. CASE Current(v).file # f
    <3>1. v # w /\ writer[v].pc = "fill"
      BY <1>4, <2>2 DEF f
    <3>2. Current(v).file \in Files
      BY <3>1, CurrentStep DEF IsWorking
    <3> QED
      BY <1>7, <2>2, <3>1, <3>2 DEF LayoutInvariant, OpenedExists
  <2> QED
    BY <2>1, <2>2
<1>13. WritesInOrder'
  BY <1>4, <1>8, <1>9 DEF LayoutInvariant, WritesInOrder, IsBlobBefore
<1>14. IndexAfterBlobs'
  <2> SUFFICES ASSUME NEW r \in LayoutReports, disk'[Index] = IndexOf(r)
               PROVE  \A b \in Blobs : IsBlobBefore(b, r, 4) => Safe(b)'
    BY DEF IndexAfterBlobs, IsBlobBefore
  <2>1. Index \in Files
    BY StepList, FilesOfReports
  <2>2. disk[Index] = IndexOf(r)
    BY <1>7, <2>1, NamesDiffer
  <2> QED
    BY <1>8, <2>2 DEF LayoutInvariant, IndexAfterBlobs
<1> QED
  BY <1>3, <1>10, <1>11, <1>12, <1>13, <1>14 DEF LayoutInvariant

\* What is filled in is whole if it is a blob, and an index only after its blobs.
LEMMA FillKeepsInvariant ==
    ASSUME LayoutInvariant, NEW w \in LayoutWriters, FillFile(w) PROVE LayoutInvariant'
<1> DEFINE f    == Current(w).file
           data == Current(w).data
<1>1. writer[w].pc = "fill" /\ lost' = lost \ {f}
  BY DEF FillFile
<1>2. PICK left \in {data, Torn} :
          /\ disk' = [disk EXCEPT ![f] = left]
          /\ disk[f] \in {Torn, data} => left = data
  BY DEF FillFile
<1>3. /\ writer[w].step = 5 => writer' = [writer EXCEPT ![w].pc = "returned", ![w].step = 5]
      /\ writer[w].step # 5 => writer' = [writer EXCEPT ![w].pc = "look", ![w].step = writer[w].step + 1]
  BY DEF FillFile, LayoutInvariant, WriterTypes
<1>4. IsWorking(w) /\ f \in Files /\ writer[w].step \in 1 .. 5 /\ writer[w].report \in LayoutReports
         /\ Current(w) = StepOf(writer[w].report, writer[w].step)
  BY <1>1, CurrentStep DEF IsWorking, LayoutInvariant, WriterTypes
<1>5. f \in Blobs => data = f /\ left = f
  <2> SUFFICES ASSUME f \in Blobs PROVE data = f /\ left = f
    OBVIOUS
  <2>1. data = f
    BY <1>4, CurrentStep, NamesDiffer
  <2>2. disk[f] \in {Torn, data}
    BY <1>1, <2>1 DEF LayoutInvariant, BlobsAreWhole, OpenedExists
  <2> QED
    BY <1>2, <2>1, <2>2
<1>6. /\ f \notin Blobs /\ f # Index => f = Marker
      /\ f = Index => writer[w].step = 4 /\ data = IndexOf(writer[w].report)
      /\ f \in Blobs => writer[w].step \in 1 .. 3 /\ f = BlobsOf(writer[w].report)[writer[w].step]
  BY <1>4, CurrentStep, NamesDiffer
<1>7. DiskTypes'
  BY <1>2, <1>4 DEF LayoutInvariant, DiskTypes
<1> HIDE DEF f, data
<1>8. /\ \A v \in LayoutWriters : v # w => writer'[v] = writer[v]
      /\ writer'[w].report = writer[w].report
      /\ writer'[w].pc = IF writer[w].step = 5 THEN "returned" ELSE "look"
      /\ writer'[w].step = IF writer[w].step = 5 THEN 5 ELSE writer[w].step + 1
  BY <1>3 DEF LayoutInvariant, WriterTypes
<1>9. WriterTypes'
  <2>1. writer[w].step + 1 \in 1 .. 5 \/ writer[w].step = 5
    BY <1>4
  <2> QED
    BY <1>3, <2>1 DEF LayoutInvariant, WriterTypes
<1>10. \A b \in Files : disk'[b] = IF b = f THEN left ELSE disk[b]
  BY <1>2 DEF LayoutInvariant, DiskTypes
<1>11. \A v \in LayoutWriters : v # w => Current(v)' = Current(v)
  BY <1>8 DEF Current
<1>12. \A b : b # f => (IsOpenForWriting(b)' <=> IsOpenForWriting(b))
  BY <1>1, <1>8, <1>11 DEF IsOpenForWriting, f
<1>13. \A b \in Blobs : Safe(b) \/ b = f => Safe(b)'
  BY <1>1, <1>5, <1>10, <1>12, FilesOfReports DEF Safe
<1>14. WorksOnReport'
  BY <1>4, <1>8 DEF LayoutInvariant, WorksOnReport, IsWorking
<1>15. BlobsAreWhole' /\ TornIsExplained'
  <2> SUFFICES ASSUME NEW b \in Blobs
               PROVE  /\ disk'[b] \in {NoFile, Torn, b}
                      /\ disk'[b] = Torn => IsOpenForWriting(b)' \/ b \in lost'
    BY DEF BlobsAreWhole, TornIsExplained
  <2>1. CASE b = f
    BY <1>5, <1>10, <2>1, FilesOfReports, NamesDiffer
  <2>2. CASE b # f
    BY <1>1, <1>10, <1>12, <2>2, FilesOfReports DEF LayoutInvariant, BlobsAreWhole, TornIsExplained
  <2> QED
    BY <2>1, <2>2
<1>16. OpenedExists'
  <2> SUFFICES ASSUME NEW v \in LayoutWriters, writer'[v].pc = "fill" PROVE disk'[Current(v)'.file] # NoFile
    BY DEF OpenedExists
  <2>1. v # w /\ writer[v].pc = "fill" /\ Current(v)' = Current(v)
    BY <1>8, <1>11
  <2>2. Current(v).file \in Files /\ disk[Current(v).file] # NoFile
    BY <2>1, CurrentStep DEF IsWorking, LayoutInvariant, OpenedExists
  <2>3. left # NoFile
    <3>1. data \in Blobs \cup {IndexOf(writer[w].report), Marker}
      BY <1>4, CurrentStep DEF data
    <3>2. data # NoFile
      BY <1>4, <3>1, NamesDiffer, LayoutAssumption
    <3> QED
      BY <1>2, <3>2, LayoutAssumption
  <2> QED
    BY <1>10, <2>1, <2>2, <2>3
<1>17. WritesInOrder'
  <2> SUFFICES ASSUME NEW v \in LayoutWriters, IsWorking(v)', NEW b \in Blobs,
                      IsBlobBefore(b, writer'[v].report, writer'[v].step)
               PROVE  Safe(b)'
    BY DEF WritesInOrder, IsBlobBefore
  <2>1. CASE v # w
    BY <1>8, <1>13, <2>1 DEF LayoutInvariant, WritesInOrder, IsWorking
  <2>2. CASE v = w
    <3>1. PICK k \in 1 .. 3 : k < writer[w].step + 1 /\ b = BlobsOf(writer[w].report)[k]
      BY <1>4, <1>8, <2>2 DEF IsBlobBefore, IsWorking
    <3>2. CASE k < writer[w].step
      BY <1>4, <1>13, <3>1, <3>2 DEF LayoutInvariant, WritesInOrder, IsBlobBefore
    <3>3. CASE k = writer[w].step
      <4>1. b = f
        BY <1>4, <3>1, <3>3, StepList DEF f
      <4> QED
        BY <1>13, <4>1
    <3> QED
      BY <1>4, <3>1, <3>2, <3>3
  <2> QED
    BY <2>1, <2>2
<1>18. IndexAfterBlobs'
  <2> SUFFICES ASSUME NEW r \in LayoutReports, disk'[Index] = IndexOf(r), NEW b \in Blobs,
                      IsBlobBefore(b, r, 4)
               PROVE  Safe(b)'
    BY DEF IndexAfterBlobs, IsBlobBefore
  <2>1. Index \in Files
    BY StepList, FilesOfReports
  <2>2. CASE f # Index
    BY <1>10, <1>13, <2>1, <2>2 DEF LayoutInvariant, IndexAfterBlobs
  <2>3. CASE f = Index
    <3>1. r = writer[w].report /\ writer[w].step = 4
      BY <1>2, <1>4, <1>6, <1>10, <2>1, <2>3, NamesDiffer
    <3> QED
      BY <1>4, <1>13, <3>1 DEF LayoutInvariant, WritesInOrder
  <2> QED
    BY <2>2, <2>3
<1> QED
  BY <1>7, <1>9, <1>14, <1>15, <1>16, <1>17, <1>18 DEF LayoutInvariant

\* A writer that dies leaves what it did not finish among the lost.
LEMMA DeathKeepsInvariant ==
    ASSUME LayoutInvariant, NEW w \in LayoutWriters, DieWhileWriting(w), writer[w].pc = "fill"
    PROVE  LayoutInvariant'
<1> DEFINE f == Current(w).file
<1>1. writer' = [writer EXCEPT ![w].pc = "idle"] /\ lost' = lost \cup {f} /\ disk' = disk
  BY DEF DieWhileWriting, Becomes
<1>2. WriterTypes' /\ DiskTypes'
  BY <1>1 DEF LayoutInvariant, WriterTypes, DiskTypes
<1>3. /\ \A v \in LayoutWriters : v # w => writer'[v] = writer[v] /\ Current(v)' = Current(v)
      /\ writer'[w].pc = "idle"
  BY <1>1 DEF LayoutInvariant, WriterTypes, Current
<1> HIDE DEF f
<1>4. \A b : IsOpenForWriting(b) => IsOpenForWriting(b)' \/ b = f
  BY <1>3 DEF IsOpenForWriting, f
<1>5. \A b : Safe(b) => Safe(b)'
  BY <1>1, <1>4 DEF Safe
<1>6. WorksOnReport' /\ OpenedExists'
  BY <1>1, <1>3 DEF LayoutInvariant, WorksOnReport, OpenedExists, IsWorking
<1>7. BlobsAreWhole' /\ TornIsExplained'
  BY <1>1, <1>4 DEF LayoutInvariant, BlobsAreWhole, TornIsExplained
<1>8. WritesInOrder'
  BY <1>3, <1>5 DEF LayoutInvariant, WritesInOrder, IsWorking, IsBlobBefore
<1>9. IndexAfterBlobs'
  BY <1>1, <1>5 DEF LayoutInvariant, IndexAfterBlobs, IsBlobBefore
<1> QED
  BY <1>2, <1>6, <1>7, <1>8, <1>9 DEF LayoutInvariant

\* LayoutInvariant is inductive.
THEOREM LayoutInvariance == LayoutSpec => []LayoutInvariant
<1>1. ASSUME LayoutInvariant, NEW w \in LayoutWriters, LayoutStep(w) PROVE LayoutInvariant'
  <2>1. ASSUME BeginLayout(w) PROVE LayoutInvariant'
    BY <1>1, <2>1, QuietLayoutStep DEF BeginLayout
  <2>2. ASSUME LookAtFile(w) PROVE LayoutInvariant'
    BY <1>1, <2>2, QuietLayoutStep DEF LookAtFile, Becomes, IsWorking
  <2>3. ASSUME DieWhileWriting(w), writer[w].pc # "fill" PROVE LayoutInvariant'
    BY <1>1, <2>3, QuietLayoutStep DEF DieWhileWriting, Becomes
  <2> QED
    BY <1>1, <2>1, <2>2, <2>3, OpenKeepsInvariant, FillKeepsInvariant, DeathKeepsInvariant DEF LayoutStep
<1>2. LayoutInvariant /\ UNCHANGED layoutVars => LayoutInvariant'
  BY DEF layoutVars, LayoutInvariant, WriterTypes, DiskTypes, WorksOnReport, IsWorking, BlobsAreWhole,
         TornIsExplained, IsOpenForWriting, Current, OpenedExists, WritesInOrder, IsBlobBefore, Safe,
         IndexAfterBlobs
<1>3. LayoutInvariant /\ [LayoutNext]_layoutVars => LayoutInvariant'
  BY <1>1, <1>2 DEF LayoutNext
<1> QED
  BY LayoutInitially, <1>3, PTL DEF LayoutSpec

\* IndexIsBacked for any number of reports, writers and deaths: the manifest an
\* index names, and what the manifest names, are there.
THEOREM LayoutIsBacked == LayoutSpec => []IndexIsBacked
<1>1. LayoutInvariant => IndexIsBacked
  <2> SUFFICES ASSUME LayoutInvariant, NEW r \in LayoutReports, disk[Index] = IndexOf(r),
                      NEW k \in 1 .. 3
               PROVE  Holds(r, Digest(BlobsOf(r)[k]), BlobsOf(r)[k])
    BY BlobList DEF IndexIsBacked
  <2>1. BlobsOf(r)[k] \in Blobs /\ IsBlobBefore(BlobsOf(r)[k], r, 4)
    BY FilesOfReports DEF IsBlobBefore
  <2>2. Safe(BlobsOf(r)[k])
    BY <2>1 DEF LayoutInvariant, IndexAfterBlobs
  <2> QED
    BY <2>2 DEF Safe, IsOpenForWriting, Holds, BeingWritten, Digest
<1> QED
  BY <1>1, LayoutInvariance, PTL

\* RefusesOnlyTorn for the same: what a writer finds torn is being written, or a
\* writer died over it.
THEOREM RefusalsAreTorn == LayoutSpec => RefusesOnlyTorn
<1>1. LayoutInvariant /\ [LayoutNext]_layoutVars =>
          [\A w \in LayoutWriters :
              writer[w].pc = "look" /\ writer'[w].pc = "refused" =>
                  Current(w).file \in BeingWritten \cup lost]_layoutVars
  <2> SUFFICES ASSUME LayoutInvariant, LayoutNext, NEW w \in LayoutWriters,
                      writer[w].pc = "look", writer'[w].pc = "refused"
               PROVE  Current(w).file \in BeingWritten \cup lost
    OBVIOUS
  <2>1. PICK v \in LayoutWriters : LayoutStep(v)
    BY DEF LayoutNext
  <2>2. v = w /\ LookAtFile(w)
    BY <2>1 DEF LayoutStep, BeginLayout, LookAtFile, OpenForWriting, FillFile, DieWhileWriting,
                Becomes, LayoutInvariant, WriterTypes
  <2>3. IsBlob(w) /\ disk[Current(w).file] \notin {NoFile, Current(w).data}
    BY <2>2 DEF LookAtFile, Becomes, LayoutInvariant, WriterTypes
  <2>4. Current(w).file \in Blobs /\ Current(w).data = Current(w).file
    BY <2>3, CurrentStep DEF IsBlob, IsWorking
  <2> QED
    BY <2>3, <2>4 DEF LayoutInvariant, BlobsAreWhole, TornIsExplained, IsOpenForWriting, BeingWritten
<1> QED
  BY <1>1, LayoutInvariance, PTL DEF RefusesOnlyTorn, LayoutSpec

-----------------------------------------------------------------------------
(* The evidence root of a target execution (TargetBundle) *)

FileRows == [path : Paths, content : FileContents]

ReportRows == [path : Paths, id : ValidReports]

\* A path has one row.
OneRowEach(rows) == \A f, g \in rows : f.path = g.path => f = g

\* What a finished traversal may write down.
RootManifests ==
    {m \in [files : SUBSET FileRows, reports : SUBSET ReportRows] :
        OneRowEach(m.files) /\ OneRowEach(m.reports)}

TargetTypes ==
    /\ tree \in [Paths -> FileContents \cup {Gone}]
    /\ targetManifest \in RootManifests \cup {Gone}
    /\ auditor \in [pc : {"idle", "list", "hash", "bind", "replace", "relist", "rehash",
                          "recheck", "accepted", "refused"},
                    todo : SUBSET Paths, listed : SUBSET Paths,
                    files : SUBSET FileRows, reports : SUBSET ReportRows,
                    read : RootManifests \cup {Gone}]

\* The writer: what it wrote down is of the paths it has visited.
WriterInv ==
    /\ OneRowEach(auditor.files) /\ OneRowEach(auditor.reports)
    /\ auditor.pc = "list" => auditor.files = {} /\ auditor.reports = {}
    /\ auditor.pc = "hash" => /\ \A f \in auditor.files : f.path \notin auditor.todo
                              /\ auditor.reports = {}
    /\ auditor.pc = "bind" => \A r \in auditor.reports : r.path \notin auditor.todo

IsVerifying == auditor.pc \in {"relist", "rehash", "recheck", "accepted"}

PresentPaths == {p \in Paths : tree[p] # Gone}

RowsOf(paths) == {f \in auditor.read.files : f.path \notin paths}

\* The verifier: what it has compared so far was there, and still is when the
\* tree is quiet.
VerifierInv ==
    IsVerifying =>
        /\ auditor.read \in RootManifests
        /\ Present \subseteq witnessed
        /\ auditor.pc = "relist" /\ quiet => auditor.listed = PresentPaths \ auditor.todo
        /\ auditor.pc = "rehash" =>
              /\ RowsOf(auditor.todo) \subseteq witnessed
              /\ quiet => /\ {f.path : f \in auditor.read.files} = PresentPaths
                          /\ RowsOf(auditor.todo) \subseteq Present
        /\ auditor.pc \in {"recheck", "accepted"} =>
              /\ auditor.read.files \subseteq witnessed
              /\ quiet => auditor.read.files = Present
        /\ auditor.pc = "recheck" /\ quiet =>
              \A r \in auditor.read.reports :
                  r.path \notin auditor.todo => [path |-> r.path, content |-> r.id] \in Present
        /\ auditor.pc = "accepted" /\ quiet =>
              \A r \in auditor.read.reports : [path |-> r.path, content |-> r.id] \in Present

TargetInvariant == TargetTypes /\ WriterInv /\ VerifierInv

\* Every set of paths has a first one (Nat is well-ordered).
LEMMA FirstPath ==
    ASSUME NEW S, S \subseteq Paths, S # {}
    PROVE  Min(S) \in S
<1>1. S \subseteq Nat
  BY TargetAssumption
<1> DEFINE Below == {0 .. x : x \in S}
<1>2. Below \in SUBSET FiniteSubsetsOf(Nat) /\ Below # {}
  <2>1. ASSUME NEW x \in S PROVE 0 .. x \in FiniteSubsetsOf(Nat)
    BY <1>1, FS_Interval DEF FiniteSubsetsOf
  <2> QED
    BY <2>1
<1>3. PICK B \in Below : \A C \in Below : <<C, B>> \notin StrictSubsetOrdering(Nat)
  <2> HIDE DEF Below
  <2> QED
    BY <1>2, FS_StrictSubsetOrderingWellFounded, WFMin
<1>4. PICK m \in S : B = 0 .. m
  OBVIOUS
<1>5. ASSUME NEW x \in S PROVE m =< x
  <2> SUFFICES ASSUME x < m PROVE FALSE
    BY <1>1
  <2>1. 0 .. x \subseteq 0 .. m /\ 0 .. x # 0 .. m
    BY <1>1
  <2>2. <<0 .. x, B>> \in StrictSubsetOrdering(Nat)
    BY <1>1, <2>1, <1>4 DEF StrictSubsetOrdering
  <2> QED
    BY <1>3, <2>2
<1> QED
  BY <1>5 DEF Min

\* A row is present when its path holds its content.
LEMMA PresentRow ==
    ASSUME TargetTypes, NEW f \in FileRows
    PROVE  f \in Present <=> tree[f.path] = f.content
<1>1. f.path \in Paths /\ f.content \in FileContents /\ f = [path |-> f.path, content |-> f.content]
  BY DEF FileRows
<1>2. f.content # Gone
  BY <1>1, TargetAssumption
<1>3. f \in Present => tree[f.path] = f.content
  BY DEF Present
<1>4. ASSUME tree[f.path] = f.content PROVE f \in Present
  BY <1>1, <1>2, <1>4 DEF Present
<1> QED
  BY <1>3, <1>4

\* What is present is a row for a path.
LEMMA PresentRows ==
    ASSUME TargetTypes
    PROVE  Present \subseteq FileRows
BY DEF TargetTypes, Present, FileRows

LEMMA TargetInitially == TargetInit => TargetInvariant
<1> SUFFICES ASSUME TargetInit PROVE TargetInvariant
  OBVIOUS
<1>1. auditor = [pc |-> "idle", todo |-> {}, listed |-> {}, files |-> {}, reports |-> {}, read |-> Gone]
  BY DEF TargetInit, Idle
<1>2. (CHOOSE c \in ValidReports : TRUE) \in FileContents
  BY TargetAssumption
<1>3. TargetTypes
  <2>1. tree \in [Paths -> FileContents \cup {Gone}]
    BY <1>2 DEF TargetInit
  <2> QED
    BY <1>1, <2>1 DEF TargetInit, TargetTypes
<1>4. WriterInv
  BY <1>1 DEF WriterInv, OneRowEach
<1>5. VerifierInv
  BY <1>1 DEF VerifierInv, IsVerifying
<1> QED
  BY <1>3, <1>4, <1>5 DEF TargetInvariant

\* A refusal forgets everything the auditor noted.
LEMMA TargetRefusal ==
    ASSUME TargetInvariant, RefuseTarget, Observe
    PROVE  TargetInvariant'
<1>1. auditor' = [pc |-> "refused", todo |-> {}, listed |-> {}, files |-> {}, reports |-> {}, read |-> Gone]
  BY DEF RefuseTarget, Idle
<1>2. TargetTypes'
  BY <1>1 DEF TargetInvariant, TargetTypes, Observe
<1> QED
  BY <1>1, <1>2 DEF TargetInvariant, WriterInv, VerifierInv, IsVerifying, OneRowEach

\* An edit ends the quiet, and what it writes counts as witnessed.
LEMMA EditKeepsTarget == TargetInvariant /\ EditTree => TargetInvariant'
<1> SUFFICES ASSUME TargetInvariant, EditTree PROVE TargetInvariant'
  OBVIOUS
<1>1. PICK p \in EvidencePaths, c \in FileContents \cup {Gone} :
          /\ tree' = [tree EXCEPT ![p] = c]
          /\ witnessed' = witnessed \cup {[path |-> p, content |-> c]}
  BY DEF EditTree
<1>2. ~quiet' /\ auditor' = auditor /\ targetManifest' = targetManifest
  BY DEF EditTree
<1>3. p \in Paths
  BY DEF Paths
<1>4. TargetTypes'
  BY <1>1, <1>2, <1>3 DEF TargetInvariant, TargetTypes
<1>5. WriterInv'
  BY <1>2 DEF TargetInvariant, WriterInv
<1>6. Present' \subseteq Present \cup {[path |-> p, content |-> c]}
  BY <1>1, <1>3 DEF TargetInvariant, TargetTypes, Present
<1>7. RowsOf(auditor.todo)' = RowsOf(auditor.todo)
  BY <1>2 DEF RowsOf
<1>8. VerifierInv'
  BY <1>1, <1>2, <1>6, <1>7 DEF TargetInvariant, VerifierInv, IsVerifying
<1> QED
  BY <1>4, <1>5, <1>8 DEF TargetInvariant

LEMMA VisitKeepsTarget == TargetInvariant /\ VisitEntry => TargetInvariant'
<1> SUFFICES ASSUME TargetInvariant, VisitEntry PROVE TargetInvariant'
  OBVIOUS
<1> DEFINE p == Min(auditor.todo)
<1>1. p \in auditor.todo /\ p \in Paths
  BY FirstPath DEF TargetInvariant, TargetTypes, VisitEntry
<1> HIDE DEF p
<1>2. /\ auditor' = [auditor EXCEPT !.todo = @ \ {p},
                                    !.listed = IF tree[p] = Gone THEN @ ELSE @ \cup {p}]
      /\ auditor.pc \in {"list", "relist"}
  BY DEF VisitEntry, p
<1>3. /\ auditor'.pc = auditor.pc /\ auditor'.todo = auditor.todo \ {p}
      /\ auditor'.listed = IF tree[p] = Gone THEN auditor.listed ELSE auditor.listed \cup {p}
      /\ auditor'.files = auditor.files /\ auditor'.reports = auditor.reports
      /\ auditor'.read = auditor.read
  BY <1>2 DEF TargetInvariant, TargetTypes
<1>4. UNCHANGED <<tree, targetManifest, witnessed, quiet>>
  BY DEF VisitEntry, Observe
<1>5. TargetTypes'
  BY <1>1, <1>2, <1>4 DEF TargetInvariant, TargetTypes
<1>6. WriterInv'
  BY <1>2, <1>3 DEF TargetInvariant, WriterInv
<1>7. VerifierInv'
  <2>1. Present' = Present /\ PresentPaths' = PresentPaths
    BY <1>4 DEF Present, PresentPaths
  <2>2. PresentPaths \ (auditor.todo \ {p}) =
            IF tree[p] = Gone THEN PresentPaths \ auditor.todo
                              ELSE (PresentPaths \ auditor.todo) \cup {p}
    BY <1>1 DEF PresentPaths
  <2> QED
    BY <1>2, <1>3, <1>4, <2>1, <2>2 DEF TargetInvariant, VerifierInv, IsVerifying
<1> QED
  BY <1>5, <1>6, <1>7 DEF TargetInvariant

\* The steps of the writer, whose marks only its own part of the invariant sees.
LEMMA WriterKeepsTarget ==
    ASSUME TargetInvariant,
           BeginManifest \/ BeginHashing \/ HashRetained \/ BeginBinding \/ BindReport
    PROVE  TargetInvariant'
<1> USE DEF TargetInvariant
<1>1. CASE BeginManifest
  <2>1. auditor' = [pc |-> "list", todo |-> Paths, listed |-> {}, files |-> {}, reports |-> {}, read |-> Gone]
    BY <1>1 DEF BeginManifest, Idle
  <2>2. TargetTypes'
    BY <1>1, <2>1 DEF BeginManifest, Observe, TargetTypes
  <2> QED
    BY <2>1, <2>2 DEF WriterInv, VerifierInv, IsVerifying, OneRowEach
<1>2. CASE BeginHashing
  <2>1. /\ auditor' = [auditor EXCEPT !.pc = "hash", !.todo = auditor.listed]
        /\ auditor.pc = "list"
    BY <1>2 DEF BeginHashing
  <2>2. TargetTypes'
    BY <1>2, <2>1 DEF BeginHashing, Observe, TargetTypes
  <2>3. /\ auditor'.pc = "hash" /\ auditor'.files = {} /\ auditor'.reports = {}
    BY <2>1 DEF TargetTypes, WriterInv
  <2> QED
    BY <2>2, <2>3 DEF WriterInv, VerifierInv, IsVerifying, OneRowEach
<1>3. CASE HashRetained
  <2> DEFINE p == Min(auditor.todo)
             row == [path |-> p, content |-> tree[p]]
  <2>1. p \in auditor.todo /\ p \in Paths
    BY <1>3, FirstPath DEF TargetTypes, HashRetained
  <2>2. CASE tree[p] = Gone
    BY <1>3, <2>2, TargetRefusal DEF HashRetained
  <2>3. CASE tree[p] # Gone
    <3>1. /\ auditor' = [auditor EXCEPT !.todo = @ \ {p}, !.files = @ \cup {row}]
          /\ auditor.pc = "hash"
      BY <1>3, <2>3 DEF HashRetained
    <3>2. row \in FileRows /\ row.path = p
      BY <2>1, <2>3 DEF TargetTypes, FileRows
    <3> HIDE DEF p, row
    <3>3. /\ auditor'.pc = "hash" /\ auditor'.todo = auditor.todo \ {p}
          /\ auditor'.files = auditor.files \cup {row} /\ auditor'.reports = auditor.reports
      BY <3>1 DEF TargetTypes
    <3>4. TargetTypes'
      BY <1>3, <3>1, <3>2 DEF HashRetained, Observe, TargetTypes
    <3>5. WriterInv'
      BY <2>1, <3>1, <3>2, <3>3 DEF WriterInv, OneRowEach
    <3> QED
      BY <3>3, <3>4, <3>5 DEF VerifierInv, IsVerifying
  <2> QED
    BY <2>2, <2>3
<1>4. CASE BeginBinding
  <2>1. CASE auditor.files = {}
    BY <1>4, <2>1, TargetRefusal DEF BeginBinding
  <2>2. CASE auditor.files # {}
    <3>1. /\ auditor' = [auditor EXCEPT !.pc = "bind", !.todo = ReportPaths]
          /\ auditor.pc = "hash"
      BY <1>4, <2>2 DEF BeginBinding
    <3>2. ReportPaths \subseteq Paths
      BY TargetAssumption DEF Paths
    <3>3. TargetTypes'
      BY <1>4, <3>1, <3>2 DEF BeginBinding, Observe, TargetTypes
    <3>4. /\ auditor'.pc = "bind" /\ auditor'.files = auditor.files /\ auditor'.reports = {}
      BY <3>1 DEF TargetTypes, WriterInv
    <3> QED
      BY <3>3, <3>4 DEF WriterInv, VerifierInv, IsVerifying, OneRowEach
  <2> QED
    BY <2>1, <2>2
<1>5. CASE BindReport
  <2> DEFINE p == Min(auditor.todo)
             row == [path |-> p, id |-> tree[p]]
  <2>1. p \in auditor.todo /\ p \in Paths
    BY <1>5, FirstPath DEF TargetTypes, BindReport
  <2>2. CASE tree[p] \notin ValidReports
    BY <1>5, <2>2, TargetRefusal DEF BindReport
  <2>3. CASE tree[p] \in ValidReports
    <3>1. /\ auditor' = [auditor EXCEPT !.todo = @ \ {p}, !.reports = @ \cup {row}]
          /\ auditor.pc = "bind"
      BY <1>5, <2>3 DEF BindReport
    <3>2. row \in ReportRows /\ row.path = p
      BY <2>1, <2>3 DEF ReportRows
    <3> HIDE DEF p, row
    <3>3. /\ auditor'.pc = "bind" /\ auditor'.todo = auditor.todo \ {p}
          /\ auditor'.reports = auditor.reports \cup {row} /\ auditor'.files = auditor.files
      BY <3>1 DEF TargetTypes
    <3>4. TargetTypes'
      BY <1>5, <3>1, <3>2 DEF BindReport, Observe, TargetTypes
    <3>5. WriterInv'
      BY <2>1, <3>1, <3>2, <3>3 DEF WriterInv, OneRowEach
    <3> QED
      BY <3>3, <3>4, <3>5 DEF VerifierInv, IsVerifying
  <2> QED
    BY <2>2, <2>3
<1> QED
  BY <1>1, <1>2, <1>3, <1>4, <1>5

\* The manifest is written, or not, and its temporary file may stay.
LEMMA PublicationKeepsTarget ==
    ASSUME TargetInvariant, WriteTemporaryManifest \/ ReplaceManifest \/ DieBesideTemporary
    PROVE  TargetInvariant'
<1> USE DEF TargetInvariant
<1>1. CASE WriteTemporaryManifest
  <2>1. PICK t \in Temporaries :
            /\ tree' = [tree EXCEPT ![t] = CHOOSE c \in FileContents : c \notin ValidReports]
            /\ auditor' = [auditor EXCEPT !.pc = "replace", !.todo = {t}]
    BY <1>1 DEF WriteTemporaryManifest
  <2>2. t \in Paths /\ (CHOOSE c \in FileContents : c \notin ValidReports) \in FileContents
    BY TargetAssumption DEF Paths
  <2>3. tree' \in [Paths -> FileContents \cup {Gone}]
    BY <2>1, <2>2 DEF TargetTypes
  <2>4. TargetTypes'
    BY <1>1, <2>1, <2>2, <2>3 DEF WriteTemporaryManifest, TargetTypes
  <2>5. auditor'.pc = "replace" /\ auditor'.files = auditor.files /\ auditor'.reports = auditor.reports
    BY <2>1 DEF TargetTypes
  <2> QED
    BY <2>4, <2>5 DEF WriterInv, VerifierInv, IsVerifying
<1>2. CASE ReplaceManifest
  <2>1. tree' \in [Paths -> FileContents \cup {Gone}]
    BY <1>2 DEF ReplaceManifest, TargetTypes
  <2>2. targetManifest' \in RootManifests \cup {Gone}
    BY <1>2 DEF ReplaceManifest, TargetTypes, WriterInv, RootManifests
  <2>3. PICK label \in {"idle", "refused"} :
            auditor' = [pc |-> label, todo |-> {}, listed |-> {}, files |-> {}, reports |-> {}, read |-> Gone]
    BY <1>2 DEF ReplaceManifest, RefuseTarget, Idle
  <2>4. TargetTypes'
    BY <2>1, <2>2, <2>3 DEF TargetTypes
  <2> QED
    BY <2>3, <2>4 DEF WriterInv, VerifierInv, IsVerifying, OneRowEach
<1>3. CASE DieBesideTemporary
  <2>1. auditor' = [pc |-> "idle", todo |-> {}, listed |-> {}, files |-> {}, reports |-> {}, read |-> Gone]
    BY <1>3 DEF DieBesideTemporary, Idle
  <2>2. TargetTypes'
    BY <1>3, <2>1 DEF DieBesideTemporary, TargetTypes
  <2> QED
    BY <2>1, <2>2 DEF WriterInv, VerifierInv, IsVerifying, OneRowEach
<1> QED
  BY <1>1, <1>2, <1>3

\* The steps of the verifier.
LEMMA ReadKeepsTarget == TargetInvariant /\ ReadTargetManifest => TargetInvariant'
<1> SUFFICES ASSUME TargetInvariant, ReadTargetManifest PROVE TargetInvariant'
  OBVIOUS
<1> USE DEF TargetInvariant
<1>1. auditor' = [pc |-> "relist", todo |-> Paths, listed |-> {}, files |-> {}, reports |-> {},
                  read |-> targetManifest]
  BY DEF ReadTargetManifest, Idle
<1>2. targetManifest \in RootManifests /\ UNCHANGED <<tree, targetManifest>> /\ witnessed' = Present
  BY DEF ReadTargetManifest, TargetTypes
<1>3. TargetTypes'
  BY <1>1, <1>2 DEF TargetTypes
<1>4. WriterInv'
  BY <1>1 DEF WriterInv, OneRowEach
<1>5. Present' = Present /\ PresentPaths' \subseteq Paths
  BY <1>2 DEF Present, PresentPaths
<1>6. VerifierInv'
  BY <1>1, <1>2, <1>5 DEF VerifierInv
<1> QED
  BY <1>3, <1>4, <1>6

LEMMA CompareKeepsTarget == TargetInvariant /\ ComparePaths => TargetInvariant'
<1> SUFFICES ASSUME TargetInvariant, ComparePaths PROVE TargetInvariant'
  OBVIOUS
<1> USE DEF TargetInvariant
<1> DEFINE declared == {f.path : f \in auditor.read.files}
<1>1. CASE ~SamePaths(auditor.listed, declared)
  BY <1>1, TargetRefusal DEF ComparePaths
<1>2. CASE SamePaths(auditor.listed, declared)
  <2>1. /\ auditor' = [auditor EXCEPT !.pc = "rehash", !.todo = declared]
        /\ auditor.pc = "relist" /\ auditor.todo = {} /\ Observe
    BY <1>2 DEF ComparePaths
  <2>2. auditor.read \in RootManifests /\ (quiet => declared = PresentPaths)
    BY <1>2, <2>1 DEF VerifierInv, IsVerifying, SamePaths
  <2>3. declared \subseteq Paths
    BY <2>2 DEF RootManifests, FileRows
  <2>4. /\ auditor'.pc = "rehash" /\ auditor'.todo = declared /\ auditor'.read = auditor.read
        /\ auditor'.files = auditor.files /\ auditor'.reports = auditor.reports
    BY <2>1 DEF TargetTypes
  <2>5. TargetTypes'
    BY <2>1, <2>3 DEF TargetTypes, Observe
  <2>6. RowsOf(auditor.todo)' = {}
    BY <2>4 DEF RowsOf
  <2>7. Present' = Present /\ PresentPaths' = PresentPaths
    BY <2>1 DEF Present, PresentPaths, Observe
  <2>8. VerifierInv'
    BY <2>1, <2>2, <2>4, <2>6, <2>7 DEF VerifierInv, IsVerifying, Observe
  <2> QED
    BY <2>4, <2>5, <2>8 DEF WriterInv
<1> QED
  BY <1>1, <1>2

\* The row of a path that is hashed again is the one the manifest has.
LEMMA RehashKeepsTarget == TargetInvariant /\ Rehash => TargetInvariant'
<1> SUFFICES ASSUME TargetInvariant, Rehash PROVE TargetInvariant'
  OBVIOUS
<1> USE DEF TargetInvariant
<1> DEFINE p == Min(auditor.todo)
           row == [path |-> p, content |-> tree[p]]
<1>1. p \in auditor.todo /\ p \in Paths /\ auditor.pc = "rehash" /\ Observe
  BY FirstPath DEF TargetTypes, Rehash
<1>2. CASE row \notin auditor.read.files
  BY <1>2, TargetRefusal DEF Rehash
<1>3. CASE row \in auditor.read.files
  <2>1. auditor' = [auditor EXCEPT !.todo = @ \ {p}]
    BY <1>3 DEF Rehash
  <2>2. auditor.read \in RootManifests /\ Present \subseteq witnessed
    BY <1>1 DEF VerifierInv, IsVerifying
  <2>3. row \in FileRows /\ row.path = p /\ tree[row.path] = row.content
    BY <1>3, <2>2 DEF RootManifests
  <2>4. row \in Present
    BY <2>3, PresentRow
  <2> HIDE DEF p, row
  <2>5. /\ auditor'.pc = "rehash" /\ auditor'.todo = auditor.todo \ {p} /\ auditor'.read = auditor.read
        /\ auditor'.files = auditor.files /\ auditor'.reports = auditor.reports
    BY <1>1, <2>1 DEF TargetTypes
  <2>6. RowsOf(auditor.todo)' \subseteq RowsOf(auditor.todo) \cup {row}
    BY <1>3, <2>2, <2>3, <2>5 DEF RowsOf, RootManifests, OneRowEach
  <2>7. Present' = Present /\ PresentPaths' = PresentPaths /\ witnessed' = witnessed /\ quiet' = quiet
    BY <1>1 DEF Present, PresentPaths, Observe
  <2>8. TargetTypes'
    BY <1>1, <2>1 DEF TargetTypes, Observe
  <2>9. VerifierInv'
    BY <1>1, <2>2, <2>4, <2>5, <2>6, <2>7 DEF VerifierInv, IsVerifying
  <2> QED
    BY <1>1, <2>5, <2>8, <2>9 DEF WriterInv
<1> QED
  BY <1>2, <1>3

\* Once every listed file was found as listed, and the paths are those of the
\* tree, the list is the tree.
LEMMA RecheckingKeepsTarget == TargetInvariant /\ BeginRechecking => TargetInvariant'
<1> SUFFICES ASSUME TargetInvariant, BeginRechecking PROVE TargetInvariant'
  OBVIOUS
<1> USE DEF TargetInvariant
<1> DEFINE bound == {r.path : r \in auditor.read.reports}
<1>1. /\ auditor' = [auditor EXCEPT !.pc = "recheck", !.todo = bound]
      /\ auditor.pc = "rehash" /\ auditor.todo = {} /\ Observe
  BY DEF BeginRechecking
<1>2. /\ auditor.read \in RootManifests /\ Present \subseteq witnessed
      /\ RowsOf({}) \subseteq witnessed
      /\ quiet => /\ {f.path : f \in auditor.read.files} = PresentPaths
                  /\ RowsOf({}) \subseteq Present
  BY <1>1 DEF VerifierInv, IsVerifying
<1>3. RowsOf({}) = auditor.read.files
  BY DEF RowsOf
<1>4. ASSUME quiet PROVE Present \subseteq auditor.read.files
  <2> SUFFICES ASSUME NEW f \in Present PROVE f \in auditor.read.files
    OBVIOUS
  <2>1. f \in FileRows /\ f.path \in PresentPaths
    BY PresentRows DEF Present, PresentPaths
  <2>2. PICK g \in auditor.read.files : g.path = f.path
    BY <1>2, <1>4, <2>1
  <2>3. g \in Present /\ g \in FileRows
    BY <1>2, <1>3, <1>4, PresentRows
  <2>4. f.content = tree[f.path] /\ g.content = tree[g.path]
    BY <2>1, <2>3, PresentRow
  <2>5. f = g
    BY <2>1, <2>2, <2>3, <2>4 DEF FileRows
  <2> QED
    BY <2>5
<1>5. bound \subseteq Paths
  BY <1>2 DEF RootManifests, ReportRows
<1>6. /\ auditor'.pc = "recheck" /\ auditor'.todo = bound /\ auditor'.read = auditor.read
      /\ auditor'.files = auditor.files /\ auditor'.reports = auditor.reports
  BY <1>1 DEF TargetTypes
<1>7. Present' = Present /\ witnessed' = witnessed /\ quiet' = quiet
  BY <1>1 DEF Present, Observe
<1>8. TargetTypes'
  BY <1>1, <1>5 DEF TargetTypes, Observe
<1>9. VerifierInv'
  BY <1>2, <1>3, <1>4, <1>6, <1>7 DEF VerifierInv, IsVerifying
<1> QED
  BY <1>6, <1>8, <1>9 DEF WriterInv

LEMMA RecheckKeepsTarget == TargetInvariant /\ RecheckReport => TargetInvariant'
<1> SUFFICES ASSUME TargetInvariant, RecheckReport PROVE TargetInvariant'
  OBVIOUS
<1> USE DEF TargetInvariant
<1> DEFINE p == Min(auditor.todo)
           row == [path |-> p, id |-> tree[p]]
<1>1. p \in auditor.todo /\ p \in Paths /\ auditor.pc = "recheck" /\ Observe
  BY FirstPath DEF TargetTypes, RecheckReport
<1>2. CASE ~(tree[p] \in ValidReports /\ row \in auditor.read.reports)
  BY <1>2, TargetRefusal DEF RecheckReport
<1>3. CASE tree[p] \in ValidReports /\ row \in auditor.read.reports
  <2>1. auditor' = [auditor EXCEPT !.todo = @ \ {p}]
    BY <1>3 DEF RecheckReport
  <2>2. auditor.read \in RootManifests
    BY <1>1 DEF VerifierInv, IsVerifying
  <2>3. [path |-> row.path, content |-> row.id] \in Present
    BY <1>1, <1>3, TargetAssumption DEF Present
  <2>4. ASSUME NEW r \in auditor.read.reports, r.path = p PROVE r = row
    BY <1>3, <2>2, <2>4 DEF RootManifests, OneRowEach
  <2> HIDE DEF p, row
  <2>5. /\ auditor'.pc = "recheck" /\ auditor'.todo = auditor.todo \ {p} /\ auditor'.read = auditor.read
        /\ auditor'.files = auditor.files /\ auditor'.reports = auditor.reports
    BY <1>1, <2>1 DEF TargetTypes
  <2>6. Present' = Present /\ witnessed' = witnessed /\ quiet' = quiet
    BY <1>1 DEF Present, Observe
  <2>7. TargetTypes'
    BY <1>1, <2>1 DEF TargetTypes, Observe
  <2>8. VerifierInv'
    BY <1>1, <2>3, <2>4, <2>5, <2>6 DEF VerifierInv, IsVerifying
  <2> QED
    BY <1>1, <2>5, <2>7, <2>8 DEF WriterInv
<1> QED
  BY <1>2, <1>3

LEMMA AcceptKeepsTarget == TargetInvariant /\ AcceptTarget => TargetInvariant'
<1> SUFFICES ASSUME TargetInvariant, AcceptTarget PROVE TargetInvariant'
  OBVIOUS
<1> USE DEF TargetInvariant
<1>1. /\ auditor' = [auditor EXCEPT !.pc = "accepted"]
      /\ auditor.pc = "recheck" /\ auditor.todo = {} /\ Observe
  BY DEF AcceptTarget, Goes
<1>2. /\ auditor'.pc = "accepted" /\ auditor'.read = auditor.read
      /\ auditor'.files = auditor.files /\ auditor'.reports = auditor.reports
  BY <1>1 DEF TargetTypes
<1>3. Present' = Present /\ witnessed' = witnessed /\ quiet' = quiet
  BY <1>1 DEF Present, Observe
<1>4. TargetTypes'
  BY <1>1 DEF TargetTypes, Observe
<1>5. VerifierInv'
  BY <1>1, <1>2, <1>3 DEF VerifierInv, IsVerifying
<1> QED
  BY <1>2, <1>4, <1>5 DEF WriterInv

THEOREM TargetInvariance == TargetSpec => []TargetInvariant
<1>1. TargetInvariant /\ [TargetNext]_targetVars => TargetInvariant'
  <2> SUFFICES ASSUME TargetInvariant, [TargetNext]_targetVars PROVE TargetInvariant'
    OBVIOUS
  <2>1. ASSUME UNCHANGED targetVars PROVE TargetInvariant'
    <3>1. UNCHANGED <<tree, targetManifest, auditor, witnessed, quiet>>
      BY <2>1 DEF targetVars
    <3>2. Present' = Present /\ PresentPaths' = PresentPaths
      BY <3>1 DEF Present, PresentPaths
    <3>3. RowsOf(auditor.todo)' = RowsOf(auditor.todo)
      BY <3>1 DEF RowsOf
    <3>4. TargetTypes' /\ WriterInv'
      BY <3>1 DEF TargetInvariant, TargetTypes, WriterInv
    <3>5. VerifierInv'
      BY <3>1, <3>2, <3>3 DEF TargetInvariant, VerifierInv, IsVerifying
    <3> QED
      BY <3>4, <3>5 DEF TargetInvariant
  <2> QED
    BY <2>1, EditKeepsTarget, VisitKeepsTarget, WriterKeepsTarget, PublicationKeepsTarget,
       ReadKeepsTarget, CompareKeepsTarget, RehashKeepsTarget, RecheckingKeepsTarget,
       RecheckKeepsTarget, AcceptKeepsTarget
    DEF TargetNext
<1> QED
  BY <1>1, TargetInitially, PTL DEF TargetSpec

\* An accepted target root is the tree, when nobody edited it meanwhile, and
\* otherwise lists only what was there at some moment.
THEOREM TargetRootIsExact == TargetSpec => []TargetIsExact
<1>1. TargetInvariant => TargetIsExact
  BY DEF TargetInvariant, VerifierInv, IsVerifying, TargetIsExact
<1> QED
  BY <1>1, TargetInvariance, PTL
=============================================================================
