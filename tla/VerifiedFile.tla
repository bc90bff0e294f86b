----------------------------- MODULE VerifiedFile -----------------------------
(***************************************************************************)
(* Reading one regular file that may change meanwhile                      *)
(* (merriv/core/identity.py, read_verified_file, and _hash_file, which     *)
(* does the same without keeping the bytes): the path is examined, opened, *)
(* examined again through the descriptor, read chunk by chunk, and         *)
(* examined once more.  An editor may replace the file under its path, put *)
(* a link there, write into the file in place, append to it or cut it off. *)
(*                                                                         *)
(* A file is an inode; modification times advance by clock ticks, and      *)
(* several writes may fall into one tick.                                  *)
(***************************************************************************)
EXTENDS Naturals, Sequences, SequencesExt

CONSTANTS
    Inodes,       \* files on disk, whatever path leads to them
    Chunks,       \* contents of a chunk of a file
    MaxBytes,     \* max_bytes of the call, in chunks
    MaxSize,      \* bound: chunks of a file
    MaxFileEdits, \* bound: edits
    MaxClock,     \* bound: ticks
    Expected,     \* contents a caller of read_verified_file may ask for
    NoContent     \* expected_digest is None; nothing read

VARIABLES
    path,         \* what the path names: an inode, and whether through a link
    inodes,       \* inode -> [data, mtime]
    clock,
    fileEdits,
    noFollow,     \* the platform has O_NOFOLLOW
    expected,     \* expected_digest
    handle,       \* [pc, inode, opened, got]
    versions      \* history: what the inode being read became since it was opened

fileVars == <<path, inodes, clock, fileEdits, noFollow, expected, handle, versions>>

ASSUME FileAssumption ==
    /\ Inodes # {} /\ Chunks # {}
    /\ MaxBytes \in Nat /\ MaxSize \in Nat /\ MaxFileEdits \in Nat /\ MaxClock \in Nat

AnInode == CHOOSE i \in Inodes : TRUE

AChunk == CHOOSE c \in Chunks : TRUE

FileInit ==
    /\ path = [inode |-> AnInode, link |-> FALSE]
    /\ inodes = [i \in Inodes |-> [data |-> <<AChunk, AChunk>>, mtime |-> 0]]
    /\ clock = 0 /\ fileEdits = 0
    /\ noFollow = TRUE /\ expected = NoContent
    /\ handle = [pc |-> "idle", inode |-> AnInode, opened |-> inodes[AnInode], got |-> <<>>]
    /\ versions = {}

-----------------------------------------------------------------------------
(* The editor and the clock *)

Tick ==
    /\ clock < MaxClock
    /\ clock' = clock + 1
    /\ UNCHANGED <<path, inodes, fileEdits, noFollow, expected, handle, versions>>

CanEdit == handle.pc \notin {"done", "refused"} /\ fileEdits < MaxFileEdits

\* Another file, or a link to one, is moved over the path.
ReplacePath ==
    /\ CanEdit
    /\ path' \in [inode : Inodes, link : BOOLEAN]
    /\ path' # path
    /\ fileEdits' = fileEdits + 1
    /\ UNCHANGED <<inodes, clock, noFollow, expected, handle, versions>>

\* A write, an append or a truncation, of any extent.
WriteInPlace ==
    /\ CanEdit
    /\ \E i \in Inodes : \E data \in BoundedSeq(Chunks, MaxSize) \ {inodes[i].data} :
          /\ inodes' = [inodes EXCEPT ![i] = [data |-> data, mtime |-> clock]]
          /\ versions' = IF handle.pc = "read" /\ i = handle.inode
                           THEN versions \cup {[data |-> data, mtime |-> clock]}
                           ELSE versions
    /\ fileEdits' = fileEdits + 1
    /\ UNCHANGED <<path, clock, noFollow, expected, handle>>

-----------------------------------------------------------------------------
(* The handle *)

Refuse == handle' = [handle EXCEPT !.pc = "refused", !.got = <<>>]

\* The path is examined: a regular file, not reached through a link.
Examine ==
    /\ handle.pc = "idle"
    /\ noFollow' \in BOOLEAN
    /\ expected' \in Expected \cup {NoContent}
    /\ IF path.link \/ Len(inodes[path.inode].data) > MaxBytes
         THEN Refuse
         ELSE handle' = [handle EXCEPT !.pc = "open", !.inode = path.inode]
    /\ UNCHANGED <<path, inodes, clock, fileEdits, versions>>

\* The descriptor is of the file the path names now, and that file is not
\* replaced under it any more.
OpenFile ==
    /\ handle.pc = "open"
    /\ IF (path.link /\ noFollow) \/ path.inode # handle.inode
         THEN Refuse
         ELSE handle' = [handle EXCEPT !.pc = "stat"]
    /\ UNCHANGED <<path, inodes, clock, fileEdits, noFollow, expected, versions>>

StatOpened ==
    /\ handle.pc = "stat"
    /\ handle' = [handle EXCEPT !.pc = "read", !.opened = inodes[handle.inode]]
    /\ UNCHANGED <<path, inodes, clock, fileEdits, noFollow, expected, versions>>

ReadChunk ==
    LET data == inodes[handle.inode].data
        k    == Len(handle.got) + 1
    IN  /\ handle.pc = "read" /\ k <= Len(data)
        /\ IF k > MaxBytes THEN Refuse
           ELSE handle' = [handle EXCEPT !.got = Append(@, data[k])]
        /\ UNCHANGED <<path, inodes, clock, fileEdits, noFollow, expected, versions>>

\* Mutant: only the size is compared.
IsUnchanged_InSize(opened, after, got) ==
    Len(opened.data) = Len(after.data) /\ Len(got) = Len(after.data)

\* The file has the size and the modification time it was opened with, and as
\* many bytes were read.
IsUnchanged(opened, after, got) ==
    /\ Len(opened.data) = Len(after.data) /\ opened.mtime = after.mtime
    /\ Len(got) = Len(after.data)

FinishReading ==
    /\ handle.pc = "read" /\ Len(handle.got) >= Len(inodes[handle.inode].data)
    /\ IF IsUnchanged(handle.opened, inodes[handle.inode], handle.got)
             /\ expected \in {NoContent, handle.got}
         THEN handle' = [handle EXCEPT !.pc = "done"]
         ELSE Refuse
    /\ UNCHANGED <<path, inodes, clock, fileEdits, noFollow, expected, versions>>

FileNext ==
    \/ Tick \/ ReplacePath \/ WriteInPlace
    \/ Examine \/ OpenFile \/ StatOpened \/ ReadChunk \/ FinishReading

FileSpec == FileInit /\ [][FileNext]_fileVars

-----------------------------------------------------------------------------
(* Properties *)

\* The file was written in the very tick in which it had last been modified when
\* it was opened, and has the size again that it had: neither comparison tells.
IsUnnoticeable ==
    /\ Len(inodes[handle.inode].data) = Len(handle.opened.data)
    /\ \E v \in versions : v.mtime = handle.opened.mtime /\ v.data # handle.opened.data

\* What is read is what the file held when it was opened, complete, however the
\* path and the file change meanwhile; only writes within one clock tick that
\* leave the size can go unnoticed.  Losing one of the comparisons yields half of
\* one version and half of another (read_verified_file, _hash_file).
ReadIsOneVersion ==
    handle.pc = "done" => handle.got = handle.opened.data \/ IsUnnoticeable
=============================================================================
