--------------------------- MODULE ObservationCache ---------------------------
(***************************************************************************)
(* The directory that holds raw observations (merriv/engine/cache.py), as  *)
(* the processes that share it see it: which directories and files exist,  *)
(* what a lookup returns, and the file operations of which put consists.   *)
(* No process locks anything.                                              *)
(***************************************************************************)
EXTENDS Naturals

CONSTANTS
    Snapshots, Cases, Outputs, Seeds,
    Fingerprints,   \* of the adapter, of the executor and of the case's content
    Secrets,        \* HMAC keys
    Shards,         \* directories the entries are spread over
    ShardOf,        \* the shard of each key: the first digits of its digest
    LeftOver,       \* keys whose file, when there is one at first, is no envelope
    Absent,         \* no file
    Damaged         \* a file that is not an envelope

Keys == [snapshot : Snapshots, case : Cases, seed : Seeds, fingerprints : Fingerprints]

ASSUME ShardAssumption == ShardOf \in [Keys -> Shards]

ASSUME LeftOverAssumption == LeftOver \subseteq Keys

VARIABLES
    directories,   \* the directories that exist
    files,         \* what is at the path of each key
    temporaries    \* temporary files that exist, by owner

disk == <<directories, files, temporaries>>

Root == "root"

-----------------------------------------------------------------------------
(* Observations *)

\* An observation retained in full carries its output, any other only a digest.
Omitted == "omitted"
Retentions == {"full", "hash_only"}

Observations ==
    [snapshot : Snapshots, case : Cases, seed : Seeds, output : Outputs \cup {Omitted}, digest : Outputs,
     retention : Retentions, id : Snapshots \X Cases \X Seeds \X Outputs \X Retentions]

ContentId(o) == <<o.snapshot, o.case, o.seed, o.digest, o.retention>>

\* The digest of an output is the output's own name.
DigestHolds(o) == o.retention = "full" => o.digest = o.output

ObservationMatchesKey(o, key) ==
    /\ o.snapshot = key.snapshot /\ o.case = key.case
    /\ o.seed = key.seed
    /\ DigestHolds(o)
    /\ o.id = ContentId(o)

-----------------------------------------------------------------------------
(* Entries *)

Envelopes == [key : Keys, observation : Observations, tag : Secrets]

ASSUME FileAssumption ==
    Absent \notin Envelopes /\ Damaged \notin Envelopes

Envelope(key, o, secret) == [key |-> key, observation |-> o, tag |-> secret]

\* get: anything that is not an authentic envelope of this key is a miss.
IsHit(key, secret) ==
    /\ files[key] \notin {Absent, Damaged}
    /\ files[key].key = key
    /\ files[key].tag = secret
    /\ ObservationMatchesKey(files[key].observation, key)

\* A new cache, one whose creation was interrupted, or one of an older format.
DiskInit ==
    /\ \/ /\ directories \in {{}, {Root}}
          /\ files = [key \in Keys |-> Absent]
       \/ /\ directories = {Root} \cup Shards
          /\ files = [key \in Keys |-> IF key \in LeftOver THEN Damaged ELSE Absent]
    /\ temporaries = {}

\* A directory is made without tolerating one that exists.
MakeDirectory(d) ==
    /\ d \notin directories
    /\ directories' = directories \cup {d}
    /\ UNCHANGED <<files, temporaries>>

WriteTemporary(owner) ==
    /\ temporaries' = temporaries \cup {owner}
    /\ UNCHANGED <<directories, files>>

\* What the finally clause does after an exception.
Unlink(owner) ==
    /\ temporaries' = temporaries \ {owner}
    /\ UNCHANGED <<directories, files>>

\* Mutant: the target is truncated before it is filled.
Replace_InPlace(owner, key, entry) ==
    /\ files' = [files EXCEPT ![key] = IF files[key] = Absent THEN entry ELSE Damaged]
    /\ temporaries' = temporaries \ {owner}
    /\ UNCHANGED directories

\* os.replace: the entry becomes visible at once and as a whole.
Replace(owner, key, entry) ==
    /\ files' = [files EXCEPT ![key] = entry]
    /\ temporaries' = temporaries \ {owner}
    /\ UNCHANGED directories
=============================================================================
