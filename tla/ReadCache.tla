------------------------------ MODULE ReadCache ------------------------------
(***************************************************************************)
(* Reading a file through FUSE: the local copy kept by fuse.rs,            *)
(* storage.rs and the rows of bep_local_cache (bep_state.rs).              *)
(*                                                                         *)
(* One thread serves FUSE. A read holds the state mutex from its first to  *)
(* its last step, so the index handlers wait for it; an upload does not    *)
(* need the mutex for its copy, and the process may crash at any step. The *)
(* nodes a read works from are a copy of the database made earlier.        *)
(***************************************************************************)
EXTENDS Integers, FiniteSets, FiniteSetsExt, Sequences, SequencesExt

CONSTANTS
    File,
    SizeOf,        \* file -> size of each of its versions
    CacheSize,     \* config.read_cache_size
    Announcement,  \* how changes arrive: subset of {"index", "update"}
    MaxCrashes     \* bound

ASSUME CacheAssumption ==
    /\ IsFiniteSet(File)
    /\ \A f \in File : Len(SizeOf[f]) > 0 /\ \A v \in 1 .. Len(SizeOf[f]) : SizeOf[f][v] \in Nat
    /\ CacheSize \in Nat
    /\ Announcement \subseteq {"index", "update"} /\ MaxCrashes \in Nat

VARIABLES
    info,     \* bep_file_info: version of each file
    located,  \* bep_file_location: files with a row
    remote,   \* version of each file at the backend, 0 if none
    cache,    \* bep_local_cache in the order of timestamp_added
    dir,      \* read_cache_dir: version of each file, 0 if none
    node,     \* fs_mem: version and location of each file at the last refresh
    reader,   \* the read in progress
    crashes,
    \* Observation.
    uncopied  \* files whose last copyto to the cache failed

vars == <<info, located, remote, cache, dir, node, reader, crashes, uncopied>>

Idle == [pc |-> "idle", file |-> "none", victims |-> {}]

NodeSize(f) == SizeOf[f][node[f].version]

(* Rows are joined with bep_file_info: the size is that of the version in  *)
(* the database, whatever was copied.                                      *)
UsedBytes(files) ==
    Cardinality(UNION {{f} \X (1 .. SizeOf[f][info[f]]) : f \in ToSet(files)})

is_file_in_read_cache(f) == f \in ToSet(cache)

-----------------------------------------------------------------------------
(* A peer's change, while no read holds the mutex: insert_file_info keeps  *)
(* the rows of the cache and of the locations, rm_replace_file_info        *)
(* deletes them by cascade. Neither touches the copy in read_cache_dir.    *)
Change(f, kind) ==
    /\ reader.pc \in {"idle", "panicked"} /\ info[f] < Len(SizeOf[f])
    /\ info' = [info EXCEPT ![f] = @ + 1]
    /\ IF kind = "index" THEN UNCHANGED <<located, cache>>
       ELSE /\ located' = located \ {f}
            /\ cache' = RemoveFirst(cache, f)
    /\ UNCHANGED <<remote, dir, node, reader, crashes, uncopied>>

(* The end of a download: cp_local_to_remote, which needs no mutex, then   *)
(* update_file_locations, which does.                                      *)
CopyToRemote(f) ==
    /\ remote[f] # info[f]
    /\ remote' = [remote EXCEPT ![f] = info[f]]
    /\ UNCHANGED <<info, located, cache, dir, node, reader, crashes, uncopied>>

Locate(f) ==
    /\ reader.pc \in {"idle", "panicked"} /\ f \notin located /\ remote[f] = info[f]
    /\ located' = located \cup {f}
    /\ UNCHANGED <<info, remote, cache, dir, node, reader, crashes, uncopied>>

(* refresh_expired_folders_files, on the thread that reads.                *)
Refresh ==
    /\ reader.pc = "idle"
    /\ node' = [f \in File |-> [version |-> info[f], located |-> f \in located]]
    /\ UNCHANGED <<info, located, remote, cache, dir, reader, crashes, uncopied>>

-----------------------------------------------------------------------------
\* Mutant: the file is recorded before room is made for it.
read_mem_recorded(f) ==
    /\ reader.pc = "idle" /\ NodeSize(f) <= CacheSize
    /\ reader' = [reader EXCEPT !.file = f,
                     !.pc = IF is_file_in_read_cache(f) THEN "update" ELSE "free rows"]
    /\ cache' = IF is_file_in_read_cache(f) THEN cache ELSE Append(cache, f)
    /\ UNCHANGED <<info, located, remote, dir, node, crashes, uncopied>>

(* read_mem and read_from_local_cache: a file larger than the cache is     *)
(* refused, a cached one is read, for another one room is made.            *)
read_mem(f) ==
    /\ reader.pc = "idle" /\ NodeSize(f) <= CacheSize
    /\ reader' = [reader EXCEPT !.file = f,
                     !.pc = IF is_file_in_read_cache(f) THEN "update" ELSE "free rows"]
    /\ UNCHANGED <<info, located, remote, cache, dir, node, crashes, uncopied>>

\* Mutant: room is made only when there is none at all.
EnoughIfAny(kept, needed) == UsedBytes(kept) < CacheSize \/ needed = 0

(* available_bytes >= needed_bytes, with the files of kept in the cache.   *)
Enough(kept, needed) == CacheSize - UsedBytes(kept) >= needed

(* free_read_cache of bep_state.rs: oldest rows first, no more than        *)
(* needed. When the files in use are already larger than the cache the     *)
(* subtraction underflows: it panics, or (without overflow checks) finds   *)
(* room enough.                                                            *)
FreeRows ==
    LET needed == NodeSize(reader.file)
        Kept(n) == SubSeq(cache, n + 1, Len(cache))
        n == Min({k \in 0 .. Len(cache) : k = Len(cache) \/ Enough(Kept(k), needed)})
    IN  /\ reader.pc = "free rows"
        /\ \/ /\ UsedBytes(cache) <= CacheSize
              /\ cache' = Kept(n)
              /\ reader' = [reader EXCEPT !.pc = "free files",
                               !.victims = ToSet(SubSeq(cache, 1, n))]
           \/ /\ UsedBytes(cache) > CacheSize
              /\ \E pc \in {"panicked", "free files"} : reader' = [reader EXCEPT !.pc = pc]
              /\ UNCHANGED cache
        /\ UNCHANGED <<info, located, remote, dir, node, crashes, uncopied>>

(* free_read_cache of storage.rs: try_join_all over remove_file. A missing *)
(* file is an error, by which time some of the others may be gone.         *)
FreeFiles ==
    /\ reader.pc = "free files"
    /\ IF \A f \in reader.victims : dir[f] # 0
       THEN /\ dir' = [f \in File |-> IF f \in reader.victims THEN 0 ELSE dir[f]]
            /\ reader' = [reader EXCEPT !.pc = "copy", !.victims = {}]
       ELSE /\ \E S \in SUBSET reader.victims :
                  dir' = [f \in File |-> IF f \in S THEN 0 ELSE dir[f]]
            /\ reader' = Idle
    /\ UNCHANGED <<info, located, remote, cache, node, crashes, uncopied>>

(* cp_remote_to_read_cache, from the location the node knows: rclone ls,   *)
(* then rclone copyto. Nothing listed, or an rclone that cannot be run,    *)
(* ends the read; the exit status of copyto is not looked at.              *)
CopyTo(f) ==
    \/ /\ dir' = [dir EXCEPT ![f] = remote[f]]
       /\ uncopied' = uncopied \ {f}
    \/ /\ uncopied' = uncopied \cup {f}
       /\ UNCHANGED dir

cp_remote_to_read_cache ==
    LET f == reader.file
    IN  /\ reader.pc = "copy"
        /\ \/ /\ node[f].located /\ remote[f] # 0
              /\ CopyTo(f)
              /\ reader' = [reader EXCEPT !.pc = "update"]
           \/ /\ reader' = Idle
              /\ UNCHANGED <<dir, uncopied>>
        /\ UNCHANGED <<info, located, remote, cache, node, crashes>>

(* update_read_cache, which leaves the time stamp of a known file alone;   *)
(* then read_cached.                                                       *)
update_read_cache ==
    LET f == reader.file
    IN  /\ reader.pc = "update"
        /\ cache' = IF is_file_in_read_cache(f) THEN cache ELSE Append(cache, f)
        /\ reader' = Idle
        /\ UNCHANGED <<info, located, remote, dir, node, crashes, uncopied>>

Crash ==
    /\ crashes < MaxCrashes
    /\ crashes' = crashes + 1
    /\ reader' = Idle
    /\ node' = [f \in File |-> [version |-> info[f], located |-> f \in located]]
    /\ UNCHANGED <<info, located, remote, cache, dir, uncopied>>

Init ==
    /\ info = [f \in File |-> 1] /\ remote = [f \in File |-> 1] /\ located = File
    /\ cache = <<>> /\ dir = [f \in File |-> 0]
    /\ node = [f \in File |-> [version |-> 1, located |-> TRUE]]
    /\ reader = Idle /\ crashes = 0 /\ uncopied = {}

Next ==
    \/ \E f \in File : \/ \E kind \in Announcement : Change(f, kind)
                       \/ CopyToRemote(f) \/ Locate(f) \/ read_mem(f)
    \/ Refresh \/ FreeRows \/ FreeFiles \/ cp_remote_to_read_cache \/ update_read_cache
    \/ Crash

Spec == Init /\ [][Next]_vars

-----------------------------------------------------------------------------
(* The files the rows stand for fit in the cache, so that the subtraction  *)
(* cache_size - used_bytes never underflows.                               *)
RowsWithinSize == UsedBytes(cache) <= CacheSize

(* A row stands for a copy that is there, unless the copyto made for it    *)
(* failed: no eviction, change, upload or crash between the steps of a     *)
(* read takes the copy of a row away or leaves a row before its copy.      *)
RowsBacked == \A f \in ToSet(cache) : dir[f] # 0 \/ f \in uncopied
=============================================================================
