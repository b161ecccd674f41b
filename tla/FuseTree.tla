------------------------------ MODULE FuseTree ------------------------------
(***************************************************************************)
(* The file system in memory (fuse.rs, fuse_inmem): the tree built from    *)
(* the database at every refresh, the calls of the kernel on it, and       *)
(* rename, the one call that changes the database and the backend.         *)
(*                                                                         *)
(* One thread serves the calls. It takes the state's mutex to read the     *)
(* rows and again for every entry that it renames; between the two the     *)
(* handlers of the peers' messages change the rows and files are uploaded. *)
(***************************************************************************)
EXTENDS Integers, FiniteSets, Sequences, SequencesExt, Functions

CONSTANTS
    Folder,       \* folder -> rowid of the top folder
    InitialRows,  \* path -> row
    Arriving,     \* files a peer may add
    NewName,      \* the names a user gives
    EntriesStart, \* ENTRIES_START, 2^32
    MaxRenames,   \* bound on renames
    MaxEvents     \* bound on peers' changes, failures of rclone and crashes

ASSUME FuseAssumption ==
    /\ IsFiniteSet(DOMAIN InitialRows) /\ IsFiniteSet(DOMAIN Folder)
    /\ DOMAIN Folder \union NewName \union {"/"} \subseteq STRING
    /\ \A p \in DOMAIN InitialRows \union Arriving :
          p \in Seq(STRING) /\ Len(p) > 1 /\ Head(p) \in DOMAIN Folder
    /\ \A p \in DOMAIN InitialRows :
          InitialRows[p] \in [id : 1 .. Cardinality(DOMAIN InitialRows), version : Nat,
                             located : BOOLEAN, dir : BOOLEAN]
    /\ \A p, q \in DOMAIN InitialRows : InitialRows[p].id = InitialRows[q].id => p = q
    /\ \A f \in DOMAIN Folder : Folder[f] \in Nat /\ 10 + Folder[f] < EntriesStart
    /\ {EntriesStart, MaxRenames, MaxEvents} \subseteq Nat

VARIABLES
    rows,     \* bep_file_info of the local device, with bep_file_location:
              \* path -> [id, version, located, dir]
    remote,   \* objects at the backend: path -> version
    uploads,  \* uploads between the copy and update_file_locations
    fs_mem,   \* [tree, known, live]: the entries of the tree by path, the
              \* keys of nodes, and those whose weak reference is valid
    files,    \* rows read by the last refresh
    queue,    \* the paths of files that are not in the tree yet
    held,     \* inodes the kernel knows, as [ino, dir]
    call,     \* the call being served
    todo,     \* collector.vec: the entries a rename still has to move
    replaced, \* history: inodes of rows that were deleted and inserted again
    behind,   \* history: rowids changed in place and not uploaded since
    faults,   \* history: what excuses a property below
    used      \* how often each bounded event happened

database == <<rows, remote, uploads, replaced, behind>>
memory == <<fs_mem, files, queue, held>>
vars == <<database, memory, call, todo, faults, used>>

Happens(event) == /\ used["update"] + used["failure"] + used["crash"] < MaxEvents
                  /\ used' = [used EXCEPT ![event] = @ + 1]
Blame(S) == faults' = faults \union S
If(cond, fault) == IF cond THEN {fault} ELSE {}

-----------------------------------------------------------------------------
Root == 1
top_dir_id(f) == 10 + Folder[f]
entry_id(id) == id + EntriesStart

FolderNode(f) == [ino |-> top_dir_id(f), version |-> 0, located |-> FALSE, dir |-> TRUE]
FileNode(row) == [ino |-> entry_id(row.id), version |-> row.version,
                  located |-> row.located, dir |-> row.dir]

NewMem == [tree |-> <<>>, known |-> {Root}, live |-> {Root}]
NoCall == [pc |-> "idle", panic |-> "none", ino |-> Root]

PathOf(ino) == IF ino = Root THEN <<>>
               ELSE CHOOSE p \in DOMAIN fs_mem.tree : fs_mem.tree[p].ino = ino
With(f, p, v) == [q \in DOMAIN f \union {p} |-> IF q = p THEN v ELSE f[q]]
Without(f, S) == Restrict(f, DOMAIN f \ S)
Below(p) == {q \in DOMAIN rows : IsStrictPrefix(p, q)}
Orphan(p, S) == Len(p) > 2 /\ Front(p) \notin S

-----------------------------------------------------------------------------
(* The handlers of Index and IndexUpdate hold the mutex, which a rename    *)
(* holds from mv_file_info to the end of rm_remote.                        *)
Unlocked == call.pc # "remove"
NewId == Cardinality(DOMAIN InitialRows) + used["update"] + 1

(* IndexUpdate, rm_replace_file_info: a changed entry is deleted and       *)
(* inserted again, which drops its locations. Its rowid is new: the peer's *)
(* row was inserted just before.                                           *)
Update(p) ==
    /\ Unlocked /\ Happens("update")
    /\ rows' = [rows EXCEPT ![p] = [id |-> NewId, version |-> @.version + 1,
                                    located |-> FALSE, dir |-> @.dir]]
    /\ replaced' = replaced \union {entry_id(rows[p].id)}
    /\ UNCHANGED <<remote, uploads, behind, memory, call, todo, faults>>

(* Index, insert_file_info: a changed entry is updated in place, ON        *)
(* CONFLICT DO UPDATE, and keeps its rowid and its locations.              *)
UpdateInPlace(p) ==
    /\ Unlocked /\ Happens("update")
    /\ rows' = [rows EXCEPT ![p].version = @ + 1]
    /\ behind' = behind \union {rows[p].id}
    /\ UNCHANGED <<remote, uploads, replaced, memory, call, todo, faults>>

Arrive(p) ==
    /\ Unlocked /\ p \notin DOMAIN rows /\ Happens("update")
    /\ rows' = With(rows, p, [id |-> NewId, version |-> 1, located |-> FALSE, dir |-> FALSE])
    /\ Blame(If(Orphan(p, DOMAIN rows), "late directory"))
    /\ UNCHANGED <<remote, uploads, replaced, behind, memory, call, todo>>

(* The end of a download: cp_local_to_remote, then update_file_locations,  *)
(* which breaks a foreign key when the row is gone. A file that has been   *)
(* changed in place is uploaded over its object, which a rename may have   *)
(* copied already. The exit status of rclone is not looked at.             *)
Outdated(p) == rows[p].located /\ rows[p].id \in behind
Copied(p) == call.pc = "move" /\ Head(todo).from = p /\ rows[p].located

StartUpload(p) ==
    /\ ~rows[p].dir /\ (~rows[p].located \/ Outdated(p))
    /\ \A u \in uploads : u.path # p
    /\ \/ /\ remote' = With(remote, p, rows[p].version)
          /\ behind' = behind \ {rows[p].id}
          /\ Blame(If(Copied(p), "upload"))
          /\ UNCHANGED used
       \/ /\ Happens("failure") /\ Blame({"copy"})
          /\ UNCHANGED <<remote, behind>>
    /\ uploads' = uploads \union {[path |-> p, id |-> rows[p].id]}
    /\ UNCHANGED <<rows, replaced, memory, call, todo>>

EndUpload(u) ==
    /\ Unlocked
    /\ uploads' = uploads \ {u}
    /\ IF u.path \in DOMAIN rows
       THEN /\ rows' = [rows EXCEPT ![u.path].located = TRUE]
            /\ Blame(If(rows[u.path].id # u.id, "upload"))
       ELSE UNCHANGED <<rows, faults>>
    /\ UNCHANGED <<remote, replaced, behind, memory, call, todo, used>>

-----------------------------------------------------------------------------
(* refresh_expired_folders_files reads the rows, in any order, when the    *)
(* last refresh is old enough. The nodes of the top folders are replaced,  *)
(* which drops every entry of theirs.                                      *)
\* Mutant: the top folder keeps its entries.
insert_folders_kept ==
    [tree |-> [p \in {<<f>> : f \in DOMAIN Folder} \union DOMAIN fs_mem.tree |->
                 IF Len(p) = 1 THEN FolderNode(p[1]) ELSE fs_mem.tree[p]],
     known |-> fs_mem.known \union {top_dir_id(f) : f \in DOMAIN Folder},
     live |-> {Root} \union {top_dir_id(f) : f \in DOMAIN Folder}]
insert_folders ==
    [tree |-> [p \in {<<f>> : f \in DOMAIN Folder} |-> FolderNode(p[1])],
     known |-> fs_mem.known \union {top_dir_id(f) : f \in DOMAIN Folder},
     live |-> {Root} \union {top_dir_id(f) : f \in DOMAIN Folder}]

refresh_expired_folders_files ==
    \/ /\ files' = rows
       /\ queue' \in SetToSeqs(DOMAIN rows)
       /\ fs_mem' = insert_folders
    \/ UNCHANGED <<files, queue, fs_mem>>

(* The kernel calls, whatever the call, and the tree is brought up to date.*)
StartCall ==
    /\ call.pc = "idle"
    /\ call' = [call EXCEPT !.pc = "refresh"]
    /\ refresh_expired_folders_files
    /\ UNCHANGED <<database, held, todo, faults, used>>

\* Mutant: the reference of an inode that is known stays as it is.
insert_file_known(p) ==
    IF Front(p) \notin DOMAIN fs_mem.tree THEN fs_mem
    ELSE [tree |-> With(fs_mem.tree, p, FileNode(files[p])),
          known |-> fs_mem.known \union {entry_id(files[p].id)},
          live |-> fs_mem.live \union ({entry_id(files[p].id)} \ fs_mem.known)]
(* insert_file: an entry whose directory is not there is not inserted.     *)
insert_file(p) ==
    IF Front(p) \notin DOMAIN fs_mem.tree THEN fs_mem
    ELSE [tree |-> With(fs_mem.tree, p, FileNode(files[p])),
          known |-> fs_mem.known \union {entry_id(files[p].id)},
          live |-> fs_mem.live \union {entry_id(files[p].id)}]

\* Mutant: an entry without its directory is tried again first.
RequeuedFirst(p) == <<p>> \o Tail(queue)
Requeued(p) == Append(Tail(queue), p)

InsertFile ==
    LET p == Head(queue)
    IN  /\ call.pc = "refresh" /\ queue # <<>>
        /\ fs_mem' = insert_file(p)
        /\ queue' = IF Front(p) \in DOMAIN fs_mem.tree THEN Tail(queue) ELSE Requeued(p)
        /\ UNCHANGED <<database, files, held, call, todo, faults, used>>

-----------------------------------------------------------------------------
Panic(why, ino) == call' = [pc |-> "panicked", panic |-> why, ino |-> ino]
Ready == call.pc = "refresh" /\ queue = <<>>
Dead(ino) == ino \in fs_mem.known \ fs_mem.live

(* getattr_mem, readdir_mem and read_mem follow the reference alike; what  *)
(* a read does next is ReadCache's.                                        *)
getattr_mem(ino) ==
    /\ Ready
    /\ IF Dead(ino) THEN Panic("dead reference", ino) ELSE call' = NoCall
    /\ UNCHANGED <<database, memory, todo, faults, used>>

lookup_mem(parent_ino, name) ==
    LET child == PathOf(parent_ino) \o <<name>>
    IN  /\ Ready
        /\ \/ Dead(parent_ino) /\ Panic("dead reference", parent_ino) /\ UNCHANGED held
           \/ /\ parent_ino \in fs_mem.live /\ child \in DOMAIN fs_mem.tree
              /\ held' = held \union {[ino |-> fs_mem.tree[child].ino,
                                       dir |-> fs_mem.tree[child].dir]}
              /\ call' = NoCall
        /\ UNCHANGED <<database, fs_mem, files, queue, todo, faults, used>>

\* Mutant: a directory is moved without its entries.
traverse_self(S) == {<<p>> : p \in {p \in S : \A q \in S : IsPrefix(p, q)}}
(* The orders in which the entries of a directory come right before it.    *)
traverse_post(S) ==
    {s \in SetToSeqs(S) : \A i, k \in DOMAIN s : IsStrictPrefix(s[k], s[i]) =>
                            i < k /\ \A j \in i .. k : IsPrefix(s[k], s[j])}

(* The new name: that of the destination's directory and the given one, in *)
(* the folder of the entry, whatever the folder of the destination.        *)
dest_file_name(p, orig, dest) ==
    <<Head(p)>> \o Tail(dest) \o SubSeq(p, Len(orig) + 1, Len(p))

(* rename_mem, for directories the kernel knows; one out of the root is    *)
(* refused, as is (by the kernel) one of a directory into itself.          *)
rename_mem(orig_parent, orig_name, dest_parent, dest_name) ==
    LET orig == PathOf(orig_parent) \o <<orig_name>>
        dest == (IF dest_parent = Root THEN <<"/">> ELSE PathOf(dest_parent)) \o <<dest_name>>
    IN  /\ Ready /\ orig_parent # Root
        /\ {orig_parent, dest_parent} \subseteq fs_mem.live
        /\ orig \in DOMAIN fs_mem.tree /\ ~IsPrefix(orig, Front(dest))
        /\ used["rename"] < MaxRenames /\ used' = [used EXCEPT !["rename"] = @ + 1]
        /\ \E s \in traverse_post({q \in DOMAIN fs_mem.tree : IsPrefix(orig, q)}) :
             todo' = [i \in DOMAIN s |-> [from |-> s[i], node |-> fs_mem.tree[s[i]],
                                          to |-> dest_file_name(s[i], orig, dest)]]
        /\ call' = [call EXCEPT !.pc = "copy"]
        /\ Blame(If(Orphan(dest, DOMAIN rows), "stale")
                 \union If(dest_parent # Root /\ Head(dest) # Head(orig), "folder"))
        /\ UNCHANGED <<database, memory>>

-----------------------------------------------------------------------------
(* One entry of a rename.                                                  *)
e == Head(todo)
Stale == e.from \notin DOMAIN rows \/ FileNode(rows[e.from]) # e.node
(* A row that the tree does not have, so that the rename leaves it behind. *)
Unseen(p) == p \notin DOMAIN fs_mem.tree \/ fs_mem.tree[p].ino # entry_id(rows[p].id)
NextEntry ==
    /\ todo' = Tail(todo)
    /\ call' = IF Len(todo) = 1 THEN NoCall ELSE [call EXCEPT !.pc = "copy"]

\* Mutant: moveto in place of copyto.
MovedObject == IF e.node.located /\ e.from \in DOMAIN remote
               THEN With(Without(remote, {e.from}), e.to, remote[e.from]) ELSE remote
CopiedObject == IF e.node.located /\ e.from \in DOMAIN remote
                THEN With(remote, e.to, remote[e.from]) ELSE remote

(* cp_remote_to_remote, without the mutex, from the location the node      *)
(* knows. The exit status of rclone is not looked at; only an rclone that  *)
(* cannot be started is an error, which leaves the entry where it is.      *)
cp_remote_to_remote ==
    /\ call.pc = "copy"
    /\ \/ /\ remote' = CopiedObject
          /\ Blame(If(Stale, "stale") \union If(e.to \in DOMAIN rows, "exists"))
          /\ call' = [call EXCEPT !.pc = "move"]
          /\ UNCHANGED <<todo, used>>
       \/ /\ e.node.located /\ Happens("failure")
          /\ Blame({"copy"})
          /\ call' = [call EXCEPT !.pc = "move"]
          /\ UNCHANGED <<remote, todo>>
       \/ /\ e.node.located /\ Happens("failure")
          /\ Blame({"start"})
          /\ NextEntry
          /\ UNCHANGED remote
    /\ UNCHANGED <<rows, uploads, replaced, behind, memory>>

(* mv_file_info, one transaction: the name, then the locations of the new  *)
(* name, which become those that were copied.                              *)
MovedRow == With(Without(rows, {e.from}), e.to,
                 [rows[e.from] EXCEPT !.located = e.node.located])
mv_file_info ==
    /\ call.pc = "move"
    /\ Blame(If(Stale \/ \E p \in Below(e.from) : Unseen(p), "stale")
             \union If(e.to \in DOMAIN rows, "exists")
             \union If(\E u \in uploads : IsPrefix(e.from, u.path) \/ u.path = e.to, "upload"))
    /\ \/ /\ e.from \in DOMAIN rows /\ (e.to = e.from \/ e.to \notin DOMAIN rows)
          /\ rows' = MovedRow
          /\ call' = [call EXCEPT !.pc = "remove"]
       \/ /\ e.from \notin DOMAIN rows /\ (e.to \in DOMAIN rows \/ ~e.node.located)
          /\ rows' = [p \in DOMAIN rows |->
                        IF p = e.to THEN [rows[p] EXCEPT !.located = e.node.located] ELSE rows[p]]
          /\ call' = [call EXCEPT !.pc = "remove"]
       \/ /\ e.from \in DOMAIN rows /\ e.to # e.from /\ e.to \in DOMAIN rows
          /\ Panic("not unique", e.node.ino) /\ UNCHANGED rows
       \/ /\ e.from \notin DOMAIN rows /\ e.to \notin DOMAIN rows /\ e.node.located
          /\ Panic("foreign key", e.node.ino) /\ UNCHANGED rows
    /\ UNCHANGED <<remote, uploads, replaced, behind, memory, todo, used>>

(* rm_remote: rclone delete removes what is below a directory, too. Its    *)
(* exit status is not looked at; an rclone that cannot be started or       *)
(* waited for is a panic.                                                  *)
Gone == {q \in DOMAIN remote : IsPrefix(e.from, q)}
rm_remote ==
    /\ call.pc = "remove"
    /\ \/ /\ remote' = Without(remote, Gone)
          /\ NextEntry
          /\ UNCHANGED <<faults, used>>
       \/ /\ Happens("failure")
          /\ \E S \in SUBSET Gone : remote' = Without(remote, S)
          /\ NextEntry
          /\ UNCHANGED faults
       \/ /\ Happens("failure")
          /\ Blame({"start"})
          /\ Panic("rclone", e.node.ino)
          /\ UNCHANGED <<remote, todo>>
    /\ UNCHANGED <<rows, uploads, replaced, behind, memory>>

(* The process dies and is started again: the kernel's inodes are gone.    *)
Crash ==
    /\ Happens("crash")
    /\ Blame(If(call.pc \in {"copy", "move", "remove"}, "crash"))
    /\ fs_mem' = NewMem /\ files' = <<>> /\ queue' = <<>>
    /\ held' = {[ino |-> Root, dir |-> TRUE]}
    /\ call' = NoCall /\ todo' = <<>> /\ uploads' = {}
    /\ UNCHANGED <<rows, remote, replaced, behind>>

-----------------------------------------------------------------------------
Init ==
    /\ rows = InitialRows
    /\ remote = [p \in {p \in DOMAIN rows : rows[p].located} |-> rows[p].version]
    /\ uploads = {} /\ replaced = {} /\ behind = {} /\ faults = {}
    /\ fs_mem = NewMem /\ files = <<>> /\ queue = <<>>
    /\ held = {[ino |-> Root, dir |-> TRUE]}
    /\ call = NoCall /\ todo = <<>>
    /\ used = [event \in {"update", "rename", "failure", "crash"} |-> 0]

Serve ==
    \/ \E h \in held : getattr_mem(h.ino)
    \/ \E h \in held, n \in NewName \union DOMAIN Folder : h.dir /\ lookup_mem(h.ino, n)
    \/ \E h, g \in held, n, as \in NewName :
         h.dir /\ g.dir /\ rename_mem(h.ino, n, g.ino, as)

Thread == InsertFile \/ Serve \/ cp_remote_to_remote \/ mv_file_info \/ rm_remote

Next ==
    \/ \E p \in DOMAIN rows : Update(p) \/ UpdateInPlace(p) \/ StartUpload(p)
    \/ \E p \in Arriving : Arrive(p)
    \/ \E u \in uploads : EndUpload(u)
    \/ StartCall
    \/ Thread
    \/ Crash

(* The thread of the file system goes on with the call it serves.          *)
Spec == Init /\ [][Next]_vars /\ WF_vars(Thread)

-----------------------------------------------------------------------------
(* After a refresh the tree has the entries of the rows that were read and *)
(* no other: nothing that was renamed since the last one stays.            *)
TreeIsSnapshot ==
    queue = <<>> => /\ {p \in DOMAIN fs_mem.tree : Len(p) > 1} = DOMAIN files
                    /\ \A p \in DOMAIN files : fs_mem.tree[p] = FileNode(files[p])

(* "Safe to unwrap, the reference must always be valid" (fuse.rs): a call  *)
(* meets a dead reference only if a peer's change replaced the row after   *)
(* the kernel had looked it up.                                            *)
DeadOnlyIfReplaced ==
    call.pc = "panicked" /\ call.panic = "dead reference" => call.ino \in replaced

(* Every call ends, whatever the order of the rows, unless a row without   *)
(* its directory makes the refresh go round for ever (fuse.rs, TODO).      *)
CallsEnd ==
    call.pc # "idle" ~> \/ call.pc \in {"idle", "panicked"}
                        \/ \E i \in DOMAIN queue : Orphan(queue[i], DOMAIN files)

(* Between two calls every row has its directory, so that the next refresh *)
(* ends: a directory is renamed with all of its entries. Excused are       *)
(* renames by a stale tree, which may be one that lacks a file added       *)
(* since, or to another folder, ones that a crash or an error cut short,   *)
(* and files that arrive ahead of their directory.                         *)
RowsHaveDirectory ==
    /\ call.pc = "idle"
    /\ faults \intersect {"stale", "folder", "start", "crash", "late directory"} = {}
    => \A p \in DOMAIN rows : ~Orphan(p, DOMAIN rows)

(* The object of a located file is at the backend, at every step of a      *)
(* rename and after a crash between any two, and in the version of the row *)
(* unless a full Index has changed the row in place, which keeps its       *)
(* location, and the file has not been uploaded again. Excused are renames *)
(* by a stale tree, to another folder or to a name in use, ones during an  *)
(* upload of what they move, and failures of rclone.                       *)
LocatedAtBackend ==
    faults \intersect {"stale", "folder", "exists", "upload", "copy", "start"} = {}
    => \A p \in DOMAIN rows : rows[p].located =>
         /\ p \in DOMAIN remote
         /\ rows[p].id \notin behind => remote[p] = rows[p].version
=============================================================================
