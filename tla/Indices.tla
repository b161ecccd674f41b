------------------------------ MODULE Indices ------------------------------
(***************************************************************************)
(* The indices of one folder: what the database holds of every device and  *)
(* the copy in memory (src/core/indices.rs, bep_state.rs), under the       *)
(* handlers of ClusterConfig, Index and IndexUpdate (bep_processor.rs).    *)
(* Every read of a connection is handled by a task of its own, so messages *)
(* are handled in any order; a handler holds the state's mutex while it    *)
(* compares and stores. A file is its version vector, its time of          *)
(* modification and the deletion mark.                                     *)
(***************************************************************************)
EXTENDS Integers, FiniteSets

CONSTANTS
    Peer,         \* short ids of the peers, numbers above Local's
    Local,        \* short id of this device
    Name,         \* file names
    Clock,        \* peer, name -> the times of modification it may give the file
    NotLoaded,    \* the index of a device is not in memory
    MaxChanges,   \* bound on changes at the peers
    MaxConnects,  \* bound on connections
    MaxRestarts,  \* bound on crashes
    MaxRenames    \* bound on renames

ASSUME IndicesAssumption ==
    /\ Peer \subseteq Nat /\ Local \in Nat \ Peer
    /\ IsFiniteSet(Peer) /\ IsFiniteSet(Name)
    /\ Clock \in [Peer \X Name -> SUBSET Nat]
    /\ {MaxChanges, MaxConnects, MaxRestarts, MaxRenames} \subseteq Nat
    /\ \A S \in SUBSET Name :
         NotLoaded \notin [S -> [version : SUBSET (Nat \X Nat), modified : Nat, deleted : BOOLEAN]]

Device == Peer \union {Local}

VARIABLES
    own,        \* peer -> name -> file: the peers' folders
    connected,  \* peers that are connected
    msgs,       \* messages read from the connections and not yet handled
    state,      \* [rows, cache]: the database and the indices in memory
    bep_index,  \* devices with a row in bep_index
    renamed,    \* names that renames touched since the process started
    mode,       \* fuse_inmem: "mem" or "db" once a rename has used it
    apart,      \* names for which a rename left memory and rows apart
    lost,       \* a handler met a missing row of bep_index and panicked
    panicked,   \* a handler met two versions it cannot order and panicked
    changes, connects, restarts, moves

peers == <<own, connected, changes, connects>>
renames == <<renamed, mode, apart, moves>>
local == <<state, bep_index, renames, lost, panicked, restarts>>
vars == <<peers, msgs, local>>

-----------------------------------------------------------------------------
(* Version vectors as sets of counters <<id, value>>.                      *)
Value(v, id) == LET own_values == {c[2] : c \in {c \in v : c[1] = id}}
                IN IF own_values = {} THEN 0
                   ELSE CHOOSE x \in own_values : \A y \in own_values : x >= y
Descends(v, w) == \A c \in w : Value(v, c[1]) >= c[2]
Before(v, w) == Descends(w, v) /\ ~Descends(v, w)

(* max_by_key: the last of the counters with the largest value.            *)
max_counter(v) == CHOOSE c \in v : \A e \in v :
                    c[2] > e[2] \/ (c[2] = e[2] /\ c[1] >= e[1])

\* Mutant: only the first counter, that of the lowest id, is looked at.
partial_cmp_first(a, b) ==
    LET First(v) == CHOOSE c \in v : \A e \in v : c[1] < e[1] \/ (c[1] = e[1] /\ c[2] <= e[2])
        x == First(a.version)  y == First(b.version)
    IN IF x[2] < y[2] THEN "Less" ELSE IF x[2] > y[2] THEN "Greater"
       ELSE IF x[1] = y[1] THEN "Equal" ELSE "None"
partial_cmp_file_version(a, b) ==
    LET x == max_counter(a.version)  y == max_counter(b.version)
    IN IF x[2] < y[2] THEN "Less" ELSE IF x[2] > y[2] THEN "Greater"
       ELSE IF x[1] = y[1] THEN "Equal" ELSE "None"

(* diff_indices: newly_added_files. The files in conflict are collected    *)
(* and used by nobody; with the same times the comparison panics.          *)
Common(added, existing) == DOMAIN added \intersect DOMAIN existing
\* Mutant: an older version counts as a change too.
NewlyAddedIfOther(added, existing) ==
    [n \in {n \in DOMAIN added : n \in DOMAIN existing =>
              partial_cmp_file_version(existing[n], added[n]) # "Equal"} |-> added[n]]
NewlyAdded(added, existing) ==
    [n \in {n \in DOMAIN added : n \in DOMAIN existing =>
              partial_cmp_file_version(existing[n], added[n]) = "Less"} |-> added[n]]
DiffPanics(added, existing) ==
    \E n \in Common(added, existing) :
       /\ partial_cmp_file_version(existing[n], added[n]) = "None"
       /\ added[n].modified = existing[n].modified

-----------------------------------------------------------------------------
(* The operations of BepState on the rows of a device and its index in     *)
(* memory; s is a value of the variable state.                             *)
NoFiles == [n \in {} |-> 0]
With(files, news) ==
    [n \in DOMAIN files \union DOMAIN news |-> IF n \in DOMAIN news THEN news[n] ELSE files[n]]
Without(files, S) == [n \in DOMAIN files \ S |-> files[n]]
Kept(news) == Without(news, {n \in DOMAIN news : news[n].deleted})

(* index: from memory if it is there, else from the database.              *)
index(s, d) == IF s.cache[d] = NotLoaded THEN [s EXCEPT !.cache[d] = s.rows[d]] ELSE s

(* indices: those of this device, which are sent to the peer.              *)
indices(s) == index(s, Local)

InMemory(s, d) == IF s.cache[d] = NotLoaded THEN NoFiles ELSE s.cache[d]

replace_index(s, d, files) ==
    [s EXCEPT !.rows[d] = files, !.cache[d] = files]

(* insert_file_info keeps the counters of the version it overwrites.       *)
\* Mutant: the index in memory is not updated.
insert_rows_only(s, d, news) ==
    [s EXCEPT !.rows[d] = With(@, [n \in DOMAIN news |->
                 IF n \in DOMAIN s.rows[d]
                 THEN [news[n] EXCEPT !.version = @ \union s.rows[d][n].version]
                 ELSE news[n]])]
insert_file_info(s, d, news) ==
    [s EXCEPT !.rows[d] = With(@, [n \in DOMAIN news |->
                 IF n \in DOMAIN s.rows[d]
                 THEN [news[n] EXCEPT !.version = @ \union s.rows[d][n].version]
                 ELSE news[n]]),
              !.cache[d] = With(InMemory(s, d), news)]

(* rm_replace_file_info leaves the files marked deleted as they are.       *)
\* Mutant: deletions are stored like other changes.
rm_replace_deleted(s, d, news) ==
    [s EXCEPT !.rows[d] = With(@, news), !.cache[d] = With(InMemory(s, d), news)]
rm_replace_file_info(s, d, news) ==
    [s EXCEPT !.rows[d] = With(@, Kept(news)),
              !.cache[d] = With(InMemory(s, d), Kept(news))]

(* mv_file_info renames the row and leaves the memory as it is.            *)
mv_file_info(s, n, dest) ==
    [s EXCEPT !.rows[Local] = With(Without(@, {n}), [x \in {dest} |-> s.rows[Local][n]])]

(* rm_file_info removes the row and the file in memory.                    *)
rm_file_info(s, d, n) ==
    [s EXCEPT !.rows[d] = Without(@, {n}), !.cache[d] = Without(InMemory(s, d), {n})]

-----------------------------------------------------------------------------
Handled(m) == msgs' = msgs \ {m}

(* handle_cluster_config: the rows of bep_index, then the own index, which *)
(* is sent to the peer. The code takes the lock three times, for the rows, *)
(* for the index and for the answer. One action stands for the three: the  *)
(* answer changes nothing, and all that loading the index does later is to *)
(* leave it unloaded for the handlers in between, which load it themselves *)
(* (index). They meet bep_index with rows and nothing in memory after a    *)
(* Restart as well.                                                        *)
init_index(d) == {d, Local}
handle_cluster_config(m) ==
    /\ m.type = "ClusterConfig" /\ Handled(m)
    /\ bep_index' = bep_index \union init_index(m.from)
    /\ state' = indices(state)
    /\ UNCHANGED <<peers, renames, lost, panicked, restarts>>

(* A row without its row of bep_index violates the foreign key: expect     *)
(* panics, the transaction is rolled back and the message is gone.         *)
ForeignKeyFails(m, news) == DOMAIN news # {} /\ m.from \notin bep_index

handle_index(m) ==
    LET replaced == index(replace_index(state, m.from, m.files), Local)
        news == NewlyAdded(m.files, replaced.cache[Local])
    IN /\ m.type = "Index" /\ Handled(m)
       /\ lost' = (lost \/ ForeignKeyFails(m, m.files))
       /\ IF ForeignKeyFails(m, m.files) THEN UNCHANGED <<state, panicked>>
          ELSE IF DiffPanics(m.files, replaced.cache[Local])
          THEN state' = replaced /\ panicked' = TRUE
          ELSE /\ state' = insert_file_info(replaced, Local, news)
               /\ UNCHANGED panicked
       /\ UNCHANGED <<peers, bep_index, renames, restarts>>

handle_index_update(m) ==
    LET known == index(state, m.from)
        news == NewlyAdded(m.files, known.cache[m.from])
        recorded == index(rm_replace_file_info(known, m.from, news), Local)
        added == recorded.cache[m.from]
        local_news == NewlyAdded(added, recorded.cache[Local])
    IN /\ m.type = "IndexUpdate" /\ Handled(m)
       /\ IF DiffPanics(m.files, known.cache[m.from])
          THEN state' = known /\ panicked' = TRUE /\ UNCHANGED lost
          ELSE IF ForeignKeyFails(m, Kept(news))
          THEN state' = known /\ lost' = TRUE /\ UNCHANGED panicked
          ELSE IF DiffPanics(added, recorded.cache[Local])
          THEN state' = recorded /\ panicked' = TRUE /\ UNCHANGED lost
          ELSE /\ state' = rm_replace_file_info(recorded, Local, local_news)
               /\ UNCHANGED <<lost, panicked>>
       /\ UNCHANGED <<peers, bep_index, renames, restarts>>

(* A rename through the file system; fuse_inmem is fixed for a process.    *)
Renames(n, dest, variant) ==
    /\ n \in DOMAIN state.rows[Local] /\ dest # n
    /\ mode \in {"any", variant} /\ mode' = variant
    /\ moves < MaxRenames /\ moves' = moves + 1
    /\ renamed' = renamed \union {n, dest}
    /\ UNCHANGED <<peers, msgs, bep_index, lost, panicked, restarts>>

(* With fuse_inmem, to a name that is not taken.                           *)
rename_mem(n, dest) ==
    /\ Renames(n, dest, "mem") /\ dest \notin DOMAIN state.rows[Local]
    /\ state' = mv_file_info(state, n, dest)
    /\ apart' = apart \union {n, dest}

(* Without it, under the mutex: the file is inserted under its new name,   *)
(* with the version it has in the database, and the old one removed. When  *)
(* no index is in memory yet, entry().or_insert() makes one of this file.  *)
rename_db(n, dest) ==
    /\ Renames(n, dest, "db")
    /\ state' = rm_file_info(insert_file_info(state, Local, [x \in {dest} |-> state.rows[Local][n]]),
                             Local, n)
    /\ apart' = apart \union (IF state.cache[Local] = NotLoaded THEN Name
                               ELSE {dest} \intersect DOMAIN state.rows[Local])

(* The process ends and starts again: the database stays. Bounded to where *)
(* it tells something: the own index is in memory, else only messages are  *)
(* lost, and a connection is left, else none follow.                       *)
Restart ==
    /\ restarts < MaxRestarts /\ restarts' = restarts + 1
    /\ state.cache[Local] # NotLoaded /\ connects < MaxConnects
    /\ state' = [state EXCEPT !.cache = [d \in Device |-> NotLoaded]]
    /\ connected' = {} /\ msgs' = {}
    /\ renamed' = {} /\ mode' = "any" /\ apart' = {}
    /\ UNCHANGED <<own, changes, connects, bep_index, lost, panicked, moves>>

-----------------------------------------------------------------------------
(* The peers: a ClusterConfig and an Index when they connect, an           *)
(* IndexUpdate for every change while they are connected.                  *)
Connect(d) ==
    /\ d \notin connected /\ connects < MaxConnects
    /\ connected' = connected \union {d} /\ connects' = connects + 1
    /\ msgs' = msgs \union {[type |-> "ClusterConfig", from |-> d, files |-> NoFiles],
                            [type |-> "Index", from |-> d, files |-> own[d]]}
    /\ UNCHANGED <<own, changes, local>>

(* Bounded like the connections: after the last one nobody goes, which     *)
(* would only leave changes that are never announced.                      *)
Disconnect(d) ==
    /\ d \in connected /\ connected' = connected \ {d}
    /\ connects < MaxConnects
    /\ UNCHANGED <<own, changes, connects, msgs, local>>

Announce(d, n, f) ==
    /\ changes < MaxChanges /\ changes' = changes + 1
    /\ own' = [own EXCEPT ![d] = With(@, [x \in {n} |-> f])]
    /\ msgs' = IF d \in connected
               THEN msgs \union {[type |-> "IndexUpdate", from |-> d, files |-> [x \in {n} |-> f]]}
               ELSE msgs
    /\ UNCHANGED <<connected, connects, local>>

(* A new version gets a counter above all of the old one's.                *)
Bumped(d, v) ==
    LET largest == IF v = {} THEN 0 ELSE max_counter(v)[2]
    IN {c \in v : c[1] # d} \union {<<d, largest + 1>>}
Version(d, n) == IF n \in DOMAIN own[d] THEN own[d][n].version ELSE {}

Edit(d, n) == \E time \in Clock[d, n], deleted \in BOOLEAN :
    /\ deleted => n \in DOMAIN own[d] /\ ~own[d][n].deleted
    /\ Announce(d, n, [version |-> Bumped(d, Version(d, n)), modified |-> time, deleted |-> deleted])

(* A peer takes a file from another one: the newer version, or, of two     *)
(* versions in conflict, the other's under the merged vector.              *)
Sync(d, e, n) ==
    /\ n \in DOMAIN own[e] /\ ~Descends(Version(d, n), Version(e, n))
    /\ Announce(d, n, [own[e][n] EXCEPT !.version =
         {<<i, Value(Version(d, n) \union @, i)>> : i \in {c[1] : c \in Version(d, n) \union @}}])

Init ==
    /\ own = [d \in Peer |-> NoFiles] /\ connected = {} /\ msgs = {}
    /\ state = [rows |-> [d \in Device |-> NoFiles],
                cache |-> [d \in Device |-> NotLoaded]]
    /\ bep_index = {} /\ renamed = {} /\ mode = "any" /\ apart = {}
    /\ lost = FALSE /\ panicked = FALSE
    /\ changes = 0 /\ connects = 0 /\ restarts = 0 /\ moves = 0

Handle == \E m \in msgs : handle_cluster_config(m) \/ handle_index(m) \/ handle_index_update(m)

PeerStep ==
    \/ \E d \in Peer : Connect(d) \/ Disconnect(d) \/ \E n \in Name : Edit(d, n)
    \/ \E d, e \in Peer, n \in Name : Sync(d, e, n)

Next ==
    \/ Handle \/ PeerStep \/ Restart
    \/ \E n, dest \in Name : rename_mem(n, dest) \/ rename_db(n, dest)

Spec == Init /\ [][Next]_vars

-----------------------------------------------------------------------------
(* The index in memory says of every file what the database says, as far   *)
(* as the handlers tell versions apart (the assertion that index() carries *)
(* commented out): also after panics half way and restarts, and though     *)
(* insert_file_info keeps old counters. Only renames make them differ,     *)
(* until the next start: rename_mem for its two names, rename_db onto a    *)
(* name in use for that, and for all when no index was in memory.          *)
CacheAgrees ==
    \A d \in Device : state.cache[d] # NotLoaded =>
      \A n \in Name \ (IF d = Local THEN apart ELSE {}) :
        /\ n \in DOMAIN state.cache[d] <=> n \in DOMAIN state.rows[d]
        /\ n \in DOMAIN state.cache[d] =>
             LET c == state.cache[d][n]  r == state.rows[d][n]
             IN /\ max_counter(c.version) = max_counter(r.version)
                /\ c.modified = r.modified /\ c.deleted = r.deleted

(* No message, however late, takes a file of this device back to an older  *)
(* version or away, as long as memory, which it is compared with, and rows *)
(* agree on it.                                                            *)
NeverBack ==
    [][\A n \in DOMAIN state.rows[Local] \ (renamed' \union apart) :
         /\ n \in DOMAIN state'.rows[Local]
         /\ ~Before(state'.rows[Local][n].version, state.rows[Local][n].version)]_vars

(* A deletion that a peer announces does not delete the file here, unless  *)
(* it comes in a full Index.                                               *)
DeletedOnlyByIndex ==
    [][\A n \in DOMAIN state'.rows[Local] \ renamed' :
         /\ state'.rows[Local][n].deleted
         /\ n \in DOMAIN state.rows[Local] => ~state.rows[Local][n].deleted
         => \E m \in msgs \ msgs' : m.type = "Index" /\ n \in DOMAIN m.files]_vars

(* Once the messages of a peer are handled this device has every file of   *)
(* it, in no older version, whatever the order, unless a handler panicked, *)
(* the file was renamed, or the largest counters of the versions tie: the  *)
(* comparison does not order a merged version after its parts.             *)
Missed(n, f) ==
    \/ n \notin DOMAIN state.rows[Local]
    \/ /\ Before(state.rows[Local][n].version, f.version)
       /\ max_counter(state.rows[Local][n].version)[2] # max_counter(f.version)[2]
NothingMissed ==
    ~lost /\ ~panicked =>
      \A d \in connected : (~ \E m \in msgs : m.from = d) =>
        \A n \in DOMAIN own[d] \ renamed : ~own[d][n].deleted => ~Missed(n, own[d][n])
=============================================================================
