---------------------------- MODULE BepProcessor ----------------------------
(***************************************************************************)
(* The path of a block from a peer's index to the remote storage: the      *)
(* message handlers of bep_processor.rs, the rows they keep through        *)
(* bep_state.rs, the file writers (storage.rs, file_writer.rs), the upload *)
(* and the event loop of main.rs, on top of the request queue.             *)
(*                                                                         *)
(* One step is one critical section of the state mutex, one use of a file  *)
(* writer or one external command. Every message is handled by a task of   *)
(* its own, so all of these interleave. One folder and one peer, which may *)
(* reconnect; the process may crash and start again.                       *)
(***************************************************************************)
EXTENDS OutgoingRequests, Sequences

CONSTANTS
    Content,          \* file -> versions -> hashes of its blocks in order
    EmptyHash,        \* the hash of no data, the one block of an empty file
    Torn,             \* what an interrupted write leaves in a chunk
    Missing,          \* no such file on disk, or no file writer in memory
    Strategy,         \* config.storage_strategy, "Remote" or "LocalRemote"
    UploadsMayFail,   \* may rclone exit with an error, or not start
    DiskMayFail,      \* may an operation on a chunk or a local file fail
    Ageing,           \* may requests pass MAX_TIME_IN_QUEUE
    EditsWait,        \* does the peer change a file only when all are stored
    BadAnswers,       \* what else a peer may answer: "error", "wrong"
    MaxChunks,        \* the largest number of blocks of a file
    \* Bounds on what the environment may do.
    MaxBadAnswers, MaxIndexMessages, MaxConnections, MaxDisconnects, MaxCrashes

File == Name
Versions(f) == 1 .. Len(Content[f])
Block_(f, v, i) == [name |-> f, pos |-> i, hash |-> Content[f][v][i]]
BlocksOf(f, v) == {Block_(f, v, i) : i \in 1 .. Len(Content[f][v])}
Data(f, v) == IF Content[f][v] = <<EmptyHash>> THEN <<>> ELSE Content[f][v]
Chunks(f, v) == Len(Data(f, v))

(* chunk_path: the suffix is a hash of the path and the file's size.       *)
ChunkPath == {<<f, n, i>> : f \in File, n \in 0 .. MaxChunks, i \in 1 .. MaxChunks}

Hash == {b.hash : b \in Block}

(* Only the one block of an empty file has no data.                        *)
ASSUME ContentAssumption ==
    /\ \A f \in File : Len(Content[f]) \in Nat \ {0}
    /\ \A f \in File : \A v \in Versions(f) :
          /\ BlocksOf(f, v) \subseteq Block
          /\ Content[f][v] \in Seq(Hash) /\ Len(Content[f][v]) \in 1 .. MaxChunks
          /\ \A i \in 1 .. Len(Content[f][v]) :
               Content[f][v][i] = EmptyHash => Len(Content[f][v]) = 1
    /\ \A b \in Block : NameOf[b] = b.name
    /\ Strategy \in {"Remote", "LocalRemote"}
    /\ BadAnswers \subseteq {"error", "wrong"}

WriterRecord == [chunks : 0 .. MaxChunks, state : {"writing", "consolidating"}, leaked : Nat]

ASSUME BoundAssumption ==
    /\ {MaxChunks, MaxBadAnswers, MaxIndexMessages, MaxConnections, MaxDisconnects, MaxCrashes}
         \subseteq Nat
    /\ Missing \notin WriterRecord /\ Missing \notin Hash
    /\ \A n \in 0 .. MaxChunks : Missing \notin [1 .. n -> Hash \cup {Torn}]

TaskId == 1 .. MaxRequestId
Connection == 1 .. MaxConnections
Slot == 1 .. MaxIndexMessages

VARIABLES
    \* The database, with the rows of the local device and of the peer.
    info,         \* bep_file_info, local device: version of each file, 0 if none
    peer_info,    \* the same for the peer's device
    rows,         \* bep_block_info, local device: the blocks of its files
    stored,       \* those with storage_status StoredLocally
    located,      \* files with a row in bep_file_location
    \* Disk and remote storage.
    chunk,        \* chunk files
    final,        \* the file in local_base_dir, as the blocks it holds
    remote,       \* the file at the rclone backend
    \* Memory of the process.
    file_writers, \* the DashMap of FileWriters
    handler,      \* index messages and the tasks that handle them
    task,         \* tasks that handle a response, by request id
    events,       \* events in the channel of each connection
    \* Network and peer.
    live,         \* the open connection, 0 if none
    connections,  \* connections opened so far
    inflight,     \* requests on the wire, with their id
    peer_version, \* version of each file at the peer
    crashes, disconnects, bad_answers,
    \* Observations.
    reported,     \* files for which "Stored whole file" was logged
    orphaned      \* ids that will not be answered any more

database == <<info, peer_info, rows, stored, located>>
disk == <<chunk, final>>
network == <<live, connections, inflight, peer_version, disconnects, bad_answers>>
vars == <<queue, database, disk, remote, file_writers, handler, task, events,
          network, crashes, reported, orphaned>>

RowsOf(f) == {b \in rows : b.name = f}
StoredOf(f) == {b \in stored : b.name = f}

NoTask == [pc |-> "none", block |-> Missing, conn |-> 0, chunks |-> 0, i |-> 0, ok |-> FALSE]
NoMessage == [pc |-> "unsent", kind |-> "index", conn |-> 0,
              files |-> [f \in File |-> 0], unstored |-> {}]

-----------------------------------------------------------------------------
(* The peer. A connection starts with an Index of all its files; a change  *)
(* is announced by an IndexUpdate when connected. Both only reach a slot   *)
(* here: handle_incoming_data spawns a task per read and does not wait.    *)
Send(kind, conn, files) ==
    \E s \in Slot :
        /\ handler[s].pc = "unsent" /\ \A t \in 1 .. s - 1 : handler[t].pc # "unsent"
        /\ handler' = [handler EXCEPT ![s] =
              [pc |-> "received", kind |-> kind, conn |-> conn, files |-> files,
               unstored |-> {}]]

Connect ==
    /\ live = 0 /\ connections < MaxConnections
    /\ connections' = connections + 1
    /\ live' = connections + 1
    /\ Send("index", connections + 1, peer_version)
    /\ UNCHANGED <<queue, database, disk, remote, file_writers, task, events, inflight,
                   peer_version, crashes, disconnects, bad_answers, reported, orphaned>>

Edit(f) ==
    /\ peer_version[f] < Len(Content[f])
    /\ EditsWait => reported = File
    /\ peer_version' = [peer_version EXCEPT ![f] = @ + 1]
    /\ IF live = 0 THEN UNCHANGED handler
       ELSE Send("update", live, [g \in File |-> IF g = f THEN peer_version[f] + 1 ELSE 0])
    /\ UNCHANGED <<queue, database, disk, remote, file_writers, task, events, live,
                   connections, inflight, crashes, disconnects, bad_answers, reported, orphaned>>

(* The connection is lost with everything on the wire. The tasks it had    *)
(* started go on.                                                          *)
Disconnect ==
    /\ live # 0 /\ disconnects < MaxDisconnects
    /\ disconnects' = disconnects + 1
    /\ live' = 0
    /\ orphaned' = orphaned \cup {r[1] : r \in inflight}
    /\ inflight' = {}
    /\ UNCHANGED <<queue, database, disk, remote, file_writers, handler, task, events,
                   connections, peer_version, crashes, bad_answers, reported>>

-----------------------------------------------------------------------------
(* diff_indices: the files of an index that the other does not have, or    *)
(* has in an older version.                                                *)
diff_indices(added, existing) == {f \in File : added[f] > existing[f]}

Updated(index, added, newer) == [f \in File |-> IF f \in newer THEN added[f] ELSE index[f]]

BlocksIn(index, files) == UNION {BlocksOf(f, index[f]) : f \in files}

\* Mutant: the query forgets the storage status.
blocks_info_all(all, done) == all

(* blocks_info with the status NotStored: the blocks to request.           *)
blocks_info(all, done) == all \ done

(* replace_index, for the peer's device: all its rows are replaced.        *)
replace_index(received) == peer_info' = received

(* insert_file_info: ON CONFLICT DO NOTHING, old rows are kept.            *)
insert_file_info(received, newer) ==
    /\ info' = Updated(info, received, newer)
    /\ rows' = rows \cup BlocksIn(received, newer)
    /\ UNCHANGED <<stored, located>>

(* rm_replace_file_info: the deletion cascades to blocks and locations.    *)
rm_replace_file_info(received, newer) ==
    /\ info' = Updated(info, received, newer)
    /\ rows' = {b \in rows : b.name \notin newer} \cup BlocksIn(received, newer)
    /\ stored' = {b \in stored : b.name \notin newer}
    /\ located' = located \ newer

(* First critical section of handle_index and handle_index_update. It ends *)
(* with the list of blocks to request.                                     *)
ScanIndex(s) ==
    LET received == handler[s].files
    IN  /\ handler[s].pc = "received" /\ handler[s].kind = "index"
        /\ replace_index(received)
        /\ LET newer == diff_indices(received, info)
           IN  /\ insert_file_info(received, newer)
               /\ reported' = reported \ newer
        /\ handler' = [handler EXCEPT ![s].pc = "scanned", ![s].unstored = blocks_info(rows', stored')]
        /\ UNCHANGED <<queue, disk, remote, file_writers, task, events, network, crashes, orphaned>>

ScanIndexUpdate(s) ==
    LET received == handler[s].files
    IN  /\ handler[s].pc = "received" /\ handler[s].kind = "update"
        /\ peer_info' = Updated(peer_info, received, diff_indices(received, peer_info))
        /\ LET newer == diff_indices(peer_info', info)
           IN  /\ rm_replace_file_info(peer_info', newer)
               /\ reported' = reported \ newer
        /\ handler' = [handler EXCEPT ![s].pc = "scanned", ![s].unstored = blocks_info(rows', stored')]
        /\ UNCHANGED <<queue, disk, remote, file_writers, task, events, network, crashes, orphaned>>

(* Second critical section: the list of the first one is stored as         *)
(* requests, and the event RequestCreated is sent.                         *)
StoreRequests(s) ==
    /\ handler[s].pc = "scanned"
    /\ store_outgoing_requests(handler[s].unstored)
    /\ handler' = [handler EXCEPT ![s].pc = "done", ![s].unstored = {}]
    /\ events' = [events EXCEPT ![handler[s].conn] = @ + 1]
    /\ UNCHANGED <<database, disk, remote, file_writers, task, network, crashes, reported, orphaned>>

\* Mutant: the requests are sent without being recorded as pending.
ThrottleUnrecorded(c) ==
    /\ events[c] > 0
    /\ events' = [events EXCEPT ![c] = @ - 1]
    /\ sent' = sent \cup {requests_by_request[b] : b \in Processed}
    /\ inflight' = IF c = live
                   THEN inflight \cup {<<requests_by_request[b], b>> : b \in Processed}
                   ELSE inflight
    /\ UNCHANGED <<requests_by_id, requests_by_request, pending_requests, requested_size,
                   request_id, horizon, database, disk, remote, file_writers, handler, task,
                   live, connections, peer_version, crashes, disconnects, bad_answers,
                   reported, orphaned>>

(* The event loop of connection c: throttled_requests, then the write to   *)
(* the socket, which loses the requests when the connection is gone.       *)
Throttle(c) ==
    /\ events[c] > 0
    /\ events' = [events EXCEPT ![c] = @ - 1]
    /\ update_pending_requests
    /\ IF c = live
       THEN /\ inflight' = inflight \cup {<<requests_by_request[b], b>> : b \in Processed}
            /\ UNCHANGED orphaned
       ELSE /\ orphaned' = orphaned \cup {requests_by_request[b] : b \in Processed}
            /\ UNCHANGED inflight
    /\ UNCHANGED <<database, disk, remote, file_writers, handler, task, live, connections,
                   peer_version, crashes, disconnects, bad_answers, reported>>

(* The event loop of a lost connection may also have ended already.        *)
DropEvent(c) ==
    /\ events[c] > 0 /\ c # live
    /\ events' = [events EXCEPT ![c] = @ - 1]
    /\ UNCHANGED <<queue, database, disk, remote, file_writers, handler, task, network,
                   crashes, reported, orphaned>>

-----------------------------------------------------------------------------
(* A response arrives: handle_response, and process_response up to the     *)
(* first write. The lookups of the request and of the file are one step:   *)
(* what runs between them can as well run after or before both.            *)
CanAnswer(b) ==
    LET v == peer_version[b.name]
    IN  b \in BlocksOf(b.name, v)

Continue(id, pc, ok) == task' = [task EXCEPT ![id].pc = pc, ![id].ok = ok]

Answered(id, b, answer) ==
    \/ /\ answer = "error"
       /\ orphaned' = orphaned \cup {id}
       /\ UNCHANGED task
    \/ /\ answer # "error" /\ id \notin DOMAIN requests_by_id
       /\ UNCHANGED <<task, orphaned>>
    \/ /\ answer # "error" /\ id \in DOMAIN requests_by_id
       /\ LET f == b.name
              started == [NoTask EXCEPT !.block = b, !.conn = live,
                             !.pc = IF answer = "data" /\ info[f] # 0 THEN "write" ELSE "remove",
                             !.chunks = IF info[f] # 0 THEN Chunks(f, info[f]) ELSE 0]
          IN  task' = [task EXCEPT ![id] = started]
       /\ UNCHANGED orphaned

Answer(id, b) ==
    /\ live # 0 /\ <<id, b>> \in inflight
    /\ inflight' = inflight \ {<<id, b>>}
    /\ \/ /\ CanAnswer(b) /\ Answered(id, b, "data")
          /\ UNCHANGED bad_answers
       \/ /\ ~CanAnswer(b) /\ \E answer \in {"error", "wrong"} : Answered(id, b, answer)
          /\ UNCHANGED bad_answers
       \/ /\ CanAnswer(b) /\ bad_answers < MaxBadAnswers
          /\ \E answer \in BadAnswers : Answered(id, b, answer)
          /\ bad_answers' = bad_answers + 1
    /\ UNCHANGED <<queue, database, disk, remote, file_writers, handler, events, live,
                   connections, peer_version, crashes, disconnects, reported>>

-----------------------------------------------------------------------------
(* store_block_concurrently. The entry of the DashMap stays locked while   *)
(* its writer is used, so a write waits for a running consolidation. The   *)
(* writer is created for the size the file has when its first block comes  *)
(* and is found again by path alone.                                       *)
Locked(f) == \E id \in TaskId : task[id].pc = "copy" /\ task[id].block.name = f

\* Mutant: n_of_chunks is rounded up once too often.
NewWriterOneMore(n) == [chunks |-> n + 1, state |-> "writing", leaked |-> 0]

NewWriter(n) == [chunks |-> n, state |-> "writing", leaked |-> 0]

Writer(id) ==
    LET f == task[id].block.name
    IN  IF file_writers[f] = Missing THEN NewWriter(task[id].chunks) ELSE file_writers[f]

ChunkFile(id, i) == <<task[id].block.name, Writer(id).chunks, i>>

\* Mutant: an error of write_all or sync_all is ignored.
write_chunk_unchecked(id) ==
    LET b == task[id].block
        w == Writer(id)
    IN  /\ \E data \in {b.hash, Torn} : chunk' = [chunk EXCEPT ![ChunkFile(id, b.pos)] = data]
        /\ file_writers' = [file_writers EXCEPT ![b.name] = w]
        /\ Continue(id, "mark", TRUE)

write_chunk(id) ==
    LET b == task[id].block
        w == Writer(id)
        c == ChunkFile(id, b.pos)
        empty == w.chunks = 0 /\ b.pos = 1
        fits == b.pos <= w.chunks /\ b.hash # EmptyHash /\ w.state = "writing"
    IN  \/ /\ empty
           /\ chunk' = [chunk EXCEPT ![c] = EmptyHash]
           /\ file_writers' = [file_writers EXCEPT ![b.name] = w]
           /\ Continue(id, "mark", TRUE)
        \/ /\ empty => DiskMayFail
           /\ ~fits
           /\ file_writers' = [file_writers EXCEPT ![b.name] = w]
           /\ Continue(id, "remove", FALSE)
           /\ UNCHANGED chunk
        \/ /\ fits
           /\ chunk' = [chunk EXCEPT ![c] = b.hash]
           /\ file_writers' = [file_writers EXCEPT ![b.name] = w]
           /\ Continue(id, "mark", TRUE)
        \/ /\ fits /\ DiskMayFail
           /\ \E data \in {chunk[c], Torn} : chunk' = [chunk EXCEPT ![c] = data]
           /\ file_writers' = [file_writers EXCEPT ![b.name] = [w EXCEPT !.leaked = @ + 1]]
           /\ Continue(id, "remove", FALSE)

StoreBlock(id) ==
    /\ task[id].pc = "write" /\ ~Locked(task[id].block.name)
    /\ write_chunk(id)
    /\ UNCHANGED <<queue, database, final, remote, handler, events, network, crashes,
                   reported, orphaned>>

\* Mutant: the UPDATE matches no row.
MarkedNone(b) == stored

(* update_block_storage_state: marks every row of the file with the hash   *)
(* of the request. It panics when the request has expired, or when no row  *)
(* of the file is stored afterwards (fetch_one).                           *)
Marked(b) == stored \cup {r \in RowsOf(b.name) : r.hash = b.hash}

expected_blocks(f) == Len(Content[f][info[f]])

UploadStatus(id, b) ==
    LET n == Cardinality({r \in Marked(b) : r.name = b.name})
        known == id \in DOMAIN requests_by_id /\ n # 0
    IN  CASE ~known -> "panicked"
          [] known /\ n = expected_blocks(b.name) -> "AllBlocks"
          [] known /\ n < expected_blocks(b.name) -> "BlocksMissing"
          [] known /\ n > expected_blocks(b.name) -> "TooMany"

update_block_storage_state(id) ==
    LET b == task[id].block
        status == UploadStatus(id, b)
    IN  /\ task[id].pc = "mark"
        /\ stored' = IF status = "panicked" THEN stored ELSE Marked(b)
        /\ Continue(id, CASE status = "panicked" -> "panicked"
                          [] status = "AllBlocks" -> "conclude"
                          [] OTHER -> "remove", status # "TooMany")
        /\ UNCHANGED <<queue, info, peer_info, rows, located, disk, remote, file_writers,
                       handler, events, network, crashes, reported, orphaned>>

(* conclude_block_storage: FileWriter::consolidate. Every error of it is   *)
(* returned at once and leaves the writer in the state Consolidating: the  *)
(* open of the file, the open, read, write and sync of a chunk, its        *)
(* removal. When another task removes the file meanwhile, the open handle  *)
(* writes to a file without a name.                                        *)
BeginConsolidate(id) ==
    LET f == task[id].block.name
        w == Writer(id)
        started == [file_writers EXCEPT ![f] = [w EXCEPT !.state = "consolidating"]]
        free == w.state = "writing" /\ w.leaked = 0
    IN  /\ task[id].pc = "conclude" /\ ~Locked(f)
        /\ \/ /\ free
              /\ file_writers' = started
              /\ final' = [final EXCEPT ![f] = <<>>]
              /\ task' = [task EXCEPT ![id].pc = "copy", ![id].i = 1]
           \/ /\ free /\ DiskMayFail
              /\ file_writers' = started
              /\ Continue(id, "remove", FALSE)
              /\ UNCHANGED final
           \/ /\ ~free
              /\ Continue(id, "remove", FALSE)
              /\ UNCHANGED <<file_writers, final>>
        /\ UNCHANGED <<queue, database, chunk, remote, handler, events, network, crashes,
                       reported, orphaned>>

Extended(file, data) == IF file = Missing THEN Missing ELSE Append(file, data)

CopyChunk(id) ==
    LET f == task[id].block.name
        c == ChunkFile(id, task[id].i)
    IN  /\ task[id].pc = "copy" /\ task[id].i <= Writer(id).chunks
        /\ \/ /\ chunk[c] # Missing
              /\ final' = [final EXCEPT ![f] = Extended(@, chunk[c])]
              /\ chunk' = [chunk EXCEPT ![c] = Missing]
              /\ task' = [task EXCEPT ![id].i = @ + 1]
           \/ /\ chunk[c] # Missing /\ DiskMayFail
              /\ \E file \in {final[f], Extended(final[f], Torn), Extended(final[f], chunk[c])} :
                    final' = [final EXCEPT ![f] = file]
              /\ Continue(id, "remove", FALSE)
              /\ UNCHANGED chunk
           \/ /\ chunk[c] = Missing
              /\ Continue(id, "remove", FALSE)
              /\ UNCHANGED <<final, chunk>>
        /\ UNCHANGED <<queue, database, remote, file_writers, handler, events, network,
                       crashes, reported, orphaned>>

\* Mutant: the state is not set back to WritingChunks(0).
EndConsolidateStuck(id) ==
    /\ task[id].pc = "copy" /\ task[id].i > Writer(id).chunks
    /\ Continue(id, "upload", TRUE)
    /\ UNCHANGED <<queue, database, disk, remote, file_writers, handler, events, network,
                   crashes, reported, orphaned>>

\* Mutant: the location is recorded first and the upload never made.
EndConsolidateLocate(id) ==
    LET f == task[id].block.name
    IN  /\ task[id].pc = "copy" /\ task[id].i > Writer(id).chunks
        /\ file_writers' = [file_writers EXCEPT ![f].state = "writing"]
        /\ Continue(id, "locate", TRUE)
        /\ UNCHANGED <<queue, database, disk, remote, handler, events, network, crashes,
                       reported, orphaned>>

EndConsolidate(id) ==
    LET f == task[id].block.name
    IN  /\ task[id].pc = "copy" /\ task[id].i > Writer(id).chunks
        /\ file_writers' = [file_writers EXCEPT ![f].state = "writing"]
        /\ Continue(id, "upload", TRUE)
        /\ UNCHANGED <<queue, database, disk, remote, handler, events, network, crashes,
                       reported, orphaned>>

-----------------------------------------------------------------------------
\* Mutant: rclone is started and not waited for.
UploadNotAwaited(id) ==
    /\ task[id].pc = "upload"
    /\ Continue(id, "locate", TRUE)
    /\ UNCHANGED <<queue, database, disk, remote, file_writers, handler, events, network,
                   crashes, reported, orphaned>>

(* cp_local_to_remote: the exit status of rclone is not looked at, an      *)
(* rclone that cannot be started or waited for panics the task.            *)
Upload(id) ==
    LET f == task[id].block.name
    IN  /\ task[id].pc = "upload"
        /\ \/ /\ remote' = [remote EXCEPT ![f] = IF final[f] = Missing THEN @ ELSE final[f]]
              /\ Continue(id, "locate", TRUE)
           \/ /\ UploadsMayFail
              /\ \E pc \in {"locate", "no rclone"} : Continue(id, pc, TRUE)
              /\ UNCHANGED remote
        /\ UNCHANGED <<queue, database, disk, file_writers, handler, events, network,
                       crashes, reported, orphaned>>

update_file_locations(id) ==
    LET f == task[id].block.name
    IN  /\ task[id].pc = "locate"
        /\ located' = located \cup {f}
        /\ IF Strategy = "Remote"
           THEN Continue(id, "clean", TRUE) /\ UNCHANGED reported
           ELSE Continue(id, "remove", TRUE) /\ reported' = reported \cup {f}
        /\ UNCHANGED <<queue, info, peer_info, rows, stored, disk, remote, file_writers,
                       handler, events, network, crashes, orphaned>>

(* rm_local_file, for the strategy REMOTE. Its error is that of the task.  *)
rm_local_file(id) ==
    LET f == task[id].block.name
    IN  /\ task[id].pc = "clean"
        /\ \/ /\ final[f] # Missing
              /\ final' = [final EXCEPT ![f] = Missing]
              /\ Continue(id, "remove", TRUE)
              /\ reported' = reported \cup {f}
           \/ /\ final[f] = Missing \/ DiskMayFail
              /\ Continue(id, "remove", FALSE)
              /\ UNCHANGED <<final, reported>>
        /\ UNCHANGED <<queue, database, chunk, remote, file_writers, handler, events,
                       network, crashes, orphaned>>

\* Mutant: an error is returned before the request is removed.
RemoveRequestIfStored(id) ==
    /\ task[id].pc = "remove"
    /\ IF task[id].ok THEN remove(id) ELSE UNCHANGED queue
    /\ task' = [task EXCEPT ![id] = NoTask]
    /\ events' = IF task[id].ok THEN [events EXCEPT ![task[id].conn] = @ + 1] ELSE events
    /\ UNCHANGED <<database, disk, remote, file_writers, handler, network, crashes,
                   reported, orphaned>>

\* Mutant: the event RequestProcessed is not sent.
RemoveRequestSilently(id) ==
    /\ task[id].pc = "remove"
    /\ remove(id)
    /\ task' = [task EXCEPT ![id] = NoTask]
    /\ UNCHANGED <<database, disk, remote, file_writers, handler, events, network, crashes,
                   reported, orphaned>>

(* The end of process_response: the request is removed in any case, the    *)
(* event RequestProcessed is sent only after a success.                    *)
RemoveRequest(id) ==
    /\ task[id].pc = "remove"
    /\ remove(id)
    /\ task' = [task EXCEPT ![id] = NoTask]
    /\ events' = IF task[id].ok THEN [events EXCEPT ![task[id].conn] = @ + 1] ELSE events
    /\ UNCHANGED <<database, disk, remote, file_writers, handler, network, crashes,
                   reported, orphaned>>

-----------------------------------------------------------------------------
(* The process ends at any point and is started again: what is in memory   *)
(* is lost, request ids start again from 0.                                *)
Crash ==
    /\ crashes < MaxCrashes
    /\ crashes' = crashes + 1
    /\ requests_by_id' = [i \in {} |-> 0]
    /\ requests_by_request' = [b \in {} |-> 0]
    /\ pending_requests' = {}
    /\ requested_size' = 0 /\ request_id' = 0 /\ horizon' = 0 /\ sent' = {}
    /\ file_writers' = [f \in File |-> Missing]
    /\ task' = [id \in TaskId |-> NoTask]
    /\ handler' = [s \in Slot |-> IF handler[s].pc = "unsent" THEN handler[s]
                                  ELSE [handler[s] EXCEPT !.pc = "done", !.unstored = {}]]
    /\ events' = [c \in Connection |-> 0]
    /\ live' = 0 /\ inflight' = {} /\ orphaned' = {}
    /\ UNCHANGED <<database, disk, remote, connections, peer_version, disconnects,
                   bad_answers, reported>>

Age ==
    /\ Ageing /\ TimePasses
    /\ UNCHANGED <<database, disk, remote, file_writers, handler, task, events, network,
                   crashes, reported, orphaned>>

Init ==
    /\ QueueInit
    /\ info = [f \in File |-> 0] /\ peer_info = [f \in File |-> 0]
    /\ rows = {} /\ stored = {} /\ located = {}
    /\ chunk = [c \in ChunkPath |-> Missing]
    /\ final = [f \in File |-> Missing]
    /\ remote = [f \in File |-> Missing]
    /\ file_writers = [f \in File |-> Missing]
    /\ handler = [s \in Slot |-> NoMessage]
    /\ task = [id \in TaskId |-> NoTask]
    /\ events = [c \in Connection |-> 0]
    /\ live = 0 /\ connections = 0 /\ inflight = {}
    /\ peer_version = [f \in File |-> 1]
    /\ crashes = 0 /\ disconnects = 0 /\ bad_answers = 0
    /\ reported = {} /\ orphaned = {}

(* The steps of the program itself, of one task each.                      *)
TaskStep(id) ==
    \/ StoreBlock(id) \/ update_block_storage_state(id)
    \/ BeginConsolidate(id) \/ CopyChunk(id) \/ EndConsolidate(id)
    \/ Upload(id) \/ update_file_locations(id) \/ rm_local_file(id)
    \/ RemoveRequest(id)

HandlerStep(s) == ScanIndex(s) \/ ScanIndexUpdate(s) \/ StoreRequests(s)

Next ==
    \/ Connect \/ Disconnect \/ Crash \/ Age
    \/ \E f \in File : Edit(f)
    \/ \E s \in Slot : HandlerStep(s)
    \/ \E c \in Connection : Throttle(c) \/ DropEvent(c)
    \/ \E r \in inflight : Answer(r[1], r[2])
    \/ \E id \in TaskId : TaskStep(id)

Spec == Init /\ [][Next]_vars

(* Fairness: the runtime polls every task, and every event loop, that can  *)
(* go on. Peer: it connects, and it answers what it was asked.             *)
FairSpec ==
    /\ Spec
    /\ WF_vars(Connect)
    /\ \A s \in Slot : WF_vars(HandlerStep(s))
    /\ \A c \in Connection : WF_vars(Throttle(c))
    /\ \A id \in TaskId : WF_vars(TaskStep(id))
    /\ \A id \in TaskId : WF_vars(\E b \in Block : Answer(id, b))

-----------------------------------------------------------------------------
Stages == {"none", "write", "mark", "conclude", "copy", "upload", "locate",
           "clean", "remove", "panicked", "no rclone"}

(* A task that has panicked does not go on.                                *)
Dead == {"panicked", "no rclone"}

(* Type invariant of the processor.                                        *)
TypeOK ==
    /\ QueueTypeOK
    /\ \A f \in File : info[f] \in 0 .. Len(Content[f]) /\ peer_info[f] \in 0 .. Len(Content[f])
    /\ rows \subseteq Block /\ stored \subseteq rows /\ located \subseteq File
    /\ file_writers \in [File -> WriterRecord \union {Missing}]
    /\ \A id \in TaskId : task[id].pc \in Stages /\ task[id].i \in 0 .. MaxChunks + 1
    /\ events \in [Connection -> Nat]
    /\ inflight \subseteq TaskId \X Block
    /\ live \in 0 .. connections

Whole(f) == Data(f, info[f])

Busy(f) == \E id \in TaskId : task[id].pc \notin {"none"} \cup Dead /\ task[id].block.name = f

InFile(file, b) == file # Missing /\ b.pos \in 1 .. Len(file) /\ file[b.pos] = b.hash

(* A block marked StoredLocally is never requested again, so its data must *)
(* be somewhere: in its chunk, in the consolidated file or at the remote.  *)
(* This holds at every step of consolidation and upload, and after a crash *)
(* at any of them.                                                         *)
StoredDurable ==
    \A b \in stored :
        \/ chunk[<<b.name, Chunks(b.name, info[b.name]), b.pos>>] = b.hash
        \/ InFile(final[b.name], b)
        \/ InFile(remote[b.name], b)

(* A row of bep_file_location, which the FUSE side reads from, stands for  *)
(* the whole file in its current version at the remote.                    *)
LocatedIntact == \A f \in located : remote[f] = Whole(f)

(* tests/integration_test.sh: once "Stored whole file" is logged the copy  *)
(* is compared with the original (run_diff). When nothing is under way for *)
(* the file it is whole at the remote and, with LOCAL_REMOTE, on disk.     *)
ReportedIntact ==
    \A f \in reported : ~Busy(f) =>
        /\ remote[f] = Whole(f)
        /\ Strategy = "LocalRemote" => final[f] = Whole(f)

(* config.proto: with REMOTE "Files are removed from disk once they are    *)
(* stored on the remote targets".                                          *)
RemovedOnceRemote ==
    \A f \in reported : final[f] = Missing => remote[f] = Whole(f)

(* The task of a response panics in update_block_storage_state only when   *)
(* its request is older than MAX_TIME_IN_QUEUE (the unwrap of the request) *)
(* or when its block is no longer one of its file (fetch_one): no other    *)
(* task removes the request under it, and while the block belongs to the   *)
(* file its row is there to be marked.                                     *)
PanicExplained ==
    [][\A id \in TaskId : task[id].pc # "panicked" /\ task'[id].pc = "panicked" =>
          LET b == task[id].block
          IN  id <= horizon \/ b \notin BlocksOf(b.name, info[b.name])]_vars

(* The processor uses the queue as the queue's specification says: every   *)
(* step of it is a step of QueueNext, or the restart of the process. What  *)
(* is proved of QueueSpec therefore holds here between two crashes.        *)
QueueUsed == QueueInit /\ [][QueueNext \/ (QueueInit)']_queue

(* A slot of the pending set belongs to a request that is on the wire, or  *)
(* whose response is being handled by a task or was by one that panicked,  *)
(* or that the peer refused or lost with its connection: no other path     *)
(* through the handlers leaks one, the error paths of storing a block and  *)
(* of consolidating a file included.                                       *)
SlotsAccounted ==
    \A b \in pending_requests :
        LET id == requests_by_request[b]
        IN  \/ <<id, b>> \in inflight
            \/ task[id].pc # "none" /\ task[id].block = b
            \/ id \in orphaned

(* A consolidation that failed leaves its writer in the state              *)
(* Consolidating, in which every later write and consolidation of the file *)
(* fails until the process is started again. Nothing is lost and nothing   *)
(* claimed by then: every block of the file is in its chunk or in the      *)
(* consolidated file, and the file is neither located nor reported.        *)
FailedConsolidationKept ==
    \A f \in File :
        file_writers[f] # Missing /\ file_writers[f].state = "consolidating" /\ ~Locked(f) =>
            /\ f \notin located \cup reported
            /\ \A b \in BlocksOf(f, info[f]) :
                  \/ chunk[<<f, Chunks(f, info[f]), b.pos>>] = b.hash
                  \/ InFile(final[f], b)

(* What was whole at the remote is not overwritten by anything else while  *)
(* the file keeps its version.                                             *)
RemoteKept ==
    [][\A f \in File : info[f] # 0 /\ remote[f] = Whole(f) /\ info'[f] = info[f]
                          => remote'[f] = remote[f]]_vars

(* With a peer that stays and answers, every file of its index is          *)
(* eventually stored whole and located.                                    *)
AllStored == \A f \in File : <>[](f \in located /\ remote[f] = Whole(f))

(* conclude_block_storage: "In theory it could happen that all the blocks  *)
(* are written, but the program crashes before the consolidation,          *)
(* therefore we recreate the writer": a file with all its blocks stored is *)
(* eventually consolidated and located, crash or not.                      *)
Consolidated ==
    \A f \in File :
        (info[f] # 0 /\ StoredOf(f) = BlocksOf(f, info[f])) ~> (f \in located)
=============================================================================
