# Verification of grizol

grizol is a syncthing-compatible client that stores what it receives at rclone
backends. This directory holds TLA+ models of its core, the TLC runs that check
them and TLAPS proofs about them. Paths below are those of the repository's
`src/` directory, e.g. `core/bep_state.rs`.

## The system

| Component | State | Operations | Correct when |
| --- | --- | --- | --- |
| Request queue, `core/outgoing_requests.rs` | requests by id and by content, the pending set, the bytes it accounts for | insert, remove_old_requests, update_pending_requests, remove | the two maps agree, slots, bytes and files stay within their limits, the assertions hold |
| Message handlers, `core/bep_processor.rs` | none of their own (the state mutex) | handle_index, handle_index_update, handle_response, throttled_requests | every announced block is stored once, whatever the order of messages |
| Database, `core/bep_state.rs` | file, version, block, location and cache rows | transactions | rows describe what is on disk and at the remote |
| Index cache, `core/indices.rs` | indices in memory | insert, insert_file_info, remove_file_info | equal to the rows |
| File writers, `file_writer.rs` | chunk files, a state per file | write_chunk, consolidate | the consolidated file is the file |
| Storage manager, `storage.rs` | file writers by path | store, conclude, upload, copy, remove | nothing is removed before it is elsewhere |
| Connections, `main.rs` | an event channel per connection | reader task, event loop, ping timer | requests and events reach each other |
| Client authentication, `connectivity.rs` | one shared device id | verify_client_cert | a connection has its own peer's id |
| Stream parser, `core/bep_data_parser.rs` | buffers and a parse state | parse_incoming_data | independent of how the stream is cut |
| Read cache, `core/bep_state.rs`, `storage.rs` | cache rows and files | is_file_in_read_cache, update, free | within its size, rows match files |
| FUSE side, `fuse.rs` | a tree of entries | lookup, readdir, read, rename, refresh | shows the folder |
| Device ids, configuration, wire format | constants | parsing | |

How they meet: the reader task of a connection parses the stream and spawns one
task per read, which handles its messages and sends events to the connection's
event loop. RequestCreated and RequestProcessed make the loop take as many
requests from the queue as the limits allow and write them to the socket. All
tasks share one state mutex (database and queue) but release it between the
steps of a message; file writers are guarded by their map entry; rclone is an
external command.

What is hard here: index messages and responses are handled concurrently and in
any order; a list read under the mutex is used after its release; the process
may crash between any two of "write chunk, mark block, consolidate, upload,
locate, remove", which are spread over disk, database and remote; requests
expire while answers are under way; a lost connection takes requests with it; a
message comes in any number of reads; the file system's thread works on a tree
that is older than the rows; tasks that wait for a map entry block the threads
that its holder needs. PROJECT.json lists these hazards at their lines.

## Modules

**OutgoingRequests** is the queue. A block stands for the key (folder, name,
offset, size, hash); NameOf, SizeOf and Order give what the code uses of it.
One action per operation: `store_outgoing_requests(U)` (ids from
requests_from_blocks, remove_old_requests, insert), `update_pending_requests`,
`remove(id)`, and `TimePasses`, which moves the horizon before which requests
are older than MAX_TIME_IN_QUEUE. The loop of update_pending_requests stops at
the first request that fails a test, so it is stated without iteration: a
request is visited when it and all before it are admitted, given that those
before it are pending. `sent` records the ids handed out and not yet removed.

**BepProcessor** extends it with the handlers, the database rows, the disk, the
remote and the connections.

| Model | Code |
| --- | --- |
| `info`, `peer_info`, `rows`, `stored`, `located` | bep_file_info of both devices, bep_block_info, its storage_status, bep_file_location |
| `chunk`, `final`, `remote` | chunk files (a path contains the writer's size), the file in local_base_dir, the file at the backend |
| `handler[s]`: received, scanned, done | an index message and its two critical sections |
| `task[id]`: write, mark, conclude, copy, upload, locate, clean, remove | store_response_data and process_response, one stage per await between state changes |
| `events`, `live`, `inflight` | event channels, the open connection, requests on the wire |
| a task at `panicked`, `no rclone` | a panic in update_block_storage_state; of the expect of cp_local_to_remote |
| `orphaned`, `reported` | observations: ids that will not be answered, files logged as "Stored whole file" |

`Crash` empties what is in memory; database, disk and remote stay. With
DiskMayFail the write of a chunk, every operation of a consolidation and the
removal of the local file may fail; with UploadsMayFail rclone exits with an
error or cannot be started.

**DeviceIdAssigner** is the shared device id: the verifier writes it during the
handshake, the connection reads it afterwards.

**ReadCache** is reading through FUSE: `cache` holds the rows of bep_local_cache
in the order of their time stamps, `dir` the copies, `node` what the FUSE tree
remembers of the database. A read is a sequence of steps under the state mutex
(rows freed, copies removed, file copied, row written), between which the
process may crash and an upload may end, but no index be handled. The copy may
fail without notice, which `uncopied` records.

**BepDataParser** is the stream parser between a peer and the reader task. The
peer's messages are fixed at the start as bytes on the `wire`; `Read` takes any
part of them into `buf`, `ParseHello`, `ParseHeader` and `ParseMessage` are the
passes of the loop of parse_incoming_data, and `delivered` holds what the calls
returned. The functions of the parser keep their names and are operators on the
incoming message. Here the bytes are the point, so lengths and bodies are real
bytes; protocol buffers and LZ4 are external, modelled for short messages.

**FileWriter** is one writer under concurrent calls: `state` and `writing` are
the guarded FileWriterState, `writing_chunk` the flags, `part` and `file` the
disk, a chunk being written in two halves. A call is a task that moves through
the awaits of write_chunk or consolidate; every operation on a file may fail.
**ChunkedFile** is what the writer promises: parts are collected, and a file
appears only as the assembly of parts that were all there. The refinement
mapping takes a copied chunk for a part until the consolidation ends, and a torn
chunk for none.

**WorkerPool** is the same two calls seen from the runtime: worker threads, tasks
that give their thread back at an await, and the DashMap entry, which they do
not give back and for which others wait without giving back their thread.

**Indices** is the bookkeeping of versions for several peers: `state.rows` are
the rows of every device, `state.cache` GrizolIndices, `bep_index` the rows
that foreign keys refer to. The handlers of ClusterConfig, Index and IndexUpdate
are one action each and take the messages in any order. Index and IndexUpdate
hold the mutex throughout (the list of blocks that they read at the end is
BepProcessor's). ClusterConfig takes it three times: for the rows of bep_index,
to load the own index, and to read what it answers. Joining them is harmless:
the last changes nothing, and a handler that comes before the index is loaded
loads it itself, as it does after a restart;
`lost` and `panicked` record handlers that ended half way. Versions are sets of
counters, as the table of versions is, and compared as
partial_cmp_file_version does, by the largest counter. Peers edit, delete, and
take files from each other. A rename in the file system changes the same rows,
by mv_file_info (`rename_mem`) or, without fuse_inmem, by an insertion and a
removal (`rename_db`); the configuration is chosen by the first rename of a
process. `apart` records the names that a rename leaves different in memory.

**FuseTree** is the file system in memory: `fs_mem.tree` are the nodes by path,
`known` the keys of the map of weak references and `live` those that can be
upgraded. A call (`StartCall`) may refresh, which inserts the rows one by one in
any order, and then serves the kernel. `rename_mem` collects the entries in
post order; for each one cp_remote_to_remote, mv_file_info and rm_remote are
steps of their own, between which peers' changes and uploads happen where the
mutex lets them. A peer's change is an IndexUpdate, which deletes the row and
inserts it again without its locations (`Update`), or a full Index, which changes
it in place and keeps rowid and locations (`UpdateInPlace`). Every rclone may
fail, with its exit status not looked at, or not start. `replaced`, `behind` and
`faults` are history: the rows that were replaced, those changed in place and not
uploaded since, and what excuses a property.

The MC modules give the instances. `OutgoingRequestsProofs`,
`BepProcessorProofs`, `FileWriterProofs`, `BepDataParserProofs`,
`IndicesProofs`, `ReadCacheProofs`, `FuseTreeProofs` and
`DeviceIdAssignerProofs` hold the theorems about the module they are named
after.

How the modules go together: BepProcessor extends OutgoingRequests and is shown
to use it as specified; it uses the file writer in coarser steps, which
FileWriter refines in detail; WorkerPool drops BepProcessor's assumption that a
waiting task costs nothing; Indices drops its single peer and numbered versions,
ReadCache and FuseTree look at the same rows from the file system.

### What the models leave out

*BepProcessor*: one folder, one peer, one backend. File sizes are whole blocks,
and an empty file has its one empty block. A chunk is written in one step, or
fails and leaves the chunk torn or as it was; it is copied and removed in one, or
fails and leaves the file as it was, with a torn part or with the whole one. The
steps in between are FileWriter's.
The lookup of the request and that of the file are one step. Versions of a file
are numbers; concurrent versions and deletions are Indices', directories
FuseTree's. The in-memory index is one with its rows, which CacheAgrees of
Indices justifies but for renamed files. Request ids end at MaxRequestId: overflow of the i32 is not
modelled. A task that waits for a map entry occupies no thread, unlike in
WorkerPool.

*FileWriter*: a chunk is two halves; overlapping writes of one chunk carry the
same data; no crash (BepProcessor has it).

*Indices*: one folder; a file is its version, time and deletion mark, without
blocks. Sequence numbers are left out, since nothing compares them.

*FuseTree*: attributes, permissions and read contents are left out. readdir
follows a reference as getattr does; its paging by offsets over a HashMap, whose
order changes with a refresh, is not modelled.

## Runs

| Run | Instance | Shows |
| --- | --- | --- |
| queue | 5 blocks of 2 files, one of size 3; 2 slots, 3 bytes, 1 file, 5 ids | maps agree, limits, assertions of remove |
| faults | a file of 2 blocks and an empty one; 2 crashes, 2 bad answers, any operation on a chunk or local file fails | stored blocks are somewhere, locations are whole, a failed consolidation keeps every block |
| changes | files of 1, 2 and no blocks through 2 slots, then a change to the first; LOCAL_REMOTE, fairness | everything is stored, the copies equal the originals |
| reconnect | a file of 2 blocks, one of which changes at any time; a lost connection, a crash, expiry, a refused request, failing disk and uploads, an rclone that does not start | every pending slot is accounted for, panics have one of two causes, the queue is used as specified |
| parser | a Hello (empty or not) and 2 messages out of one without header bytes, one without a body and a compressed one; another protocol's peer; fairness | same messages for every cut, none waits, no underflow |
| file_writer | 3 calls, 2 chunks of which the second is short, 2 versions of the data, 1 error; fairness | consolidation alone, exact count, accepted data kept, ChunkedFile implemented, consolidation ends |
| indices | 2 peers, 2 files, 3 names, 3 changes, 2 connections, a restart and a rename, in either order | memory agrees with rows, no way back, no file missed |
| fuse_tree | 2 folders, a directory with a file, to which a peer may add a second one, or the first again after it was moved; 2 renames and 1 change (by IndexUpdate or in place), failure or crash; fairness | tree equals rows, dead references only after replacement, calls end, rename keeps rows and objects together |
| device_ids | 3 connections, 2 known devices and an unknown one | own id unless handshakes overlap |
| read_cache | 3 files of 2 versions with the sizes 1, 2 and 2, one of which shrinks, in a cache of 3; failing copies, a crash | rows within the size, each with its copy unless the copy failed |
| upload_failure | rclone fails | **violation**: the only copy is removed |
| worker_deadlock | 2 threads, 3 blocks of one file; fairness | **violation**: the holder of the entry has no thread to go on |

Bounds. Two blocks are enough for "some stored, one missing" and for
consolidation to be interrupted between chunks; two files for a limit on files
and for one to move while the others rest; a second crash meets what the first
left behind; the slots are fewer than the blocks in `queue` and `changes`, so
every limit is met; the read cache holds no more than two of three files.
MaxRequestId, MaxIndexMessages, MaxConnections, MaxDisconnects, MaxCrashes and
MaxBadAnswers bound the environment. In `parser` each boundary (Hello, header,
length, body) can fall inside a read, between two, or in a read with the
message before. In `file_writer` the third call meets a writer, a consolidation
and a failed call. Three changes in `indices` are two concurrent versions and
their merge, or a change, its deletion and its return; two connections are two
peers at once or one that returns, and nobody disconnects or restarts after
the second, since no message would follow; the third name lets a file be
renamed while another one stays. In `fuse_tree` one name is that of an entry
and of its directory, so a rename meets a name in use, a directory moves into
another folder, and a second rename meets a tree that the first made stale.

Deadlock is checked in `queue`, `device_ids` and `read_cache`. Elsewhere the
system may rest: a peer with nothing left to announce, a connection that ended,
a writer that a failed consolidation left unusable, a panicked thread.

### Conditions under which a property is known to fail

Passing runs exclude, by their constants or by an excuse in the property, what
the code is known not to handle. Two have a run of their own (above). Five
have a configuration with which TLC shows the failure:

| Configuration | Module | Shows |
| --- | --- | --- |
| MCOutgoingRequestsExpiry.cfg | MCOutgoingRequests | ExpiredIsResent fails: remove_old_requests is only called when an index message stores requests, so that an expired request is not "removed and being resent" (`outgoing_requests.rs` 5) for as long as the peer announces nothing |
| CrashBeforeConsolidation.cfg | MCBepProcessor | Consolidated fails: the comment at `storage.rs` 91 recreates the writer after a crash before the consolidation, but no step asks for it again |
| RepeatedBlocks.cfg | MCBepProcessor | AllStored fails: the first of two equal blocks marks both (`bep_state.rs` 631) and the consolidation misses the second chunk |
| StaleList.cfg | MCBepProcessor | ReportedIntact fails: of two index messages handled at once the older list makes a stored block be requested again, and the second consolidation truncates the finished file |
| SharedDeviceId.cfg | MCDeviceIdAssigner | OwnId fails: `let _ = ...lock().await` (`main.rs` 191) drops the guard at once |

Others are seen by lifting a restriction:

- a file that grows past a block boundary is never stored (AllStored), since the
  cached FileWriter keeps the old size (`storage.rs` 71-78);
- a request that expires, or a file that changes, while its block is being
  stored panics the task (`bep_state.rs` 620 and 659); PanicExplained says that
  nothing else does;
- an rclone that cannot be started panics the task of an upload (`storage.rs`
  200), and a refused request ends its own (`bep_processor.rs` 284): the slot
  stays taken until a restart (SlotsAccounted names who holds it; where files
  keep their version no other panic costs a slot, SlotsLostWithRclone);
- a consolidation that fails leaves its writer in Consolidating, where every later
  write and consolidation fails until a restart (`file_writer.rs` 206-229);
  FailedConsolidationKept says that the data is all there and nothing is claimed;
- a copy to the read cache that fails without notice leaves a row without a copy,
  or with an older one (RowsBacked, `uncopied`; `storage.rs` 169);
- a full Index changes a row in place and keeps its location (`bep_state.rs`
  1094), so a located row is newer than its object until the file is uploaded
  again (LocatedAtBackend, `behind`);
- a file that grows while it is in the read cache makes cache_size - used_bytes
  underflow (RowsWithinSize; `bep_state.rs` 1725);
- overlapping writes of one chunk: the exchange at `file_writer.rs` 122 never
  refuses one, and the second truncates what the first reported as written
  (OkIsKept, `alone`); only StorageManager's entry keeps them apart;
- an Index handled before the ClusterConfig of its connection panics on the
  foreign key and is lost (NothingMissed, `lost`); concurrent versions with the
  same time panic (`panicked`); a merged version whose largest counter is that of
  one of its parts is taken for equal or in conflict (NothingMissed);
- a rename leaves the index in memory as it was until the next start; the
  variant without fuse_inmem updates it, but when no index is in memory yet
  starts one from the renamed file, so that every other file counts as new and
  an older version can replace a newer one, and onto a name in use it keeps the
  counters of the file that it overwrites (CacheAgrees, NeverBack, `apart`);
- an IndexUpdate replaces the row of a file, so the kernel's inode leads to a
  dead reference and the file system's thread panics (DeadOnlyIfReplaced);
- a row without its directory makes every call hang (CallsEnd). Such rows come
  from `mv d e; mv a e/` within the refresh time, from a rename cut short by a
  crash or an rclone that does not start, from a rename to another folder, and
  from a file that a peer adds, or adds again, to a directory that is being
  renamed here or was (RowsHaveDirectory, `faults`);
- an object is lost by a failed copy whose exit status nobody looks at, by a
  rename from a stale node, to another folder, onto a name in use, or during an
  upload of what it moves (LocatedAtBackend, `faults`). Each excuse is needed:
  without it TLC finds a counterexample, for the other folder in an instance
  that has a directory there.

### Fairness

FairSpec of BepProcessor: the runtime polls every task that can go on, so
handlers, tasks and event loops are weakly fair; a peer connects and answers
what it was asked. Crashes, changes, disconnects and the passing of time are
never fair. In QueueFairSpec sending requests and processing their answers is
fair, the arrival of a new index is not. The parser: the reader task is polled
and reads what has arrived; the end of a stream is not fair. The writer: a call
that started is polled until it returns; new calls and errors are not fair.
WorkerPool: responses arrive, operations on files end, and runtime and lock are
strongly fair to each task, more than either promises, so the deadlock is not an
effect of unfairness. FuseTree: the file system's thread goes on with the call
it serves; the kernel need not call.

## Proofs

*The queue, for any finite set of blocks and any limits.* `QueueInv` is the
inductive invariant. IndexesAgree alone does not give the assertions of remove:
that the removed request is pending needs SentArePending (an id that is queued
was handed out exactly when its block is pending), and that the subtraction is
safe needs SizeAccounted to be an equality. The step for
update_pending_requests needs the last request processed (`LastProcessed`): it
passed the tests with all the others before it, so slots and bytes are within
the limits after it; `FilesStep` takes the last request that opened a new file. Sizes are
cardinalities of sets of (block, byte) pairs, so the facts about them follow
from the library's theorems on finite sets. The three limits are theorems of
their own (SlotsRespected, SizeRespected, FilesRespected).

*The processor.* `ProcessorInv` adds that the rows and the lists read from them
hold blocks of known versions (RowsInv), and that an id on the wire or in a task
is one the queue handed out, with no id in two places (IdsInv). With it every
step is a step of the queue, a restart, or leaves it alone (`StepOfQueue`):
`ProcessorUsesQueue` is the refinement, and `LimitsInProcessor` carries the
limits and assertions over to the composed system, through crashes. `FormInv`
is TypeOK with what its preservation needs: which fields of handlers and tasks
are set at which stage, and that a counted writer has its chunks.

*Slots.* `SlotsInv` says who holds a pending slot: a request on the wire, a task
(a panicked one included) or an orphaned id. It needs no condition and gives
`SlotsAreAccounted`. Which panics cost a slot is a second question: one over the
block of a file that keeps its version (`FixedContent`) has met a request that
expired, and the expiry gave the slot back (`FixedInv`). So only the panic of an
rclone that cannot be started costs one (`SlotsLostWithRclone`), with lost
connections, expiry, disk failures, wrong answers and crashes.

*Panics.* PanicExplained needs no condition either. `PanicInv`: a task at work
has its request in the queue or the request is older than MAX_TIME_IN_QUEUE, a
task that has yet to mark its block works for a file that is known, and every
block of a known file has its row, whichever handler wrote the rows
(`ScanHasRows`). The row of the block is then marked before the rows are counted,
so that fetch_one finds one (`PanicCause`).

*Stored files.* The second part of `BepProcessorProofs` shows that what the database says of a file is
true of chunks, disk and backend, for any number of files, blocks, crashes,
failing operations on chunks and local files and bad answers and for both
strategies. Its condition
`Undisturbed` excludes exactly what the code is known not to survive (see the
list above): a file that changes, a request that expires, a connection lost
while the process goes on, a failing upload, equal blocks in one file. None of
these properties is inductive. `IntegrityInv` adds:

- SessionInv: there is one index message at work in a connection, before it has
  stored its requests nothing is queued, on the wire or in a task, and the list
  it has read is still that of the blocks not stored. This is what StaleList.cfg
  breaks;
- RequestsInv: the request of every task is still queued, and a queued block
  that is stored is one whose task is past the mark, so no stored chunk is
  opened and truncated again;
- FileInv: a stored block is in its chunk as long as the file is incomplete;
  once it is complete each block is in chunk, file or remote;
- TasksInv: at most one task per file concludes it, and `Achieved` says what
  each of its stages has reached: all chunks before the copy, the prefix of the
  file and the remaining chunks during it, the whole file before the upload,
  the whole remote before the location and the removal;
- WriterOK: a consolidating writer has the task that copies, or its consolidation
  failed: then the file is complete, neither located nor reported nor concluded
  by any task, and each block is in its chunk or in the file (`Failed`). A crash
  drops the writer and leaves the data.

The proof has a frame lemma for the files a step does not touch, then one lemma
per stage of a task and one per action of the environment. The uniqueness of the
concluding task comes from counting: marking a block makes the file complete
only if the block was the last one, so two tasks cannot both find it complete.

*The file writer.* `WriterInv` holds for any number of calls, chunks and errors:
CallInv (a write happens in WritingChunks, the one consolidation in
Consolidating), CountInv (the number is that of the writers and of those that
failed; a flag that is set stands for one of them), PartInv (the halves of a
chunk are of one write, and a missing half has a writer or a failed one) and
CopyInv (what is copied is whole, what was removed was copied). CountInv is why
a consolidation copies no torn chunk: it starts with the number 0, so that no
write failed or is under way. `KeptInv` adds to OkIsKept that a write which
nobody overlapped finds in its chunk what it wrote. `WriterImplementsPromise` is
the refinement of ChunkedFile, one step of the writer at a time.

*The stream parser.* The proofs are for any number of messages, any content and
any cut of the stream into reads. InOrder says nothing of the bytes between the
wire and the messages, so it is not inductive. `ParserInv` says where every byte
is: the bytes of the incoming message, the rest of the read and the wire are
together the frames of the messages not yet parsed (`Remains`), and what the
incoming message has is no whole frame. From this a pass can be followed without
looking at the cut: the parser is inside the frame of one known message
(`InsideFrame`), so the lengths it reads at their places are those the peer wrote
(`HelloFacts`, `MessageFacts`); each populate function takes at least one byte
and none of the next frame (`Fits`); the bytes are complete exactly when the
frame is, and decoding it gives the message (`HelloDecoded`, `MessageDecoded`).
A frame without a body ends with the pass that brings its length, which is the
case NothingWaiting is about. The invariant also has that the header is known
exactly when its last byte is there, which is why neither missing_header_bytes
nor populate_message underflows, and that a failed reader parsed nothing.

Two facts are inductions over data: that the function with which FlattenSeq is
defined exists (`GrowsExists`), and that it gives the frames one behind the other
(`GrowsIsFlat`, `FlattenSeqIs`). They are proved by a least counterexample
(`Smallest`, `UpToN`), as the library's induction rules take an operator, which
the provers do not instantiate. The layout of frames is proved byte by
byte: to_be_bytes and from_be_bytes are inverse for lengths that fit, and every
header that protocol buffers give, the empty one included, is decoded. Of LZ4 the
proof uses no more than that the model's Decompress gives back what its Compress
took. A block has one token and literals, as for a short body; what a long one
looks like makes no difference to the parser, which sees its length only.

*Indices.* The proofs are about any finite sets of peers and names and any order
of messages. As the code compares versions by their largest counter, they rest
on lemmas about max_counter: it exists and is unique, and after a file is
inserted it is the same in the rows, which merge the counters of a device, and
in memory, where they are kept apart. CacheAgrees (`AgreeOf`) is
preserved by every operation on rows and memory but not strong enough for
NothingMissed, for which `IndicesInv` has AheadOf (a local row is no older than
the file in memory, from which the decision is taken), OwnNewest (nothing known
of a peer is newer than what it has), DeletedKnown (a file left out of the
comparison because it is deleted was taken before) and Announced (what a
connected peer has is here or on its way). NeverBack and DeletedOnlyByIndex are
action properties that follow step by step from the same invariant.

*Read cache.* The proofs are for any files, sizes and versions. RowsBacked needs
`BackedInv`: the files whose copies a read is about to remove have no row any
more, and a row is written only when the copy is there or has failed; that the rows are
distinct (in `CacheForm`) is what makes a freed file one without a row. So every
prefix of a read is harmless, and the process may crash after each. RowsWithinSize
fails for a file that grows (see above) and is proved where none does
(`NoGrowth`). A read makes room for the size in the node, which may be that of an
older version than the row it will write: older is not smaller, so `RoomInv`
keeps the room from the eviction to the row, through every change in between.

*The file system.* The proofs are for any folders, tree, names and number of
events. `FuseForm` has the types and `Placed`: tree and queue together are the
rows that were read, and every entry of the tree is its row's node; with an
empty queue this is TreeIsSnapshot. DeadOnlyIfReplaced follows from `KnownInv`:
an inode that is known and not live is that of a row which was replaced, or of
one that was read and still waits in the queue, and calls are served only when
the queue is empty.

LocatedAtBackend is `BackendInv`: while no fault has happened, each located row
has its object, an upload under way has put the object of its row there,
the copy of a rename is there before the row is moved (`CopyKept`; in
the version of the node that was collected, unless the row was changed in place,
and a row that arrives meanwhile is not taken for that node's, `NodeOlder`), and
when the old object is
removed no row is at its name or below (rclone removes both). The last one rests
on the new names: none of them is below the entry that moves (`NamesApart`),
since the kernel refuses to move a directory into itself; and on `LeftInv`: the
rows of the directory that the tree has are still in the list of what is to be
moved, where a directory comes after its entries, so that nothing is left in a
directory when it is moved. Rowids, which are never given twice (`IdsForm`,
`UniqueIds`), tell an upload's row from the one that replaced it and a row that
the tree has from one that was moved to or added at its path.

RowsHaveDirectory holds between calls and is far from true within a rename, which
gives the entries of a directory their new names before the directory has its
own. `DirInv` says what is true meanwhile: each missing directory is a new name
still to be given, and all entries up to its own are below it (`Stacked`, the
stack being the rest of `todo`); the directories above the destination are there
throughout; a new name that is taken has its directories. Moving the top of the
stack keeps this, the last move leaves nothing missing, and a panic on a name in
use happens only where nothing is missing. The stack exists because the entries
come in post order and dest_file_name keeps the order of prefixes and is
injective within a folder (`CollectedStacked`, from `TreeClosed`: the tree has
the directories of its entries). The hypothesis of `DirectoriesStay` is that every
initial row has its directories. One excuse came out of the proof: a file that a
peer adds to a directory while that directory is being renamed, after its
entries were collected, stays behind when the directory moves, and its object
goes with rclone's delete. In the model this is the fault "stale", as for the
rows of a stale tree.

*Device ids.* `DeviceIdInv`: between its verification and its read a
connection that was not overlapped finds its own id in the shared variable.

Assumptions, all of which TLC evaluates in the runs:

- BlockAssumption and LimitAssumption: finitely many blocks, each with a file, a
  size and a place in the order; limits are numbers.
- ContentAssumption: a version of a file is a non-empty sequence of hashes, and
  the empty block occurs only as the one block of an empty file, as scanners
  announce it. BoundAssumption: the bounds are numbers, and Missing is none of
  the values it stands beside.
- SizeAssumption (FileWriter): finitely many calls, chunks of at least a byte.
- CacheAssumption: finitely many files, each with at least one version and a size
  for each.
- FuseAssumption: finitely many folders and initial rows; a path is a folder and
  at least one name; rowids are distinct and count the initial rows; the inodes
  of top folders are below ENTRIES_START.
- IndicesAssumption: finitely many peers and names, this device is no peer.
- DeviceAssumption: trusted devices are devices.
- MessageAssumption: bodies are sequences of bytes whose lengths fit into the u16
  of a Hello and the u32 of a message, with the size and token of a compressed
  one: serialize_hello and serialize_message unwrap the conversion, so that no
  other message is sent. Types are those of the header's enumeration, and a magic
  number has four bytes.

Only model-checked: everything about liveness and fairness (AllStored, CallsEnd,
ConsolidationEnds, AllDelivered, the deadlock of the worker pool), which is out
of the prover's reach, and the counterexamples of the violations.

## Not modelled

- Device ids: a text encoding with check digits, without state; its unit tests
  cover it.
- Configuration: parsed once; its values are the constants of the models.
- Wire format: code that prost generates. Protocol buffers, LZ4, TLS, rclone,
  SQLite and tokio appear as what the code relies on.
- The variant of the file system without the tree (`*_db`), except for what
  rename_db does to the indices; the paging of readdir, and file attributes.
- handle_request and the reading of local blocks: they change no state. Ping
  and Close neither.
- Moving a file on conflict, which an assertion refuses (`bep_state.rs` 1348).
- Sequence numbers, which are stored and sent but never compared.

## State of the plan

Every invariant and action property of the passing runs is proved for all values
of the constants, under the conditions named above. The liveness properties rest
on fairness and stay with TLC. What is left would widen the models: several peers
and backends in BepProcessor, a crash within FileWriter, the paging of readdir
and the file system's variant without a tree.
