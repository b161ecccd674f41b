------------------------- MODULE BepProcessorProofs -------------------------
(***************************************************************************)
(* The processor uses its request queue as the queue's specification says, *)
(* for any files, any limits and any faults of the environment. With the   *)
(* theorems about the queue, its limits and the assertions of remove hold  *)
(* in the whole system, through crashes and restarts. Then, the integrity  *)
(* of what is stored.                                                      *)
(***************************************************************************)
EXTENDS BepProcessor, OutgoingRequestsProofs, SequenceTheorems

Stage == {"unsent", "received", "scanned", "done"}
Kind == {"index", "update"}
Message == [pc : Stage, kind : Kind, conn : Nat,
            files : [File -> Nat], unstored : SUBSET Block]

(* An index never names a version the peer does not have.                  *)
Known(index) == index \in [File -> Nat] /\ \A f \in File : index[f] <= Len(Content[f])

(* The rows, and the lists read from them, hold blocks of known versions:  *)
(* what the handlers store as requests is a set of blocks.                 *)
RowsInv ==
    /\ Known(info) /\ Known(peer_info) /\ Known(peer_version)
    /\ rows \subseteq Block
    /\ connections \in Nat /\ live \in Nat
    /\ handler \in [Slot -> Message]
    /\ \A s \in Slot : Known(handler[s].files)

(* A request on the wire, and one whose response is being handled, was     *)
(* handed out by the queue and not yet removed; no id is both or twice on  *)
(* the wire.                                                               *)
IdsInv ==
    /\ DOMAIN task = TaskId
    /\ inflight \subseteq TaskId \X Block
    /\ \A id \in TaskId : task[id].pc # "none" => id \in sent
    /\ \A r \in inflight : r[1] \in sent /\ task[r[1]].pc = "none"
    /\ \A r, q \in inflight : r[1] = q[1] => r = q

ProcessorInv == QueueInv /\ RowsInv /\ IdsInv

(* The rows of files in known versions are blocks.                         *)
LEMMA BlocksInType ==
    ASSUME NEW index, Known(index), NEW newer \in SUBSET File,
           \A f \in newer : index[f] > 0
    PROVE  BlocksIn(index, newer) \subseteq Block
<1>1. ASSUME NEW f \in newer PROVE BlocksOf(f, index[f]) \subseteq Block
  <2>1. index[f] \in Versions(f)
    BY ContentAssumption DEF Known, Versions
  <2> QED
    BY <2>1, ContentAssumption
<1> QED
  BY <1>1 DEF BlocksIn

(* An index brought up to date is known.                                   *)
LEMMA UpdatedKnown ==
    ASSUME NEW index, Known(index), NEW added, Known(added), NEW newer
    PROVE  Known(Updated(index, added, newer))
BY DEF Known, Updated

(* What diff_indices finds is there in a version of its own.               *)
LEMMA DiffPositive ==
    ASSUME NEW added, Known(added), NEW existing, Known(existing)
    PROVE  /\ diff_indices(added, existing) \in SUBSET File
           /\ \A f \in diff_indices(added, existing) : added[f] > 0
BY DEF diff_indices, Known

-----------------------------------------------------------------------------
(* Every step of the processor is a step of the queue, a restart, or       *)
(* leaves the queue alone.                                                 *)
LEMMA StepOfQueue ==
    ASSUME ProcessorInv, [Next]_vars
    PROVE  QueueNext \/ QueueInit' \/ UNCHANGED queue
<1> USE DEF ProcessorInv
<1>1. ASSUME NEW s \in Slot, StoreRequests(s) PROVE QueueNext
  <2>1. handler[s].unstored \in SUBSET Block
    BY DEF RowsInv, Message
  <2> QED
    BY <1>1, <2>1 DEF StoreRequests, QueueNext
<1>2. ASSUME NEW c \in Connection, Throttle(c) PROVE QueueNext
  BY <1>2 DEF Throttle, QueueNext
<1>3. ASSUME NEW id \in TaskId, RemoveRequest(id) PROVE QueueNext
  <2>1. id \in sent
    BY <1>3 DEF RemoveRequest, IdsInv
  <2> QED
    BY <1>3, <2>1 DEF RemoveRequest, QueueNext
<1>4. CASE Age
  BY <1>4 DEF Age, QueueNext
<1>5. CASE Crash
  BY <1>5 DEF Crash, QueueInit
<1>6. CASE Connect \/ Disconnect \/ (\E f \in File : Edit(f))
  BY <1>6 DEF Connect, Disconnect, Edit
<1>7. ASSUME NEW s \in Slot, ScanIndex(s) \/ ScanIndexUpdate(s) PROVE UNCHANGED queue
  BY <1>7 DEF ScanIndex, ScanIndexUpdate
<1>8. ASSUME NEW c \in Connection, DropEvent(c) PROVE UNCHANGED queue
  BY <1>8 DEF DropEvent
<1>9. ASSUME NEW r \in inflight, Answer(r[1], r[2]) PROVE UNCHANGED queue
  BY <1>9 DEF Answer
<1>10. ASSUME NEW id \in TaskId, TaskStep(id), ~RemoveRequest(id) PROVE UNCHANGED queue
  BY <1>10 DEF TaskStep, StoreBlock, update_block_storage_state, BeginConsolidate, CopyChunk,
               EndConsolidate, Upload, update_file_locations, rm_local_file
<1>11. CASE UNCHANGED vars
  BY <1>11 DEF vars
<1> QED
  BY <1>1, <1>2, <1>3, <1>4, <1>5, <1>6, <1>7, <1>8, <1>9, <1>10, <1>11 DEF Next, HandlerStep

(* The queue's invariant is kept by all of them.                           *)
LEMMA QueueStep ==
    ASSUME ProcessorInv, [Next]_vars
    PROVE  QueueInv'
<1>1. QueueNext \/ QueueInit' \/ UNCHANGED queue
  BY StepOfQueue
<1>2. CASE QueueInit'
  BY <1>2, EmptyQueue, PTL
<1>3. CASE QueueNext \/ UNCHANGED queue
  <2>1. ASSUME NEW U \in SUBSET Block, store_outgoing_requests(U) PROVE QueueInv'
    BY <2>1, StoreStep DEF ProcessorInv
  <2>2. CASE update_pending_requests
    BY <2>2, UpdateStep DEF ProcessorInv
  <2>3. ASSUME NEW id \in sent, remove(id) PROVE QueueInv'
    BY <2>3, RemoveStep DEF ProcessorInv
  <2>4. CASE TimePasses \/ UNCHANGED queue
    BY <2>4, QuietStep DEF ProcessorInv
  <2> QED
    BY <1>3, <2>1, <2>2, <2>3, <2>4 DEF QueueNext
<1> QED
  BY <1>1, <1>2, <1>3

-----------------------------------------------------------------------------
(* A message that is sent is a well-formed message.                        *)
LEMMA SendType ==
    ASSUME handler \in [Slot -> Message], \A s \in Slot : Known(handler[s].files),
           NEW kind \in Kind, NEW conn \in Nat, NEW files, Known(files),
           Send(kind, conn, files)
    PROVE  handler' \in [Slot -> Message] /\ \A s \in Slot : Known(handler'[s].files)
<1> DEFINE m == [pc |-> "received", kind |-> kind, conn |-> conn, files |-> files,
                 unstored |-> {}]
<1>1. m \in Message /\ m.files = files
  BY DEF Message, Stage, Known
<1>2. PICK s \in Slot : handler' = [handler EXCEPT ![s] = m]
  BY DEF Send
<1> QED
  BY <1>1, <1>2

(* A handler that moves on has a well-formed list of blocks.               *)
LEMMA MessageUpdate ==
    ASSUME NEW m \in Message, NEW pc \in Stage, NEW U \in SUBSET Block
    PROVE  LET n == [m EXCEPT !.pc = pc, !.unstored = U]
           IN  n \in Message /\ n.files = m.files
BY DEF Message

LEMMA HandlerUpdate ==
    ASSUME handler \in [Slot -> Message], NEW s \in Slot,
           NEW pc \in Stage, NEW U \in SUBSET Block,
           handler' = [handler EXCEPT ![s].pc = pc, ![s].unstored = U]
    PROVE  /\ handler' \in [Slot -> Message]
           /\ \A t \in Slot : handler'[t].files = handler[t].files
<1> DEFINE n == [handler[s] EXCEPT !.pc = pc, !.unstored = U]
<1>1. n \in Message /\ n.files = handler[s].files
  BY MessageUpdate
<1>2. handler' = [handler EXCEPT ![s] = n]
  OBVIOUS
<1> HIDE DEF n
<1> QED
  BY <1>1, <1>2

(* The rows and the messages keep their form.                              *)
LEMMA RowsStep ==
    ASSUME ProcessorInv, [Next]_vars
    PROVE  RowsInv'
<1> USE DEF ProcessorInv
<1>1. CASE Connect
  <2>1. handler' \in [Slot -> Message] /\ \A s \in Slot : Known(handler'[s].files)
    <3>1. /\ Send("index", connections + 1, peer_version)
          /\ connections + 1 \in Nat /\ Known(peer_version)
          /\ handler \in [Slot -> Message] /\ \A s \in Slot : Known(handler[s].files)
      BY <1>1 DEF Connect, RowsInv
    <3> QED
      BY <3>1, SendType DEF Kind
  <2> QED
    BY <1>1, <2>1 DEF Connect, RowsInv, database, Known
<1>2. ASSUME NEW f \in File, Edit(f) PROVE RowsInv'
  <2> DEFINE files == [g \in File |-> IF g = f THEN peer_version[f] + 1 ELSE 0]
  <2>1. Known(files) /\ Known(peer_version)'
    BY <1>2, ContentAssumption DEF Edit, RowsInv, Known
  <2>2. handler' \in [Slot -> Message] /\ \A s \in Slot : Known(handler'[s].files)
    <3>1. CASE live = 0
      BY <1>2, <3>1 DEF Edit, RowsInv
    <3>2. CASE live # 0
      <4>1. /\ Send("update", live, files) /\ live \in Nat
            /\ handler \in [Slot -> Message] /\ \A s \in Slot : Known(handler[s].files)
        BY <1>2, <3>2 DEF Edit, RowsInv
      <4> HIDE DEF files
      <4> QED
        BY <2>1, <4>1, SendType DEF Kind
    <3> QED
      BY <3>1, <3>2
  <2> QED
    BY <1>2, <2>1, <2>2 DEF Edit, RowsInv, database, Known
<1>3. ASSUME NEW s \in Slot, ScanIndex(s) PROVE RowsInv'
  <2> DEFINE received == handler[s].files
             newer == diff_indices(received, info)
  <2>1. /\ Known(received) /\ Known(Updated(info, received, newer))
        /\ BlocksIn(received, newer) \subseteq Block
    BY DiffPositive, UpdatedKnown, BlocksInType DEF RowsInv
  <2>2. /\ info' = Updated(info, received, newer) /\ peer_info' = received
        /\ rows' = rows \cup BlocksIn(received, newer)
        /\ handler' = [handler EXCEPT ![s].pc = "scanned",
                                      ![s].unstored = blocks_info(rows', stored')]
        /\ connections' = connections /\ live' = live /\ peer_version' = peer_version
    BY <1>3 DEF ScanIndex, replace_index, insert_file_info, network
  <2>3. rows' \subseteq Block /\ blocks_info(rows', stored') \subseteq Block
    BY <2>1, <2>2 DEF RowsInv, blocks_info
  <2>4. handler' \in [Slot -> Message] /\ \A t \in Slot : handler'[t].files = handler[t].files
    BY <2>2, <2>3, HandlerUpdate DEF RowsInv, Stage
  <2> QED
    BY <2>1, <2>2, <2>3, <2>4 DEF RowsInv, Known
<1>4. ASSUME NEW s \in Slot, ScanIndexUpdate(s) PROVE RowsInv'
  <2> DEFINE received == handler[s].files
             newer == diff_indices(peer_info', info)
  <2>1. peer_info' = Updated(peer_info, received, diff_indices(received, peer_info))
    BY <1>4 DEF ScanIndexUpdate
  <2>2. Known(received) /\ Known(peer_info')
    BY <2>1, UpdatedKnown DEF RowsInv
  <2>3. /\ Known(Updated(info, peer_info', newer))
        /\ BlocksIn(peer_info', newer) \subseteq Block
    BY <2>2, DiffPositive, UpdatedKnown, BlocksInType DEF RowsInv
  <2>4. /\ info' = Updated(info, peer_info', newer)
        /\ rows' = {b \in rows : b.name \notin newer} \cup BlocksIn(peer_info', newer)
        /\ handler' = [handler EXCEPT ![s].pc = "scanned",
                                      ![s].unstored = blocks_info(rows', stored')]
        /\ connections' = connections /\ live' = live /\ peer_version' = peer_version
    BY <1>4 DEF ScanIndexUpdate, rm_replace_file_info, network
  <2>5. rows' \subseteq Block /\ blocks_info(rows', stored') \subseteq Block
    BY <2>3, <2>4 DEF RowsInv, blocks_info
  <2>6. handler' \in [Slot -> Message] /\ \A t \in Slot : handler'[t].files = handler[t].files
    BY <2>4, <2>5, HandlerUpdate DEF RowsInv, Stage
  <2> QED
    BY <2>2, <2>3, <2>4, <2>5, <2>6 DEF RowsInv, Known
<1>5. ASSUME NEW s \in Slot, StoreRequests(s) PROVE RowsInv'
  <2>1. PICK pc \in Stage, U \in SUBSET Block :
            handler' = [handler EXCEPT ![s].pc = pc, ![s].unstored = U]
    BY <1>5 DEF StoreRequests, Stage
  <2>2. handler' \in [Slot -> Message] /\ \A t \in Slot : handler'[t].files = handler[t].files
    BY <2>1, HandlerUpdate DEF RowsInv
  <2> QED
    BY <1>5, <2>2 DEF StoreRequests, RowsInv, Known, database, network
<1>6. CASE Crash
  <2> DEFINE m(s) == [handler[s] EXCEPT !.pc = "done", !.unstored = {}]
  <2>1. \A s \in Slot : m(s) \in Message /\ m(s).files = handler[s].files
    BY MessageUpdate DEF RowsInv, Stage
  <2>2. handler' = [s \in Slot |-> IF handler[s].pc = "unsent" THEN handler[s] ELSE m(s)]
    BY <1>6 DEF Crash
  <2> HIDE DEF m
  <2>3. handler' \in [Slot -> Message] /\ \A s \in Slot : Known(handler'[s].files)
    BY <2>1, <2>2 DEF RowsInv
  <2> QED
    BY <1>6, <2>3 DEF Crash, RowsInv, Known, database
<1>7. CASE Disconnect
  BY <1>7 DEF Disconnect, RowsInv, Known, database
<1>8. ASSUME NEW c \in Connection, Throttle(c) \/ DropEvent(c) PROVE RowsInv'
  BY <1>8 DEF Throttle, DropEvent, RowsInv, Known, database, network
<1>9. ASSUME NEW r \in inflight, Answer(r[1], r[2]) PROVE RowsInv'
  BY <1>9 DEF Answer, RowsInv, Known, database
<1>10. ASSUME NEW id \in TaskId, TaskStep(id) PROVE RowsInv'
  BY <1>10 DEF TaskStep, StoreBlock, update_block_storage_state, BeginConsolidate, CopyChunk,
               EndConsolidate, Upload, update_file_locations, rm_local_file, RemoveRequest,
               RowsInv, Known, database, network
<1>11. CASE Age \/ UNCHANGED vars
  BY <1>11 DEF Age, vars, RowsInv, Known, database, network
<1> QED
  BY <1>1, <1>2, <1>3, <1>4, <1>5, <1>6, <1>7, <1>8, <1>9, <1>10, <1>11 DEF Next, HandlerStep

-----------------------------------------------------------------------------
(* The requests handed out are new on the wire: their ids were not in      *)
(* sent, and two blocks never share an id.                                 *)
LEMMA NewRequests ==
    ASSUME QueueInv
    PROVE  /\ Processed \subseteq Block
           /\ \A b \in Processed : requests_by_request[b] \in TaskId \ sent
           /\ \A a, b \in Processed :
                 requests_by_request[a] = requests_by_request[b] => a = b
<1>1. Processed \subseteq Queued /\ \A b \in Processed : b \notin pending_requests
  BY DEF Processed, Visited
<1>2. \A b \in Queued : b \in Block /\ requests_by_request[b] \in TaskId
  <2>1. requests_by_request \in [Queued -> 1 .. request_id] /\ Queued \subseteq Block
    BY DEF QueueInv, QueueTypeOK
  <2>2. 1 .. request_id \subseteq TaskId
    BY LimitAssumption DEF QueueInv, QueueTypeOK, TaskId
  <2> QED
    BY <2>1, <2>2
<1> QED
  BY <1>1, <1>2 DEF QueueInv, IndexesAgree, SentArePending

(* The ids on the wire and in the tasks stay those that are handed out.    *)
LEMMA IdsStep ==
    ASSUME ProcessorInv, [Next]_vars
    PROVE  IdsInv'
<1> USE DEF ProcessorInv
<1>1. ASSUME NEW c \in Connection, Throttle(c) PROVE IdsInv'
  <2> DEFINE new == {<<requests_by_request[b], b>> : b \in Processed}
  <2>1. /\ sent' = sent \cup {requests_by_request[b] : b \in Processed}
        /\ inflight' \subseteq inflight \cup new
        /\ task' = task
    BY <1>1 DEF Throttle, update_pending_requests
  <2>2. \A r \in new : r \in TaskId \X Block /\ r[1] \in sent' /\ r[1] \notin sent
    BY <2>1, NewRequests
  <2>3. \A r, q \in new : r[1] = q[1] => r = q
    BY NewRequests
  <2> QED
    BY <2>1, <2>2, <2>3 DEF IdsInv
<1>2. ASSUME NEW r \in inflight, Answer(r[1], r[2]) PROVE IdsInv'
  <2>1. /\ sent' = sent /\ inflight' \subseteq inflight /\ r \notin inflight'
        /\ DOMAIN task' = DOMAIN task
        /\ \A id \in TaskId : id # r[1] => task'[id] = task[id]
    BY <1>2 DEF Answer, Answered, IdsInv, queue
  <2> QED
    BY <2>1 DEF IdsInv
<1>3. ASSUME NEW id \in TaskId, RemoveRequest(id) PROVE IdsInv'
  <2>1. /\ sent' = sent \ {id} /\ inflight' = inflight
        /\ task' = [task EXCEPT ![id] = NoTask]
        /\ \A r \in inflight : r[1] # id
    BY <1>3 DEF RemoveRequest, remove, network, IdsInv
  <2> QED
    BY <2>1 DEF IdsInv, NoTask
<1>4. ASSUME NEW id \in TaskId, TaskStep(id), ~RemoveRequest(id) PROVE IdsInv'
  <2>1. /\ sent' = sent /\ inflight' = inflight
        /\ task[id].pc # "none"
        /\ DOMAIN task' = DOMAIN task
        /\ \A other \in TaskId : other # id => task'[other] = task[other]
    <3>1. UNCHANGED <<queue, network>>
      BY <1>4 DEF TaskStep, StoreBlock, update_block_storage_state, BeginConsolidate,
                  CopyChunk, EndConsolidate, Upload, update_file_locations, rm_local_file
    <3>2. /\ task[id].pc # "none"
          /\ DOMAIN task' = DOMAIN task
          /\ \A other \in TaskId : other # id => task'[other] = task[other]
      BY <1>4 DEF TaskStep, StoreBlock, write_chunk, update_block_storage_state,
                  BeginConsolidate, CopyChunk, EndConsolidate, Upload,
                  update_file_locations, rm_local_file, Continue, IdsInv
    <3> QED
      BY <3>1, <3>2 DEF queue, network
  <2> QED
    BY <2>1 DEF IdsInv
<1>5. CASE Crash
  BY <1>5 DEF Crash, IdsInv, NoTask
<1>6. ASSUME NEW s \in Slot, HandlerStep(s) PROVE IdsInv'
  BY <1>6 DEF HandlerStep, ScanIndex, ScanIndexUpdate, StoreRequests,
              store_outgoing_requests, queue, network, IdsInv
<1>7. CASE Connect \/ Disconnect \/ Age \/ (\E f \in File : Edit(f)) \/ UNCHANGED vars
         \/ \E c \in Connection : DropEvent(c)
  BY <1>7 DEF Connect, Disconnect, Age, Edit, DropEvent, TimePasses, vars, queue, network, IdsInv
<1> QED
  BY <1>1, <1>2, <1>3, <1>4, <1>5, <1>6, <1>7 DEF Next

-----------------------------------------------------------------------------
(* The invariant of the processor, and with it that of its queue, holds    *)
(* throughout, for any content of the files and any faults.                *)
THEOREM ProcessorInvariant == Spec => []ProcessorInv
<1>1. Init => ProcessorInv
  <2> SUFFICES ASSUME Init PROVE ProcessorInv
    OBVIOUS
  <2>1. QueueInv
    BY EmptyQueue DEF Init
  <2>2. RowsInv
    <3>1. NoMessage \in Message /\ Known(NoMessage.files)
      BY ContentAssumption DEF NoMessage, Message, Stage, Kind, Known
    <3>2. Known([f \in File |-> 0]) /\ Known([f \in File |-> 1])
      BY ContentAssumption DEF Known
    <3> QED
      BY <3>1, <3>2 DEF Init, RowsInv
  <2>3. IdsInv
    BY DEF Init, IdsInv, NoTask
  <2> QED
    BY <2>1, <2>2, <2>3 DEF ProcessorInv
<1>2. ProcessorInv /\ [Next]_vars => ProcessorInv'
  BY QueueStep, RowsStep, IdsStep DEF ProcessorInv
<1> QED
  BY <1>1, <1>2, PTL DEF Spec

(* Every step of the handlers, tasks and event loops is, for the queue, a  *)
(* step of its own specification or a restart: the composition refines it. *)
THEOREM ProcessorUsesQueue == Spec => QueueUsed
<1>1. Init => QueueInit
  BY DEF Init
<1>2. ProcessorInv /\ [Next]_vars => [QueueNext \/ (QueueInit)']_queue
  BY StepOfQueue
<1> QED
  BY <1>1, <1>2, ProcessorInvariant, PTL DEF Spec, QueueUsed

(* In the composed system, however index messages, responses, expiry,      *)
(* lost connections and crashes interleave, the assertions of remove hold  *)
(* and the three limits of update_pending_requests are respected.          *)
THEOREM LimitsInProcessor ==
    Spec => [](RemoveAssertsHold /\ PendingWithinSlots /\ SizeAccounted /\ FilesWithinLimit)
<1>1. ProcessorInv => RemoveAssertsHold /\ PendingWithinSlots /\ SizeAccounted /\ FilesWithinLimit
  BY AssertsFollow DEF ProcessorInv, QueueInv
<1> QED
  BY <1>1, ProcessorInvariant, PTL

-----------------------------------------------------------------------------
(* The tasks, the file writers and the channels keep their form.           *)
TaskRecord == [pc : Stages, block : Block \union {Missing}, conn : Nat,
               chunks : 0 .. MaxChunks, i : 0 .. MaxChunks + 1, ok : BOOLEAN]
TaskOK(t) == t \in TaskRecord /\ (t.pc # "none" => t.block \in Block /\ t.conn \in Connection)

FormInv ==
    /\ stored \subseteq rows /\ located \subseteq File
    /\ file_writers \in [File -> WriterRecord \union {Missing}]
    /\ task \in [TaskId -> TaskRecord] /\ \A id \in TaskId : TaskOK(task[id])
    /\ \A id \in TaskId : task[id].pc = "copy" => file_writers[task[id].block.name] # Missing
    /\ events \in [Connection -> Nat]
    /\ connections \in 0 .. MaxConnections /\ live \in 0 .. connections
    /\ \A s \in Slot : handler[s].pc # "unsent" => handler[s].conn \in Connection

LEMMA Bounds ==
    /\ MaxChunks \in Nat /\ MaxConnections \in Nat /\ MaxIndexMessages \in Nat
    /\ MaxDisconnects \in Nat /\ MaxCrashes \in Nat
BY BoundAssumption

LEMMA BlockName ==
    ASSUME NEW b \in Block
    PROVE  b.name \in File
BY BlockAssumption, ContentAssumption DEF File

LEMMA NoTaskOK == NoTask \in TaskRecord /\ TaskOK(NoTask) /\ NoTask.pc = "none"
BY Bounds DEF NoTask, TaskRecord, TaskOK, Stages

(* A file has at most MaxChunks chunks.                                    *)
LEMMA ChunksType ==
    ASSUME NEW f \in File, NEW v \in Versions(f)
    PROVE  Chunks(f, v) \in 0 .. MaxChunks
<1>1. Content[f][v] \in Seq(Hash) /\ Len(Content[f][v]) \in 1 .. MaxChunks
  BY ContentAssumption
<1>2. Len(<<>>) = 0
  OBVIOUS
<1> QED
  BY <1>1, <1>2, Bounds DEF Chunks, Data

(* A task that moves on.                                                   *)
Moved(t, u) == u.block = t.block /\ u.conn = t.conn /\ u.chunks = t.chunks
Turned(id, pc) == \E ok \in BOOLEAN : task' = [task EXCEPT ![id].pc = pc, ![id].ok = ok]
Copied(id, pc, i) == task' = [task EXCEPT ![id].pc = pc, ![id].i = i]

(* The writer a task finds or makes.                                       *)
LEMMA WriterType ==
    ASSUME FormInv, NEW id \in TaskId, task[id].pc # "none"
    PROVE  Writer(id) \in WriterRecord /\ task[id].block.name \in File
<1>1. TaskOK(task[id])
  BY DEF FormInv
<1>2. task[id].block \in Block /\ task[id].chunks \in 0 .. MaxChunks
  BY <1>1 DEF TaskOK, TaskRecord
<1>3. task[id].block.name \in File
  BY <1>2, BlockName
<1>4. NewWriter(task[id].chunks) \in WriterRecord
  BY <1>2 DEF NewWriter, WriterRecord
<1>5. file_writers[task[id].block.name] \in WriterRecord \union {Missing}
  BY <1>3 DEF FormInv
<1> QED
  BY <1>3, <1>4, <1>5 DEF Writer

(* What a step of a task does to the task itself.                          *)
TaskMoved(id) ==
    \E u \in TaskRecord :
      /\ TaskOK(u) /\ u.pc # "none" /\ Moved(task[id], u)
      /\ task' = [task EXCEPT ![id] = u]

LEMMA TaskEffect ==
    ASSUME FormInv, NEW id \in TaskId, TaskStep(id), ~RemoveRequest(id)
    PROVE  task[id].pc # "none" /\ TaskMoved(id)
<1>1. task \in [TaskId -> TaskRecord] /\ TaskOK(task[id])
  BY DEF FormInv
<1>2. task[id].pc # "none"
  BY DEF TaskStep, StoreBlock, update_block_storage_state, BeginConsolidate, CopyChunk,
         EndConsolidate, Upload, update_file_locations, rm_local_file
<1>3. ASSUME NEW pc \in Stages \ {"none"}, Turned(id, pc) PROVE TaskMoved(id)
  <2>0. PICK ok \in BOOLEAN : task' = [task EXCEPT ![id].pc = pc, ![id].ok = ok]
    BY <1>3 DEF Turned
  <2>1. PICK u : u = [task[id] EXCEPT !.pc = pc, !.ok = ok]
    OBVIOUS
  <2>2. u \in TaskRecord /\ TaskOK(u) /\ u.pc = pc /\ Moved(task[id], u)
    <3>1. PICK t : t = task[id]
      OBVIOUS
    <3>2. t \in TaskRecord /\ TaskOK(t) /\ t.pc # "none" /\ u = [t EXCEPT !.pc = pc, !.ok = ok]
      BY <1>1, <1>2, <2>1, <3>1
    <3> QED
      BY <3>1, <3>2 DEF TaskRecord, TaskOK, Moved
  <2>3. task' = [task EXCEPT ![id] = u]
    BY <1>1, <2>0, <2>1
  <2> QED
    BY <1>3, <2>2, <2>3 DEF TaskMoved
<1>4. ASSUME NEW pc \in Stages \ {"none"}, NEW i \in 0 .. MaxChunks + 1,
             Copied(id, pc, i)
      PROVE  TaskMoved(id)
  <2>1. PICK u : u = [task[id] EXCEPT !.pc = pc, !.i = i]
    OBVIOUS
  <2>2. u \in TaskRecord /\ TaskOK(u) /\ u.pc = pc /\ Moved(task[id], u)
    <3>1. PICK t : t = task[id]
      OBVIOUS
    <3>2. t \in TaskRecord /\ TaskOK(t) /\ t.pc # "none" /\ u = [t EXCEPT !.pc = pc, !.i = i]
      BY <1>1, <1>2, <2>1, <3>1
    <3> QED
      BY <3>1, <3>2 DEF TaskRecord, TaskOK, Moved
  <2>3. task' = [task EXCEPT ![id] = u]
    BY <1>1, <1>4, <2>1 DEF Copied
  <2> QED
    BY <1>4, <2>2, <2>3 DEF TaskMoved
<1> SUFFICES TaskMoved(id)
  BY <1>2
<1>5. CASE StoreBlock(id)
  <2>1. Turned(id, "mark") \/ Turned(id, "remove")
    BY <1>5 DEF StoreBlock, write_chunk, Continue, Turned
  <2> QED
    BY <1>3, <2>1 DEF Stages
<1>6. CASE update_block_storage_state(id)
  <2>1. Turned(id, "panicked") \/ Turned(id, "conclude") \/ Turned(id, "remove")
    BY <1>6 DEF update_block_storage_state, Continue, Turned
  <2> QED
    BY <1>3, <2>1 DEF Stages
<1>7. CASE BeginConsolidate(id)
  <2>1. \/ Turned(id, "remove")
        \/ Copied(id, "copy", 1)
    BY <1>7 DEF BeginConsolidate, Continue, Turned, Copied
  <2>2. 1 \in 0 .. MaxChunks + 1
    BY Bounds
  <2> QED
    BY <1>3, <1>4, <2>1, <2>2 DEF Stages
<1>8. CASE CopyChunk(id)
  <2>1. CASE Turned(id, "remove")
    BY <1>3, <2>1 DEF Stages
  <2>2. CASE task' = [task EXCEPT ![id].i = @ + 1]
    <3>1. task[id].pc = "copy" /\ task[id].i <= Writer(id).chunks
      BY <1>8 DEF CopyChunk
    <3>2. Writer(id).chunks \in 0 .. MaxChunks /\ task[id].i \in 0 .. MaxChunks + 1
      BY <1>1, <1>2, WriterType DEF WriterRecord, TaskRecord
    <3>3. task[id].i + 1 \in 0 .. MaxChunks + 1
      BY <3>1, <3>2, Bounds
    <3>4. Copied(id, "copy", task[id].i + 1)
      BY <1>1, <2>2, <3>1 DEF Copied, TaskRecord
    <3> QED
      BY <1>4, <3>3, <3>4 DEF Stages
  <2> QED
    BY <1>8, <2>1, <2>2 DEF CopyChunk, Continue, Turned
<1>9. CASE EndConsolidate(id) \/ Upload(id)
  <2>1. Turned(id, "upload") \/ Turned(id, "locate") \/ Turned(id, "no rclone")
    BY <1>9 DEF EndConsolidate, Upload, Continue, Turned
  <2> QED
    BY <1>3, <2>1 DEF Stages
<1>10. CASE update_file_locations(id)
  <2>1. Turned(id, "clean") \/ Turned(id, "remove")
    BY <1>10 DEF update_file_locations, Continue, Turned
  <2> QED
    BY <1>3, <2>1 DEF Stages
<1>11. CASE rm_local_file(id)
  <2>1. Turned(id, "remove")
    BY <1>11 DEF rm_local_file, Continue, Turned
  <2> QED
    BY <1>3, <2>1 DEF Stages
<1> QED
  BY <1>5, <1>6, <1>7, <1>8, <1>9, <1>10, <1>11 DEF TaskStep

(* The stage a task is at after each of its steps.                         *)
LEMMA StageAfter ==
    ASSUME FormInv, NEW id \in TaskId
    PROVE  /\ StoreBlock(id) => task'[id].pc \in {"mark", "remove"}
           /\ update_block_storage_state(id) => task'[id].pc \in {"panicked", "conclude", "remove"}
           /\ BeginConsolidate(id) => task'[id].pc \in {"copy", "remove"}
           /\ CopyChunk(id) => task[id].pc = "copy" /\ task'[id].pc \in {"copy", "remove"}
           /\ EndConsolidate(id) => task'[id].pc = "upload"
           /\ Upload(id) => task'[id].pc \in {"locate", "no rclone"}
           /\ update_file_locations(id) => task'[id].pc \in {"clean", "remove"}
           /\ rm_local_file(id) => task'[id].pc = "remove"
           /\ RemoveRequest(id) => task'[id].pc = "none"
<1>1. task \in [TaskId -> TaskRecord]
  BY DEF FormInv
<1>2. ASSUME NEW pc, Turned(id, pc) PROVE task'[id].pc = pc
  BY <1>1, <1>2 DEF Turned, TaskRecord
<1>3. ASSUME StoreBlock(id) PROVE task'[id].pc \in {"mark", "remove"}
  <2>1. Turned(id, "mark") \/ Turned(id, "remove")
    BY <1>3 DEF StoreBlock, write_chunk, Continue, Turned
  <2> QED
    BY <1>2, <2>1
<1>4. ASSUME update_block_storage_state(id)
      PROVE  task'[id].pc \in {"panicked", "conclude", "remove"}
  BY <1>1, <1>4 DEF update_block_storage_state, Continue, TaskRecord
<1>5. ASSUME BeginConsolidate(id) PROVE task'[id].pc \in {"copy", "remove"}
  <2>1. Copied(id, "copy", 1) \/ Turned(id, "remove")
    BY <1>5 DEF BeginConsolidate, Continue, Turned, Copied
  <2>2. Copied(id, "copy", 1) => task'[id].pc = "copy"
    BY <1>1 DEF Copied, TaskRecord
  <2> QED
    BY <1>2, <2>1, <2>2
<1>6. ASSUME CopyChunk(id) PROVE task[id].pc = "copy" /\ task'[id].pc \in {"copy", "remove"}
  <2>1. task[id].pc = "copy" /\ (task' = [task EXCEPT ![id].i = @ + 1] \/ Turned(id, "remove"))
    BY <1>6 DEF CopyChunk, Continue, Turned
  <2>2. task' = [task EXCEPT ![id].i = @ + 1] => task'[id].pc = task[id].pc
    BY <1>1 DEF TaskRecord
  <2> QED
    BY <1>2, <2>1, <2>2
<1>7. EndConsolidate(id) => Turned(id, "upload")
  BY DEF EndConsolidate, Continue, Turned
<1>8. Upload(id) => Turned(id, "locate") \/ Turned(id, "no rclone")
  BY DEF Upload, Continue, Turned
<1>9. update_file_locations(id) => Turned(id, "clean") \/ Turned(id, "remove")
  BY DEF update_file_locations, Continue, Turned
<1>10. rm_local_file(id) => Turned(id, "remove")
  BY DEF rm_local_file, Continue, Turned
<1>11. RemoveRequest(id) => task'[id].pc = "none"
  BY <1>1, NoTaskOK DEF RemoveRequest
<1>12. Turned(id, "upload") => task'[id].pc = "upload"
  BY <1>2
<1>13. Turned(id, "locate") \/ Turned(id, "no rclone") => task'[id].pc \in {"locate", "no rclone"}
  BY <1>2
<1>14. Turned(id, "clean") \/ Turned(id, "remove") => task'[id].pc \in {"clean", "remove"}
  BY <1>2
<1>15. Turned(id, "remove") => task'[id].pc = "remove"
  BY <1>2
<1> QED
  BY <1>3, <1>4, <1>5, <1>6, <1>7, <1>8, <1>9, <1>10, <1>11, <1>12, <1>13, <1>14, <1>15

LEMMA WritersStep ==
    ASSUME FormInv, NEW id \in TaskId, TaskStep(id)
    PROVE  /\ file_writers' \in [File -> WriterRecord \union {Missing}]
           /\ \A f \in File : file_writers[f] # Missing => file_writers'[f] # Missing
<1>0. Missing \notin WriterRecord
  BY BoundAssumption
<1>1. file_writers \in [File -> WriterRecord \union {Missing}]
  BY DEF FormInv
<1>2. CASE StoreBlock(id)
  <2>1. PICK w : w = Writer(id)
    OBVIOUS
  <2>2. PICK f : f = task[id].block.name
    OBVIOUS
  <2>3. w \in WriterRecord /\ f \in File
    BY <1>2, <2>1, <2>2, WriterType DEF StoreBlock
  <2>4. \/ file_writers' = [file_writers EXCEPT ![f] = w]
        \/ file_writers' = [file_writers EXCEPT ![f] = [w EXCEPT !.leaked = @ + 1]]
    BY <1>2, <2>1, <2>2 DEF StoreBlock, write_chunk
  <2>5. [w EXCEPT !.leaked = @ + 1] \in WriterRecord
    BY <2>3 DEF WriterRecord
  <2> QED
    BY <1>0, <1>1, <2>3, <2>4, <2>5
<1>3. CASE BeginConsolidate(id)
  <2>1. PICK w : w = Writer(id)
    OBVIOUS
  <2>2. PICK f : f = task[id].block.name
    OBVIOUS
  <2>3. w \in WriterRecord /\ f \in File
    BY <1>3, <2>1, <2>2, WriterType DEF BeginConsolidate
  <2>4. \/ file_writers' = [file_writers EXCEPT ![f] = [w EXCEPT !.state = "consolidating"]]
        \/ file_writers' = file_writers
    BY <1>3, <2>1, <2>2 DEF BeginConsolidate
  <2>5. [w EXCEPT !.state = "consolidating"] \in WriterRecord
    BY <2>3 DEF WriterRecord
  <2> QED
    BY <1>0, <1>1, <2>3, <2>4, <2>5
<1>4. CASE EndConsolidate(id)
  <2>1. PICK f : f = task[id].block.name
    OBVIOUS
  <2>2. file_writers' = [file_writers EXCEPT ![f].state = "writing"] /\ f \in File
    BY <1>4, <2>1, WriterType DEF EndConsolidate
  <2>3. PICK w : w = file_writers[f]
    OBVIOUS
  <2>4. file_writers' = [file_writers EXCEPT ![f] = [w EXCEPT !.state = "writing"]]
    BY <1>1, <2>2, <2>3
  <2>5. w \in WriterRecord
    BY <1>1, <1>4, <2>1, <2>2, <2>3 DEF EndConsolidate, FormInv
  <2>6. [w EXCEPT !.state = "writing"] \in WriterRecord
    BY <2>5 DEF WriterRecord
  <2> QED
    BY <1>0, <1>1, <2>2, <2>4, <2>6
<1>5. CASE ~(StoreBlock(id) \/ BeginConsolidate(id) \/ EndConsolidate(id))
  BY <1>1, <1>5 DEF TaskStep, update_block_storage_state, CopyChunk, Upload,
                    update_file_locations, rm_local_file, RemoveRequest
<1> QED
  BY <1>2, <1>3, <1>4, <1>5

(* A task that copies has made its writer.                                 *)
LEMMA CopyStep ==
    ASSUME FormInv, NEW id \in TaskId, TaskStep(id), task'[id].pc = "copy"
    PROVE  file_writers'[task[id].block.name] # Missing
<1>1. PICK f : f = task[id].block.name
  OBVIOUS
<1>2. task \in [TaskId -> TaskRecord] /\ file_writers \in [File -> WriterRecord \union {Missing}]
  BY DEF FormInv
<1>3. CASE BeginConsolidate(id)
  <2>1. f \in File /\ Writer(id) \in WriterRecord
    BY <1>1, <1>3, WriterType DEF BeginConsolidate
  <2>2. PICK w : w = [Writer(id) EXCEPT !.state = "consolidating"]
    OBVIOUS
  <2>3. w \in WriterRecord /\ w # Missing
    BY <2>1, <2>2, BoundAssumption DEF WriterRecord
  <2>4. file_writers' = [file_writers EXCEPT ![f] = w]
    BY <1>1, <1>2, <1>3, <2>2 DEF BeginConsolidate, Continue, TaskRecord
  <2> QED
    BY <1>1, <1>2, <2>1, <2>3, <2>4
<1>4. CASE ~BeginConsolidate(id)
  <2>1. task[id].pc = "copy"
    BY <1>4, StageAfter DEF TaskStep
  <2>2. f \in File /\ file_writers[f] # Missing
    BY <1>1, <2>1, WriterType DEF FormInv
  <2> QED
    BY <1>1, <2>2, WritersStep
<1> QED
  BY <1>3, <1>4

(* A message names the connection it came on.                              *)
ConnOK == \A s \in Slot : handler[s].pc # "unsent" => handler[s].conn \in Connection

LEMMA SendConn ==
    ASSUME handler \in [Slot -> Message], ConnOK, NEW kind, NEW conn \in Connection, NEW files,
           Send(kind, conn, files)
    PROVE  ConnOK'
<1>1. PICK m : m = [pc |-> "received", kind |-> kind, conn |-> conn, files |-> files, unstored |-> {}]
  OBVIOUS
<1>2. PICK s \in Slot : handler' = [handler EXCEPT ![s] = m]
  BY <1>1 DEF Send
<1>3. m.conn \in Connection
  BY <1>1
<1> QED
  BY <1>2, <1>3 DEF ConnOK

LEMMA TurnedConn ==
    ASSUME handler \in [Slot -> Message], ConnOK, NEW s \in Slot, handler[s].pc # "unsent",
           NEW pc, NEW U, handler' = [handler EXCEPT ![s].pc = pc, ![s].unstored = U]
    PROVE  ConnOK'
<1>1. PICK m : m = [handler[s] EXCEPT !.pc = pc, !.unstored = U]
  OBVIOUS
<1>2. handler' = [handler EXCEPT ![s] = m] /\ m.conn = handler[s].conn
  BY <1>1 DEF Message
<1> QED
  BY <1>2 DEF ConnOK

LEMMA MessagesStep ==
    ASSUME ProcessorInv, FormInv, [Next]_vars
    PROVE  /\ ConnOK'
           /\ connections' \in 0 .. MaxConnections /\ live' \in 0 .. connections'
<1>1. /\ handler \in [Slot -> Message] /\ ConnOK
      /\ connections \in 0 .. MaxConnections /\ live \in 0 .. connections
  BY DEF ProcessorInv, RowsInv, FormInv, ConnOK
<1>2. CASE Connect
  <2>1. connections + 1 \in Connection /\ connections' = connections + 1 /\ live' = connections + 1
    BY <1>1, <1>2, Bounds DEF Connect, Connection
  <2>2. ConnOK'
    BY <1>1, <1>2, <2>1, SendConn DEF Connect
  <2> QED
    BY <1>1, <2>1, <2>2, Bounds DEF Connection
<1>3. ASSUME NEW f \in File, Edit(f) PROVE ConnOK' /\ UNCHANGED <<connections, live>>
  <2>1. CASE live = 0
    BY <1>1, <1>3, <2>1 DEF Edit, ConnOK
  <2>2. CASE live # 0
    <3>1. PICK files : Send("update", live, files)
      BY <1>3, <2>2 DEF Edit
    <3>2. live \in Connection
      BY <1>1, <2>2, Bounds DEF Connection
    <3> QED
      BY <1>1, <1>3, <3>1, <3>2, SendConn DEF Edit
  <2> QED
    BY <2>1, <2>2
<1>4. ASSUME NEW s \in Slot, HandlerStep(s) PROVE ConnOK' /\ UNCHANGED <<connections, live>>
  <2>1. /\ handler[s].pc # "unsent" /\ UNCHANGED <<connections, live>>
        /\ \E pc, U : handler' = [handler EXCEPT ![s].pc = pc, ![s].unstored = U]
    BY <1>4 DEF HandlerStep, ScanIndex, ScanIndexUpdate, StoreRequests, network
  <2> QED
    BY <1>1, <2>1, TurnedConn
<1>5. CASE Crash
  <2>1. PICK h : h = [s \in Slot |-> [handler[s] EXCEPT !.pc = "done", !.unstored = {}]]
    OBVIOUS
  <2>2. \A s \in Slot : h[s].conn = handler[s].conn
    BY <1>1, <2>1 DEF Message
  <2>3. /\ handler' = [s \in Slot |-> IF handler[s].pc = "unsent" THEN handler[s] ELSE h[s]]
        /\ live' = 0 /\ connections' = connections
    BY <1>5, <2>1 DEF Crash
  <2> QED
    BY <1>1, <2>2, <2>3 DEF ConnOK
<1>6. CASE Disconnect
  BY <1>1, <1>6 DEF Disconnect, ConnOK
<1>7. ASSUME NEW c \in Connection, Throttle(c) \/ DropEvent(c)
      PROVE  UNCHANGED <<handler, connections, live>>
  BY <1>7 DEF Throttle, DropEvent, network
<1>8. ASSUME NEW r \in inflight, Answer(r[1], r[2]) PROVE UNCHANGED <<handler, connections, live>>
  BY <1>8 DEF Answer
<1>9. ASSUME NEW id \in TaskId, TaskStep(id) PROVE UNCHANGED <<handler, connections, live>>
  BY <1>9 DEF TaskStep, StoreBlock, update_block_storage_state, BeginConsolidate, CopyChunk,
         EndConsolidate, Upload, update_file_locations, rm_local_file, RemoveRequest, network
<1>10. CASE Age \/ UNCHANGED vars
  BY <1>1, <1>10 DEF Age, vars, network, ConnOK
<1>11. UNCHANGED <<handler, connections, live>> =>
         ConnOK' /\ connections' \in 0 .. MaxConnections /\ live' \in 0 .. connections'
  BY <1>1 DEF ConnOK
<1> QED
  BY <1>1, <1>2, <1>3, <1>4, <1>5, <1>6, <1>7, <1>8, <1>9, <1>10, <1>11 DEF Next

(* What is marked stored is a row, and a location that of a file.          *)
LEMMA MarksStep ==
    ASSUME ProcessorInv, FormInv, [Next]_vars
    PROVE  stored' \subseteq rows' /\ located' \subseteq File
<1>1. stored \subseteq rows /\ located \subseteq File
  BY DEF FormInv
<1>2. ASSUME NEW s \in Slot, HandlerStep(s) PROVE stored' \subseteq rows' /\ located' \subseteq File
  BY <1>1, <1>2 DEF HandlerStep, ScanIndex, ScanIndexUpdate, StoreRequests, insert_file_info,
         rm_replace_file_info, database
<1>3. ASSUME NEW id \in TaskId, TaskStep(id) PROVE stored' \subseteq rows' /\ located' \subseteq File
  <2>1. CASE update_block_storage_state(id)
    BY <1>1, <2>1 DEF update_block_storage_state, Marked, RowsOf
  <2>2. CASE update_file_locations(id)
    BY <1>1, <2>2, WriterType DEF update_file_locations
  <2> QED
    BY <1>1, <1>3, <2>1, <2>2 DEF TaskStep, StoreBlock, BeginConsolidate, CopyChunk,
         EndConsolidate, Upload, rm_local_file, RemoveRequest, database
<1>4. ASSUME NEW r \in inflight, Answer(r[1], r[2]) PROVE UNCHANGED <<stored, rows, located>>
  BY <1>4 DEF Answer, database
<1>5. ASSUME NEW c \in Connection, Throttle(c) \/ DropEvent(c) PROVE UNCHANGED <<stored, rows, located>>
  BY <1>5 DEF Throttle, DropEvent, database
<1>6. CASE Connect \/ Disconnect \/ Crash \/ Age \/ (\E f \in File : Edit(f)) \/ UNCHANGED vars
  BY <1>1, <1>6 DEF Connect, Disconnect, Crash, Age, Edit, vars, database
<1> QED
  BY <1>1, <1>2, <1>3, <1>4, <1>5, <1>6 DEF Next

(* An answer starts a task of its request, or none.                        *)
LEMMA AnswerEffect ==
    ASSUME ProcessorInv, FormInv, NEW r \in inflight, Answer(r[1], r[2])
    PROVE  /\ r[1] \in TaskId /\ r[2] \in Block /\ inflight' = inflight \ {r}
           /\ \/ task' = task /\ orphaned' = orphaned \union {r[1]}
              \/ task' = task /\ orphaned' = orphaned /\ r[1] \notin DOMAIN requests_by_id
              \/ \E u \in TaskRecord :
                   /\ TaskOK(u) /\ u.pc \in {"write", "remove"} /\ u.block = r[2]
                   /\ u.chunks = IF info[r[2].name] # 0 THEN Chunks(r[2].name, info[r[2].name]) ELSE 0
                   /\ task' = [task EXCEPT ![r[1]] = u] /\ orphaned' = orphaned
                   /\ r[1] \in DOMAIN requests_by_id
                   /\ u.pc = "write" => info[r[2].name] # 0
<1>1. PICK id : id = r[1]
  OBVIOUS
<1>2. PICK b : b = r[2]
  OBVIOUS
<1>3. id \in TaskId /\ b \in Block /\ r = <<id, b>>
  BY <1>1, <1>2 DEF ProcessorInv, IdsInv
<1>4. b.name \in File
  BY <1>3, BlockName
<1>5. live \in Connection
  BY Bounds DEF Answer, FormInv, Connection
<1>6. PICK n : n = IF info[b.name] # 0 THEN Chunks(b.name, info[b.name]) ELSE 0
  OBVIOUS
<1>7. n \in 0 .. MaxChunks
  <2>1. CASE info[b.name] # 0
    <3>1. info[b.name] \in Versions(b.name)
      BY <1>4, <2>1, ContentAssumption DEF ProcessorInv, RowsInv, Known, Versions
    <3> QED
      BY <1>4, <1>6, <2>1, <3>1, ChunksType
  <2>2. CASE info[b.name] = 0
    BY <1>6, <2>2, Bounds
  <2> QED
    BY <2>1, <2>2
<1>8. PICK answer : Answered(id, b, answer)
  BY <1>1, <1>2 DEF Answer
<1>9. inflight' = inflight \ {r}
  BY <1>1, <1>2, <1>3 DEF Answer
<1>10. CASE answer # "error" /\ id \in DOMAIN requests_by_id
  <2>1. PICK pc \in {"write", "remove"} :
          /\ task' = [task EXCEPT ![id] = [NoTask EXCEPT !.block = b, !.conn = live,
                                              !.pc = pc, !.chunks = n]]
          /\ orphaned' = orphaned /\ (pc = "write" => info[b.name] # 0)
    <3>1. PICK pc : pc = IF answer = "data" /\ info[b.name] # 0 THEN "write" ELSE "remove"
      OBVIOUS
    <3>2. /\ task' = [task EXCEPT ![id] = [NoTask EXCEPT !.block = b, !.conn = live,
                                              !.pc = pc, !.chunks = n]]
          /\ orphaned' = orphaned
      BY <1>6, <1>8, <1>10, <3>1 DEF Answered
    <3>3. pc \in {"write", "remove"} /\ (pc = "write" => info[b.name] # 0)
      BY <3>1
    <3> QED
      BY <3>2, <3>3
  <2>2. PICK u : u = [NoTask EXCEPT !.block = b, !.conn = live, !.pc = pc, !.chunks = n]
    OBVIOUS
  <2>3. /\ u \in TaskRecord /\ TaskOK(u) /\ u.pc \in {"write", "remove"} /\ u.block = b
        /\ u.chunks = n /\ u.pc = pc
    <3>1. u = [pc |-> pc, block |-> b, conn |-> live, chunks |-> n, i |-> 0, ok |-> FALSE]
      BY <2>2 DEF NoTask
    <3>2. live \in Nat /\ 0 \in 0 .. MaxChunks + 1
      BY <1>5, Bounds DEF Connection
    <3>3. pc \in Stages
      BY DEF Stages
    <3> QED
      BY <1>3, <1>5, <1>7, <3>1, <3>2, <3>3 DEF TaskRecord, TaskOK
  <2> QED
    BY <1>1, <1>2, <1>3, <1>6, <1>9, <1>10, <2>1, <2>2, <2>3
<1>11. CASE answer = "error"
  BY <1>1, <1>2, <1>3, <1>8, <1>9, <1>11 DEF Answered
<1>12. CASE answer # "error" /\ id \notin DOMAIN requests_by_id
  BY <1>1, <1>2, <1>3, <1>8, <1>9, <1>12 DEF Answered
<1> QED
  BY <1>10, <1>11, <1>12

TasksForm ==
    /\ file_writers \in [File -> WriterRecord \union {Missing}]
    /\ task \in [TaskId -> TaskRecord] /\ \A id \in TaskId : TaskOK(task[id])
    /\ \A id \in TaskId : task[id].pc = "copy" => file_writers[task[id].block.name] # Missing
    /\ events \in [Connection -> Nat]

LEMMA TasksStep ==
    ASSUME ProcessorInv, FormInv, [Next]_vars
    PROVE  TasksForm'
<1>1. TasksForm
  BY DEF FormInv, TasksForm
<1>2. ASSUME NEW id \in TaskId, TaskStep(id), ~RemoveRequest(id) PROVE TasksForm'
  <2>1. PICK u \in TaskRecord : /\ TaskOK(u) /\ Moved(task[id], u)
                                /\ task' = [task EXCEPT ![id] = u]
    BY <1>2, TaskEffect DEF TaskMoved
  <2>2. /\ file_writers' \in [File -> WriterRecord \union {Missing}]
        /\ \A f \in File : file_writers[f] # Missing => file_writers'[f] # Missing
    BY <1>2, WritersStep
  <2>3. events' = events
    BY <1>2 DEF TaskStep, StoreBlock, update_block_storage_state, BeginConsolidate, CopyChunk,
         EndConsolidate, Upload, update_file_locations, rm_local_file
  <2>4. u.pc = "copy" => file_writers'[task[id].block.name] # Missing
    BY <1>1, <1>2, <2>1, CopyStep DEF TasksForm
  <2>5. ASSUME NEW jd \in TaskId, task'[jd].pc = "copy"
        PROVE  file_writers'[task'[jd].block.name] # Missing
    <3>1. CASE jd = id
      BY <1>1, <2>1, <2>4, <2>5, <3>1 DEF TasksForm, Moved
    <3>2. CASE jd # id
      <4>1. task'[jd] = task[jd] /\ task[jd].pc = "copy"
        BY <1>1, <2>1, <2>5, <3>2 DEF TasksForm
      <4>2. task[jd].block.name \in File
        BY <4>1, WriterType
      <4> QED
        BY <1>1, <2>2, <4>1, <4>2 DEF TasksForm
    <3> QED
      BY <3>1, <3>2
  <2>6. task' \in [TaskId -> TaskRecord] /\ \A jd \in TaskId : TaskOK(task'[jd])
    BY <1>1, <2>1 DEF TasksForm
  <2> QED
    BY <1>1, <2>2, <2>3, <2>5, <2>6 DEF TasksForm
<1>3. ASSUME NEW id \in TaskId, RemoveRequest(id) PROVE TasksForm'
  <2>1. /\ task' = [task EXCEPT ![id] = NoTask] /\ file_writers' = file_writers
        /\ events' = IF task[id].ok THEN [events EXCEPT ![task[id].conn] = @ + 1] ELSE events
        /\ task[id].pc # "none"
    BY <1>3 DEF RemoveRequest
  <2>2. task[id].conn \in Connection
    BY <1>1, <2>1 DEF TasksForm, TaskOK
  <2>3. events' \in [Connection -> Nat]
    BY <1>1, <2>1, <2>2 DEF TasksForm
  <2> QED
    BY <1>1, <2>1, <2>3, NoTaskOK DEF TasksForm
<1>4. ASSUME NEW r \in inflight, Answer(r[1], r[2]) PROVE TasksForm'
  <2>1. file_writers' = file_writers /\ events' = events
    BY <1>4 DEF Answer
  <2>2. CASE task' = task
    BY <1>1, <2>1, <2>2 DEF TasksForm
  <2>3. CASE \E u \in TaskRecord : /\ TaskOK(u) /\ u.pc \in {"write", "remove"}
                                   /\ task' = [task EXCEPT ![r[1]] = u]
    BY <1>1, <2>1, <2>3 DEF TasksForm
  <2> QED
    BY <1>4, <2>2, <2>3, AnswerEffect
<1>5. ASSUME NEW s \in Slot, HandlerStep(s) PROVE TasksForm'
  <2>1. task' = task /\ file_writers' = file_writers
    BY <1>5 DEF HandlerStep, ScanIndex, ScanIndexUpdate, StoreRequests
  <2>2. \/ events' = events
        \/ handler[s].pc = "scanned" /\ events' = [events EXCEPT ![handler[s].conn] = @ + 1]
    BY <1>5 DEF HandlerStep, ScanIndex, ScanIndexUpdate, StoreRequests
  <2>3. handler[s].pc = "scanned" => handler[s].conn \in Connection
    BY DEF FormInv
  <2> QED
    BY <1>1, <2>1, <2>2, <2>3 DEF TasksForm
<1>6. ASSUME NEW c \in Connection, Throttle(c) \/ DropEvent(c) PROVE TasksForm'
  BY <1>1, <1>6 DEF Throttle, DropEvent, TasksForm
<1>7. CASE Crash
  BY <1>7, NoTaskOK DEF Crash, TasksForm
<1>8. CASE Connect \/ Disconnect \/ Age \/ (\E f \in File : Edit(f)) \/ UNCHANGED vars
  BY <1>1, <1>8 DEF Connect, Disconnect, Age, Edit, vars, TasksForm
<1> QED
  BY <1>2, <1>3, <1>4, <1>5, <1>6, <1>7, <1>8 DEF Next

THEOREM ProcessorForm == Spec => []FormInv
<1>1. Init => FormInv
  <2> SUFFICES ASSUME Init PROVE FormInv
    OBVIOUS
  <2>1. \A s \in Slot : handler[s].pc = "unsent"
    BY DEF Init, NoMessage
  <2>2. connections \in 0 .. MaxConnections /\ live \in 0 .. connections
    BY Bounds DEF Init
  <2> QED
    BY <2>1, <2>2, NoTaskOK DEF Init, FormInv
<1>2. ProcessorInv /\ FormInv /\ [Next]_vars => FormInv'
  <2> SUFFICES ASSUME ProcessorInv, FormInv, [Next]_vars PROVE FormInv'
    OBVIOUS
  <2>1. ConnOK' /\ connections' \in 0 .. MaxConnections /\ live' \in 0 .. connections'
    BY MessagesStep
  <2>2. stored' \subseteq rows' /\ located' \subseteq File
    BY MarksStep
  <2>3. TasksForm'
    BY TasksStep
  <2> QED
    BY <2>1, <2>2, <2>3 DEF FormInv, ConnOK, TasksForm
<1> QED
  BY <1>1, <1>2, ProcessorInvariant, PTL DEF Spec

(* The processor's state keeps its types: a block marked stored is a row,  *)
(* a request on the wire is one of the queue's, and the writers, the tasks *)
(* and the channels are well formed.                                       *)
THEOREM ProcessorTypeCorrect == Spec => []TypeOK
<1>1. ASSUME ProcessorInv, FormInv PROVE TypeOK
  <2>1. QueueTypeOK /\ rows \subseteq Block /\ inflight \subseteq TaskId \X Block
    BY <1>1 DEF ProcessorInv, QueueInv, RowsInv, IdsInv
  <2>2. \A f \in File : info[f] \in 0 .. Len(Content[f]) /\ peer_info[f] \in 0 .. Len(Content[f])
    BY <1>1, ContentAssumption DEF ProcessorInv, RowsInv, Known
  <2>3. \A id \in TaskId : task[id].pc \in Stages /\ task[id].i \in 0 .. MaxChunks + 1
    BY <1>1 DEF FormInv, TaskRecord
  <2> QED
    BY <1>1, <2>1, <2>2, <2>3 DEF FormInv, TypeOK
<1> QED
  BY <1>1, ProcessorInvariant, ProcessorForm, PTL

-----------------------------------------------------------------------------
(* Who holds the slot of a pending request. A task that panicked holds it, *)
(* too, for ever.                                                          *)
HeldBy(id, b) ==
    \/ <<id, b>> \in inflight
    \/ task[id].pc # "none" /\ task[id].block = b
    \/ id \in orphaned
SlotsInv == \A b \in pending_requests : HeldBy(requests_by_request[b], b)

LEMMA SlotsStep ==
    ASSUME ProcessorInv, FormInv, SlotsInv, [Next]_vars
    PROVE  SlotsInv'
<1>1. /\ pending_requests \subseteq Queued
      /\ \A b \in Queued : /\ requests_by_request[b] \in DOMAIN requests_by_id
                           /\ requests_by_id[requests_by_request[b]] = b
                           /\ requests_by_request[b] \in TaskId
  <2>1. \A b \in Queued : requests_by_request[b] \in TaskId
    BY LimitAssumption DEF ProcessorInv, QueueInv, QueueTypeOK, TaskId
  <2> QED
    BY <2>1 DEF ProcessorInv, QueueInv, PendingAreQueued, IndexesAgree
<1>2. task \in [TaskId -> TaskRecord]
  BY DEF FormInv
<1>3. ASSUME NEW s \in Slot, StoreRequests(s) PROVE SlotsInv'
  <2>1. UNCHANGED <<inflight, task, orphaned>> /\ store_outgoing_requests(handler[s].unstored)
    BY <1>3 DEF StoreRequests, network
  <2>2. /\ pending_requests' \subseteq pending_requests
        /\ \A b \in pending_requests' : requests_by_request'[b] = requests_by_request[b]
    BY <2>1 DEF store_outgoing_requests, PendingKept, Inserted
  <2> QED
    BY <2>1, <2>2 DEF SlotsInv, HeldBy
<1>4. ASSUME NEW c \in Connection, Throttle(c) PROVE SlotsInv'
  <2>1. /\ pending_requests' = pending_requests \union Processed
        /\ UNCHANGED <<requests_by_request, task>>
        /\ inflight \subseteq inflight' /\ orphaned \subseteq orphaned'
    BY <1>4 DEF Throttle, update_pending_requests
  <2>2. \A b \in Processed : \/ <<requests_by_request[b], b>> \in inflight'
                             \/ requests_by_request[b] \in orphaned'
    BY <1>4 DEF Throttle
  <2> QED
    BY <2>1, <2>2 DEF SlotsInv, HeldBy
<1>5. ASSUME NEW id \in TaskId, RemoveRequest(id) PROVE SlotsInv'
  <2>1. /\ remove(id) /\ task' = [task EXCEPT ![id] = NoTask]
        /\ UNCHANGED <<inflight, orphaned>>
    BY <1>5 DEF RemoveRequest, network
  <2>2. \A b \in pending_requests' : /\ b \in pending_requests
                                     /\ requests_by_request[b] # id
                                     /\ requests_by_request'[b] = requests_by_request[b]
    <3>1. CASE id \in DOMAIN requests_by_id
      <4>1. PICK a : a = requests_by_id[id]
        OBVIOUS
      <4>2. /\ pending_requests' = pending_requests \ {a}
            /\ requests_by_request' = [c \in Queued \ {a} |-> requests_by_request[c]]
        BY <2>1, <3>1, <4>1 DEF remove, AfterRemove
      <4> QED
        BY <1>1, <4>1, <4>2
    <3>2. CASE id \notin DOMAIN requests_by_id
      BY <1>1, <2>1, <3>2 DEF remove
    <3> QED
      BY <3>1, <3>2
  <2>3. \A jd \in TaskId : jd # id => task'[jd] = task[jd]
    BY <1>2, <2>1
  <2> QED
    BY <1>1, <2>1, <2>2, <2>3 DEF SlotsInv, HeldBy
<1>6. ASSUME NEW r \in inflight, Answer(r[1], r[2]) PROVE SlotsInv'
  <2> SUFFICES ASSUME NEW b \in pending_requests
               PROVE  HeldBy(requests_by_request[b], b)'
    BY <1>6 DEF Answer, queue, SlotsInv
  <2>1. PICK id : id = requests_by_request[b]
    OBVIOUS
  <2>2. id \in TaskId /\ id \in DOMAIN requests_by_id /\ HeldBy(id, b)
    BY <1>1, <2>1 DEF SlotsInv
  <2>3. /\ r[1] \in TaskId /\ r = <<r[1], r[2]>> /\ inflight' = inflight \ {r}
        /\ task[r[1]].pc = "none"
        /\ \A q \in inflight : q[1] = r[1] => q = r
    BY <1>6, AnswerEffect DEF ProcessorInv, IdsInv
  <2>4. requests_by_request'[b] = id
    BY <1>6, <2>1 DEF Answer, queue
  <2>5. CASE id # r[1]
    <3>1. <<id, b>> # r
      BY <2>3, <2>5
    <3>2. task'[id] = task[id] /\ orphaned \subseteq orphaned'
      BY <1>2, <1>6, <2>2, <2>5, AnswerEffect
    <3>3. HeldBy(id, b)'
      BY <2>2, <2>3, <3>1, <3>2 DEF HeldBy
    <3> QED
      BY <2>4, <3>3 DEF HeldBy
  <2>6. CASE id = r[1]
    <3>1. orphaned \subseteq orphaned'
      BY <1>6, AnswerEffect
    <3>2. CASE id \in orphaned
      BY <2>4, <3>1, <3>2 DEF HeldBy
    <3>3. CASE id \notin orphaned
      <4>1. <<id, b>> \in inflight
        BY <2>2, <2>3, <2>6, <3>3 DEF HeldBy
      <4>2. r[2] = b
        BY <2>3, <2>6, <4>1
      <4>3. \/ id \in orphaned'
            \/ task'[id].pc # "none" /\ task'[id].block = b
        BY <1>2, <1>6, <2>2, <2>6, <4>2, AnswerEffect
      <4> QED
        BY <2>4, <4>3 DEF HeldBy
    <3> QED
      BY <3>2, <3>3
  <2> QED
    BY <2>5, <2>6
<1>7. ASSUME NEW id \in TaskId, TaskStep(id), ~RemoveRequest(id) PROVE SlotsInv'
  <2>1. UNCHANGED <<queue, inflight, orphaned>>
    BY <1>7 DEF TaskStep, StoreBlock, update_block_storage_state, BeginConsolidate, CopyChunk,
         EndConsolidate, Upload, update_file_locations, rm_local_file, network
  <2>2. PICK u : u.pc # "none" /\ u.block = task[id].block /\ task' = [task EXCEPT ![id] = u]
    BY <1>7, TaskEffect DEF TaskMoved, Moved
  <2>3. \A jd \in TaskId : task[jd].pc # "none" =>
          task'[jd].pc # "none" /\ task'[jd].block = task[jd].block
    BY <1>2, <2>2
  <2> QED
    BY <1>1, <2>1, <2>3 DEF SlotsInv, HeldBy, queue
<1>8. CASE Disconnect
  <2>1. /\ UNCHANGED <<queue, task>> /\ orphaned \subseteq orphaned'
        /\ \A q \in inflight : q[1] \in orphaned'
    BY <1>8 DEF Disconnect
  <2>2. \A id, b : <<id, b>>[1] = id
    OBVIOUS
  <2>3. \A id, b : HeldBy(id, b) => HeldBy(id, b)'
    BY <2>1, <2>2 DEF HeldBy
  <2> QED
    BY <2>1, <2>3 DEF SlotsInv, queue
<1>9. CASE Crash
  BY <1>9 DEF Crash, SlotsInv
<1>10. ASSUME NEW s \in Slot, ScanIndex(s) \/ ScanIndexUpdate(s) PROVE SlotsInv'
  BY <1>10 DEF ScanIndex, ScanIndexUpdate, SlotsInv, HeldBy, queue, network
<1>11. CASE Connect \/ Age \/ (\E f \in File : Edit(f)) \/ UNCHANGED vars
         \/ \E c \in Connection : DropEvent(c)
  BY <1>11 DEF Connect, Age, Edit, DropEvent, TimePasses, vars, queue, network, SlotsInv, HeldBy
<1> QED
  BY <1>3, <1>4, <1>5, <1>6, <1>7, <1>8, <1>9, <1>10, <1>11 DEF Next, HandlerStep

THEOREM SlotsHeld == Spec => []SlotsInv
<1>1. Init => SlotsInv
  BY DEF Init, QueueInit, SlotsInv
<1>2. ProcessorInv /\ FormInv /\ SlotsInv /\ [Next]_vars => SlotsInv'
  BY SlotsStep
<1> QED
  BY <1>1, <1>2, ProcessorInvariant, ProcessorForm, PTL DEF Spec

(* Whatever the peer, the disk and rclone do, a slot of the pending set is *)
(* held by a request on the wire, by the task of its response, by one that *)
(* panicked, or by a request that will not be answered: no error path of   *)
(* the handlers loses one otherwise.                                       *)
THEOREM SlotsAreAccounted == Spec => []SlotsAccounted
<1>1. SlotsInv => SlotsAccounted
  BY DEF SlotsInv, HeldBy, SlotsAccounted
<1> QED
  BY <1>1, SlotsHeld, PTL

-----------------------------------------------------------------------------
(* Files that do not change. Rows are then never deleted, a task finds the *)
(* row of its block, and panics only when its request has expired, which   *)
(* has freed its slot.                                                     *)
FixedContent == \A f \in File : Len(Content[f]) = 1

FixedInv ==
    /\ \A b \in rows : info[b.name] # 0
    /\ Queued \subseteq rows
    /\ \A s \in Slot : handler[s].unstored \subseteq rows
    /\ \A r \in inflight : r[2] \in rows
    /\ \A id \in TaskId : task[id].pc # "none" => task[id].block \in rows
    /\ \A id \in TaskId : task[id].pc = "panicked" => id \notin DOMAIN requests_by_id

LEMMA BlocksInName ==
    ASSUME NEW index, NEW files, NEW b \in BlocksIn(index, files)
    PROVE  b.name \in files
BY DEF BlocksIn, BlocksOf, Block_

LEMMA UpdatedNonZero ==
    ASSUME NEW index, Known(index), NEW added, Known(added), NEW f \in File
    PROVE  LET newer == diff_indices(added, index)
           IN  index[f] # 0 \/ f \in newer => Updated(index, added, newer)[f] # 0
BY DEF Known, diff_indices, Updated

LEMMA FixedRows ==
    ASSUME FixedContent, ProcessorInv, FormInv, FixedInv, NEW s \in Slot,
           ScanIndex(s) \/ ScanIndexUpdate(s)
    PROVE  /\ rows \subseteq rows' /\ \A b \in rows' : info'[b.name] # 0
           /\ handler' \in [Slot -> Message]
           /\ \A t \in Slot : handler'[t].unstored \subseteq rows'
<1>1. /\ Known(info) /\ Known(peer_info) /\ Known(handler[s].files) /\ rows \subseteq Block
      /\ handler \in [Slot -> Message] /\ rows' \subseteq Block /\ handler' \in [Slot -> Message]
      /\ info \in [File -> Nat]
  <2>1. [Next]_vars
    BY DEF Next, HandlerStep
  <2>2. RowsInv'
    BY <2>1, RowsStep
  <2> QED
    BY <2>2 DEF ProcessorInv, RowsInv, Known
<1>2. PICK added : /\ added = handler[s].files \/ added = Updated(peer_info, handler[s].files,
                                                    diff_indices(handler[s].files, peer_info))
                   /\ info' = Updated(info, added, diff_indices(added, info))
                   /\ \/ rows' = rows \union BlocksIn(added, diff_indices(added, info))
                      \/ rows' = {b \in rows : b.name \notin diff_indices(added, info)}
                                   \union BlocksIn(added, diff_indices(added, info))
                   /\ handler' = [handler EXCEPT ![s].pc = "scanned",
                                                 ![s].unstored = blocks_info(rows', stored')]
  <2>1. CASE ScanIndex(s)
    BY <2>1 DEF ScanIndex, insert_file_info
  <2>2. CASE ScanIndexUpdate(s)
    BY <2>2 DEF ScanIndexUpdate, rm_replace_file_info
  <2> QED
    BY <2>1, <2>2
<1>3. Known(added)
  BY <1>1, <1>2, UpdatedKnown
<1>4. PICK newer : newer = diff_indices(added, info)
  OBVIOUS
<1>5. \A b \in rows : b.name \in File /\ b.name \notin newer
  <2>1. \A b \in rows : b.name \in File
    BY <1>1, BlockName
  <2>2. ASSUME NEW f \in newer PROVE info[f] = 0
    <3>1. f \in File /\ added[f] > info[f]
      BY <1>4 DEF diff_indices
    <3>2. added[f] <= Len(Content[f]) /\ Len(Content[f]) = 1 /\ added[f] \in Nat /\ info[f] \in Nat
      BY <1>1, <1>3, <3>1 DEF Known, FixedContent
    <3> QED
      BY <3>1, <3>2
  <2> QED
    BY <2>1, <2>2 DEF FixedInv
<1>6. rows' = rows \union BlocksIn(added, newer)
  BY <1>2, <1>4, <1>5
<1>7. ASSUME NEW b \in rows' PROVE info'[b.name] # 0
  <2>1. b.name \in File
    BY <1>1, <1>7, BlockName
  <2>2. info[b.name] # 0 \/ b.name \in newer
    BY <1>6, BlocksInName DEF FixedInv
  <2> QED
    BY <1>1, <1>2, <1>3, <1>4, <2>1, <2>2, UpdatedNonZero
<1>8. ASSUME NEW t \in Slot PROVE handler'[t].unstored \subseteq rows'
  <2>1. CASE t = s
    <3>1. PICK U : U = blocks_info(rows', stored')
      OBVIOUS
    <3>2. handler' = [handler EXCEPT ![s].pc = "scanned", ![s].unstored = U]
      BY <1>2, <3>1
    <3>3. handler'[s].unstored = U
      BY <1>1, <3>2 DEF Message
    <3> QED
      BY <2>1, <3>1, <3>3 DEF blocks_info
  <2>2. CASE t # s
    BY <1>1, <1>2, <1>6, <2>2 DEF FixedInv
  <2> QED
    BY <2>1, <2>2
<1> QED
  BY <1>1, <1>6, <1>7, <1>8

(* A task whose request is still queued finds a stored row of its file.    *)
LEMMA MarkedRow ==
    ASSUME ProcessorInv, FormInv, NEW b \in rows
    PROVE  /\ b \in {r \in Marked(b) : r.name = b.name}
           /\ IsFiniteSet({r \in Marked(b) : r.name = b.name})
           /\ Cardinality({r \in Marked(b) : r.name = b.name}) \in Nat \ {0}
<1>1. PICK S : S = {r \in Marked(b) : r.name = b.name}
  OBVIOUS
<1>2. b \in S
  BY <1>1 DEF Marked, RowsOf
<1>3. S \subseteq Block
  BY <1>1 DEF Marked, RowsOf, ProcessorInv, RowsInv, FormInv
<1>4. IsFiniteSet(S)
  BY <1>3, BlockAssumption, FS_Subset
<1>5. Cardinality(S) \in Nat /\ Cardinality(S) # 0
  BY <1>2, <1>4, FS_CardinalityType, FS_EmptySet
<1> QED
  BY <1>1, <1>2, <1>4, <1>5

LEMMA ExpectedBlocks ==
    ASSUME ProcessorInv, FixedInv, NEW b \in rows
    PROVE  /\ b.name \in File /\ info[b.name] \in Versions(b.name)
           /\ expected_blocks(b.name) \in Nat
<1>1. b.name \in File /\ info[b.name] \in Nat /\ info[b.name] <= Len(Content[b.name])
  BY BlockName DEF ProcessorInv, RowsInv, Known
<1>2. info[b.name] # 0
  BY DEF FixedInv
<1>3. info[b.name] \in Versions(b.name)
  BY <1>1, <1>2, ContentAssumption DEF Versions
<1> QED
  BY <1>1, <1>3, ContentAssumption DEF expected_blocks

LEMMA FixedStep ==
    ASSUME FixedContent, ProcessorInv, FormInv, FixedInv, [Next]_vars
    PROVE  FixedInv'
<1>1. /\ task \in [TaskId -> TaskRecord]
      /\ \A id \in TaskId : task[id].pc # "none" => id \in sent
      /\ inflight \subseteq TaskId \X Block
      /\ sent \subseteq 1 .. request_id /\ request_id \in Nat
      /\ handler \in [Slot -> Message]
  BY DEF FormInv, ProcessorInv, IdsInv, QueueInv, QueueTypeOK, RowsInv
<1>2. ASSUME NEW s \in Slot, ScanIndex(s) \/ ScanIndexUpdate(s) PROVE FixedInv'
  <2>1. /\ rows \subseteq rows' /\ \A b \in rows' : info'[b.name] # 0
        /\ \A t \in Slot : handler'[t].unstored \subseteq rows'
    BY <1>2, FixedRows
  <2>2. UNCHANGED <<queue, task, inflight>>
    BY <1>2 DEF ScanIndex, ScanIndexUpdate, network
  <2> QED
    BY <2>1, <2>2 DEF FixedInv, queue, Queued
<1>3. ASSUME NEW s \in Slot, StoreRequests(s) PROVE FixedInv'
  <2>1. PICK U : U = handler[s].unstored
    OBVIOUS
  <2>2. /\ store_outgoing_requests(U) /\ UNCHANGED <<info, rows, task, inflight>>
        /\ handler' = [handler EXCEPT ![s].pc = "done", ![s].unstored = {}]
    BY <1>3, <2>1 DEF StoreRequests, database, network
  <2>3. U \subseteq rows /\ Queued \subseteq rows
    BY <2>1 DEF FixedInv
  <2>4. PICK ids \in requests_from_blocks(U) :
          /\ Queued' = Waiting \union Inserted(U)
          /\ DOMAIN requests_by_id' \subseteq DOMAIN requests_by_id \union {ids[b] : b \in Inserted(U)}
    BY <2>2 DEF store_outgoing_requests, Queued
  <2>5. Queued' \subseteq rows
    BY <2>3, <2>4 DEF Waiting, Inserted
  <2>6. \A b \in Inserted(U) : ids[b] > request_id
    <3>1. U \subseteq Block
      BY <2>3 DEF ProcessorInv, RowsInv
    <3>2. Cardinality(U) \in Nat
      BY <3>1, BlockAssumption, FS_Subset, FS_CardinalityType
    <3>3. \A b \in U : ids[b] \in (request_id + 1) .. (request_id + Cardinality(U))
      BY DEF requests_from_blocks
    <3> QED
      BY <1>1, <3>2, <3>3 DEF Inserted
  <2>7. \A id \in TaskId : task[id].pc = "panicked" => id \notin DOMAIN requests_by_id'
    <3> SUFFICES ASSUME NEW id \in TaskId, task[id].pc = "panicked", id \in DOMAIN requests_by_id'
                 PROVE  FALSE
      OBVIOUS
    <3>1. id \notin DOMAIN requests_by_id /\ id \in 1 .. request_id
      BY <1>1 DEF FixedInv
    <3>2. PICK b \in Inserted(U) : id = ids[b]
      BY <2>4, <3>1
    <3> QED
      BY <1>1, <2>6, <3>1, <3>2
  <2>8. ASSUME NEW t \in Slot PROVE handler'[t].unstored \subseteq rows
    <3>1. handler'[s].unstored = {} /\ (t # s => handler'[t] = handler[t])
      BY <1>1, <2>2 DEF Message
    <3> QED
      BY <3>1 DEF FixedInv
  <2> QED
    BY <2>2, <2>5, <2>7, <2>8 DEF FixedInv
<1>4. ASSUME NEW c \in Connection, Throttle(c) PROVE FixedInv'
  <2>1. /\ UNCHANGED <<info, rows, handler, task, requests_by_request, requests_by_id>>
        /\ inflight' \subseteq inflight \union {<<requests_by_request[b], b>> : b \in Processed}
    BY <1>4 DEF Throttle, update_pending_requests, database
  <2>2. \A b \in Processed : b \in rows
    BY DEF FixedInv, Processed, Visited
  <2>3. \A r \in inflight' : r[2] \in rows
    BY <2>1, <2>2 DEF FixedInv
  <2> QED
    BY <2>1, <2>3 DEF FixedInv, Queued
<1>5. ASSUME NEW id \in TaskId, RemoveRequest(id) PROVE FixedInv'
  <2>1. /\ UNCHANGED <<info, rows, handler, inflight>> /\ task' = [task EXCEPT ![id] = NoTask]
        /\ remove(id)
    BY <1>5 DEF RemoveRequest, database, network
  <2>2. Queued' \subseteq Queued /\ DOMAIN requests_by_id' \subseteq DOMAIN requests_by_id
    BY <2>1 DEF remove, AfterRemove, Queued
  <2> QED
    BY <1>1, <2>1, <2>2, NoTaskOK DEF FixedInv
<1>6. ASSUME NEW r \in inflight, Answer(r[1], r[2]) PROVE FixedInv'
  <2>1. UNCHANGED <<queue, info, rows, handler>>
    BY <1>6 DEF Answer, database
  <2>2. r[2] \in rows /\ inflight' \subseteq inflight
    BY <1>6, AnswerEffect DEF FixedInv
  <2>3. \/ task' = task
        \/ \E u : /\ u.pc \in {"write", "remove"} /\ u.block = r[2]
                  /\ task' = [task EXCEPT ![r[1]] = u]
    BY <1>6, AnswerEffect
  <2>4. \A id \in TaskId : task'[id].pc # "none" => task'[id].block \in rows
    BY <1>1, <2>2, <2>3 DEF FixedInv
  <2>5. \A id \in TaskId : task'[id].pc = "panicked" => task[id].pc = "panicked"
    BY <1>1, <2>3
  <2> QED
    BY <2>1, <2>2, <2>4, <2>5 DEF FixedInv, queue, Queued
<1>7. ASSUME NEW id \in TaskId, TaskStep(id), ~RemoveRequest(id) PROVE FixedInv'
  <2>1. UNCHANGED <<queue, info, rows, handler, inflight>>
    BY <1>7 DEF TaskStep, StoreBlock, update_block_storage_state, BeginConsolidate, CopyChunk,
         EndConsolidate, Upload, update_file_locations, rm_local_file, database, network
  <2>2. PICK u : u.block = task[id].block /\ task[id].pc # "none" /\ task' = [task EXCEPT ![id] = u]
    BY <1>7, TaskEffect DEF TaskMoved, Moved
  <2>3. \A jd \in TaskId : task'[jd].pc # "none" => task'[jd].block \in rows
    BY <1>1, <2>2 DEF FixedInv
  <2>4. u.pc = "panicked" => id \notin DOMAIN requests_by_id
    <3>1. CASE update_block_storage_state(id)
      <4>1. PICK b : b = task[id].block
        OBVIOUS
      <4>2. /\ Cardinality({r \in Marked(b) : r.name = b.name}) \in Nat \ {0}
            /\ expected_blocks(b.name) \in Nat
        BY <2>2, <4>1, MarkedRow, ExpectedBlocks DEF FixedInv
      <4>3. task'[id].pc = "panicked" => UploadStatus(id, b) = "panicked"
        BY <1>1, <3>1, <4>1 DEF update_block_storage_state, Continue, TaskRecord
      <4>4. UploadStatus(id, b) = "panicked" => id \notin DOMAIN requests_by_id
        BY <4>2 DEF UploadStatus
      <4> QED
        BY <1>1, <2>2, <4>3, <4>4
    <3>2. CASE ~update_block_storage_state(id)
      <4>1. task'[id].pc # "panicked"
        BY <1>7, <3>2, StageAfter DEF TaskStep
      <4> QED
        BY <1>1, <2>2, <4>1
    <3> QED
      BY <3>1, <3>2
  <2>5. \A jd \in TaskId : task'[jd].pc = "panicked" => jd \notin DOMAIN requests_by_id
    BY <1>1, <2>2, <2>4 DEF FixedInv
  <2> QED
    BY <2>1, <2>3, <2>5 DEF FixedInv, queue, Queued
<1>8. CASE Crash
  <2>1. \A s \in Slot : handler'[s].unstored \subseteq rows
    BY <1>1, <1>8 DEF Crash, FixedInv, Message
  <2>2. UNCHANGED <<info, rows>> /\ Queued' = {} /\ inflight' = {} /\ DOMAIN requests_by_id' = {}
    BY <1>8 DEF Crash, database, Queued
  <2>3. \A id \in TaskId : task'[id].pc = "none"
    BY <1>8, NoTaskOK DEF Crash
  <2> QED
    BY <2>1, <2>2, <2>3 DEF FixedInv
<1>9. CASE Connect \/ \E f \in File : Edit(f)
  <2>1. UNCHANGED <<queue, info, rows, task, inflight>>
    BY <1>9 DEF Connect, Edit, database
  <2>2. \A s \in Slot : handler'[s].unstored \subseteq rows
    <3>1. \/ handler' = handler
          \/ \E kind, conn, files : Send(kind, conn, files)
      BY <1>9 DEF Connect, Edit
    <3>2. ASSUME NEW kind, NEW conn, NEW files, Send(kind, conn, files), NEW s \in Slot
          PROVE  handler'[s].unstored \subseteq rows
      <4>1. PICK m : m = [pc |-> "received", kind |-> kind, conn |-> conn, files |-> files,
                          unstored |-> {}]
        OBVIOUS
      <4>2. m.unstored = {} /\ \E t \in Slot : handler' = [handler EXCEPT ![t] = m]
        BY <3>2, <4>1 DEF Send
      <4> QED
        BY <1>1, <4>2 DEF FixedInv
    <3> QED
      BY <3>1, <3>2 DEF FixedInv
  <2> QED
    BY <2>1, <2>2 DEF FixedInv, queue, Queued
<1>10. CASE Disconnect \/ Age \/ UNCHANGED vars \/ \E c \in Connection : DropEvent(c)
  <2>1. /\ UNCHANGED <<requests_by_request, requests_by_id, info, rows, task, handler>>
        /\ inflight' \subseteq inflight
    BY <1>10 DEF Disconnect, Age, TimePasses, DropEvent, vars, queue, database, network
  <2> QED
    BY <2>1 DEF FixedInv, Queued
<1> QED
  BY <1>2, <1>3, <1>4, <1>5, <1>6, <1>7, <1>8, <1>9, <1>10 DEF Next, HandlerStep

THEOREM FixedInvariant == ASSUME FixedContent PROVE Spec => []FixedInv
<1>1. Init => FixedInv
  <2> SUFFICES ASSUME Init PROVE FixedInv
    OBVIOUS
  <2>1. rows = {} /\ Queued = {} /\ inflight = {}
    BY DEF Init, QueueInit, Queued
  <2>2. \A s \in Slot : handler[s].unstored = {}
    BY DEF Init, NoMessage
  <2>3. \A id \in TaskId : task[id].pc = "none"
    BY NoTaskOK DEF Init
  <2> QED
    BY <2>1, <2>2, <2>3 DEF FixedInv
<1>2. ProcessorInv /\ FormInv /\ FixedInv /\ [Next]_vars => FixedInv'
  BY FixedStep
<1> QED
  BY <1>1, <1>2, ProcessorInvariant, ProcessorForm, PTL DEF Spec

(* With files that do not change, of the tasks that panicked only those    *)
(* whose rclone could not be started hold a slot: a panic of               *)
(* update_block_storage_state follows the expiry of its request, which has *)
(* given the slot back. Lost connections, crashes, bad answers and         *)
(* failures of the disk and of rclone are all allowed.                     *)
THEOREM SlotsLostWithRclone ==
    ASSUME FixedContent
    PROVE  Spec => [](\A b \in pending_requests : task[requests_by_request[b]].pc # "panicked")
<1>1. ASSUME ProcessorInv, FixedInv
      PROVE  \A b \in pending_requests : task[requests_by_request[b]].pc # "panicked"
  <2>1. \A b \in pending_requests : /\ requests_by_request[b] \in TaskId
                                    /\ requests_by_request[b] \in DOMAIN requests_by_id
    BY <1>1, LimitAssumption DEF ProcessorInv, QueueInv, PendingAreQueued, QueueTypeOK, IndexesAgree, TaskId
  <2> QED
    BY <1>1, <2>1 DEF FixedInv
<1> QED
  BY <1>1, ProcessorInvariant, FixedInvariant, PTL

-----------------------------------------------------------------------------
(* Panics. While a task is at work its request is queued or has expired,   *)
(* and every block of a known file has its row.                            *)
Working(id) == task[id].pc \notin {"none"} \union Dead
AsksFor(id) == id \in DOMAIN requests_by_id \/ id <= horizon
BlocksHaveRows == \A f \in File : info[f] # 0 => BlocksOf(f, info[f]) \subseteq rows
KnowsFile(id) == task[id].pc \in {"write", "mark"} => info[task[id].block.name] # 0

PanicInv ==
    /\ \A id \in TaskId : Working(id) => AsksFor(id)
    /\ \A id \in TaskId : KnowsFile(id)
    /\ BlocksHaveRows

LEMMA ScanHasRows ==
    ASSUME ProcessorInv, FormInv, BlocksHaveRows, NEW s \in Slot, ScanIndex(s) \/ ScanIndexUpdate(s)
    PROVE  /\ BlocksHaveRows'
           /\ \A f \in File : info[f] # 0 => info'[f] # 0
<1>1. /\ Known(info) /\ Known(peer_info) /\ Known(handler[s].files) /\ info \in [File -> Nat]
  BY DEF ProcessorInv, RowsInv, Known
<1>2. PICK added : /\ added = handler[s].files \/ added = Updated(peer_info, handler[s].files,
                                                    diff_indices(handler[s].files, peer_info))
                   /\ info' = Updated(info, added, diff_indices(added, info))
                   /\ \/ rows' = rows \union BlocksIn(added, diff_indices(added, info))
                      \/ rows' = {b \in rows : b.name \notin diff_indices(added, info)}
                                   \union BlocksIn(added, diff_indices(added, info))
  <2>1. CASE ScanIndex(s)
    BY <2>1 DEF ScanIndex, insert_file_info
  <2>2. CASE ScanIndexUpdate(s)
    BY <2>2 DEF ScanIndexUpdate, rm_replace_file_info
  <2> QED
    BY <2>1, <2>2
<1>3. Known(added)
  BY <1>1, <1>2, UpdatedKnown
<1>4. PICK newer : newer = diff_indices(added, info)
  OBVIOUS
<1>5. \A f \in File : info[f] # 0 => info'[f] # 0
  BY <1>1, <1>2, <1>3, UpdatedNonZero
<1>6. ASSUME NEW f \in File, info'[f] # 0, NEW b \in BlocksOf(f, info'[f]) PROVE b \in rows'
  <2>1. b.name = f
    BY <1>6 DEF BlocksOf, Block_
  <2>2. CASE f \in newer
    <3>1. info'[f] = added[f]
      BY <1>2, <1>4, <1>6, <2>2 DEF Updated
    <3>2. b \in BlocksIn(added, newer)
      BY <1>6, <2>2, <3>1 DEF BlocksIn
    <3> QED
      BY <1>2, <1>4, <3>2
  <2>3. CASE f \notin newer
    <3>1. info'[f] = info[f]
      BY <1>2, <1>4, <1>6, <2>3 DEF Updated
    <3>2. b \in rows
      BY <1>6, <3>1 DEF BlocksHaveRows
    <3> QED
      BY <1>2, <1>4, <2>1, <2>3, <3>2
  <2> QED
    BY <2>2, <2>3
<1> QED
  BY <1>5, <1>6 DEF BlocksHaveRows

LEMMA StoreKeepsAsked ==
    ASSUME ProcessorInv, NEW U, store_outgoing_requests(U), NEW id \in TaskId, AsksFor(id)
    PROVE  AsksFor(id)'
<1>1. horizon' = horizon /\ horizon \in Nat
  BY DEF store_outgoing_requests, ProcessorInv, QueueInv, QueueTypeOK
<1>2. CASE id \in DOMAIN requests_by_id /\ id > horizon
  <2>1. PICK b : b = requests_by_id[id]
    OBVIOUS
  <2>2. b \in Queued /\ requests_by_request[b] = id
    BY <1>2, <2>1 DEF ProcessorInv, QueueInv, IndexesAgree
  <2>3. b \in Waiting
    BY <1>2, <2>2 DEF Waiting
  <2>4. id \in DOMAIN requests_by_id'
    BY <1>2, <2>2, <2>3 DEF store_outgoing_requests
  <2> QED
    BY <2>4 DEF AsksFor
<1>3. CASE id <= horizon
  BY <1>1, <1>3 DEF AsksFor
<1> QED
  BY <1>1, <1>2, <1>3 DEF AsksFor, TaskId

LEMMA PanicStep ==
    ASSUME ProcessorInv, FormInv, PanicInv, [Next]_vars
    PROVE  PanicInv'
<1>1. task \in [TaskId -> TaskRecord] /\ horizon \in Nat
  BY DEF FormInv, ProcessorInv, QueueInv, QueueTypeOK
<1>2. ASSUME NEW s \in Slot, ScanIndex(s) \/ ScanIndexUpdate(s) PROVE PanicInv'
  <2>1. UNCHANGED <<queue, task>>
    BY <1>2 DEF ScanIndex, ScanIndexUpdate
  <2>2. BlocksHaveRows' /\ \A f \in File : info[f] # 0 => info'[f] # 0
    BY <1>2, ScanHasRows DEF PanicInv
  <2>3. ASSUME NEW id \in TaskId PROVE KnowsFile(id)'
    <3>1. task[id].pc # "none" => task[id].block.name \in File
      BY WriterType
    <3> QED
      BY <2>1, <2>2, <3>1 DEF PanicInv, KnowsFile
  <2> QED
    BY <2>1, <2>2, <2>3 DEF PanicInv, Working, AsksFor, queue
<1>3. ASSUME NEW s \in Slot, StoreRequests(s) PROVE PanicInv'
  <2>1. UNCHANGED <<info, rows, task>> /\ store_outgoing_requests(handler[s].unstored)
    BY <1>3 DEF StoreRequests, database
  <2>2. \A id \in TaskId : AsksFor(id) => AsksFor(id)'
    BY <2>1, StoreKeepsAsked
  <2> QED
    BY <2>1, <2>2 DEF PanicInv, Working, KnowsFile, BlocksHaveRows
<1>4. ASSUME NEW id \in TaskId, RemoveRequest(id) PROVE PanicInv'
  <2>1. /\ UNCHANGED <<info, rows>> /\ remove(id) /\ task' = [task EXCEPT ![id] = NoTask]
    BY <1>4 DEF RemoveRequest, database
  <2>2. ASSUME NEW jd \in TaskId, Working(jd)' PROVE jd # id /\ AsksFor(jd)'
    <3>1. jd # id /\ task'[jd] = task[jd]
      BY <1>1, <2>1, <2>2, NoTaskOK DEF Working
    <3>2. AsksFor(jd)
      BY <2>2, <3>1 DEF PanicInv, Working
    <3> QED
      BY <2>1, <3>1, <3>2 DEF remove, AsksFor
  <2>3. ASSUME NEW jd \in TaskId PROVE KnowsFile(jd)'
    BY <1>1, <2>1, NoTaskOK DEF KnowsFile, PanicInv
  <2> QED
    BY <2>1, <2>2, <2>3 DEF PanicInv, BlocksHaveRows
<1>5. ASSUME NEW r \in inflight, Answer(r[1], r[2]) PROVE PanicInv'
  <2>1. UNCHANGED <<queue, info, rows>>
    BY <1>5 DEF Answer, database
  <2>2. CASE task' = task
    BY <2>1, <2>2 DEF PanicInv, Working, AsksFor, KnowsFile, BlocksHaveRows, queue
  <2>3. CASE task' # task
    <3>1. PICK u : /\ u.block = r[2] /\ task' = [task EXCEPT ![r[1]] = u]
                   /\ u.pc \in {"write", "remove"} /\ r[1] \in DOMAIN requests_by_id
                   /\ u.pc = "write" => info[r[2].name] # 0
      BY <1>5, <2>3, AnswerEffect
    <3>2. ASSUME NEW jd \in TaskId, Working(jd)' PROVE AsksFor(jd)'
      BY <1>1, <2>1, <3>1, <3>2 DEF PanicInv, Working, AsksFor, queue
    <3>3. ASSUME NEW jd \in TaskId PROVE KnowsFile(jd)'
      BY <1>1, <2>1, <3>1 DEF PanicInv, KnowsFile
    <3> QED
      BY <2>1, <3>2, <3>3 DEF PanicInv, BlocksHaveRows
  <2> QED
    BY <2>2, <2>3
<1>6. ASSUME NEW id \in TaskId, TaskStep(id), ~RemoveRequest(id) PROVE PanicInv'
  <2>1. UNCHANGED <<queue, info, rows>>
    BY <1>6 DEF TaskStep, StoreBlock, update_block_storage_state, BeginConsolidate, CopyChunk,
         EndConsolidate, Upload, update_file_locations, rm_local_file, database
  <2>2. PICK u : u.block = task[id].block /\ task[id].pc # "none" /\ task' = [task EXCEPT ![id] = u]
    BY <1>6, TaskEffect DEF TaskMoved, Moved
  <2>3. Working(id)
    BY <1>6 DEF Working, Dead, TaskStep, StoreBlock, update_block_storage_state, BeginConsolidate,
         CopyChunk, EndConsolidate, Upload, update_file_locations, rm_local_file
  <2>4. u.pc \in {"write", "mark"} => task[id].pc = "write"
    <3>1. task'[id].pc \in {"write", "mark"} => task[id].pc = "write"
      <4>1. StoreBlock(id) => task[id].pc = "write"
        BY DEF StoreBlock
      <4> QED
        BY <1>6, <4>1, StageAfter DEF TaskStep
    <3> QED
      BY <1>1, <2>2, <3>1
  <2>5. ASSUME NEW jd \in TaskId, Working(jd)' PROVE AsksFor(jd)'
    <3>1. Working(jd)
      BY <1>1, <2>2, <2>3, <2>5 DEF Working
    <3> QED
      BY <2>1, <3>1 DEF PanicInv, AsksFor, queue
  <2>6. ASSUME NEW jd \in TaskId PROVE KnowsFile(jd)'
    BY <1>1, <2>1, <2>2, <2>4 DEF PanicInv, KnowsFile
  <2> QED
    BY <2>1, <2>5, <2>6 DEF PanicInv, BlocksHaveRows
<1>7. CASE Crash
  <2>1. UNCHANGED <<info, rows>> /\ \A id \in TaskId : task'[id].pc = "none"
    BY <1>7, NoTaskOK DEF Crash, database
  <2> QED
    BY <2>1 DEF PanicInv, Working, KnowsFile, BlocksHaveRows
<1>8. CASE Age
  <2>1. UNCHANGED <<info, rows, task, requests_by_id>> /\ horizon' \in Nat /\ horizon <= horizon'
    BY <1>1, <1>8 DEF Age, TimePasses, database, ProcessorInv, QueueInv, QueueTypeOK
  <2>2. ASSUME NEW id \in TaskId, AsksFor(id) PROVE AsksFor(id)'
    BY <1>1, <2>1, <2>2 DEF AsksFor, TaskId
  <2> QED
    BY <2>1, <2>2 DEF PanicInv, Working, KnowsFile, BlocksHaveRows
<1>9. CASE Connect \/ Disconnect \/ (\E f \in File : Edit(f)) \/ UNCHANGED vars
         \/ \E c \in Connection : Throttle(c) \/ DropEvent(c)
  <2>1. UNCHANGED <<info, rows, task, requests_by_id, horizon>>
    BY <1>9 DEF Connect, Disconnect, Edit, Throttle, update_pending_requests, DropEvent, vars,
         queue, database
  <2> QED
    BY <2>1 DEF PanicInv, Working, AsksFor, KnowsFile, BlocksHaveRows
<1> QED
  BY <1>2, <1>3, <1>4, <1>5, <1>6, <1>7, <1>8, <1>9 DEF Next, HandlerStep

(* The one step that panics in update_block_storage_state.                 *)
LEMMA PanicCause ==
    ASSUME ProcessorInv, FormInv, PanicInv, [Next]_vars, NEW id \in TaskId,
           task[id].pc # "panicked", task'[id].pc = "panicked"
    PROVE  LET b == task[id].block
           IN  id <= horizon \/ b \notin BlocksOf(b.name, info[b.name])
<1>1. task \in [TaskId -> TaskRecord]
  BY DEF FormInv
<1>2. PICK b : b = task[id].block
  OBVIOUS
<1>3. update_block_storage_state(id)
  <2>1. ASSUME NEW jd \in TaskId, TaskStep(jd) PROVE jd = id /\ update_block_storage_state(id)
    <3>1. jd = id
      <4>1. CASE RemoveRequest(jd)
        BY <1>1, <4>1 DEF RemoveRequest
      <4>2. CASE ~RemoveRequest(jd)
        BY <1>1, <2>1, <4>2, TaskEffect DEF TaskMoved
      <4> QED
        BY <4>1, <4>2
    <3> QED
      BY <2>1, <3>1, StageAfter DEF TaskStep
  <2>2. ASSUME NEW r \in inflight, Answer(r[1], r[2]) PROVE FALSE
    <3>1. task' = task \/ \E u : u.pc \in {"write", "remove"} /\ task' = [task EXCEPT ![r[1]] = u]
      BY <2>2, AnswerEffect
    <3> QED
      BY <1>1, <3>1
  <2>3. CASE Crash
    BY <2>3, NoTaskOK DEF Crash
  <2>4. CASE Connect \/ Disconnect \/ Age \/ (\E f \in File : Edit(f)) \/ UNCHANGED vars
           \/ (\E s \in Slot : HandlerStep(s)) \/ \E c \in Connection : Throttle(c) \/ DropEvent(c)
    <3>1. task' = task
      BY <2>4 DEF Connect, Disconnect, Age, Edit, vars, HandlerStep, ScanIndex, ScanIndexUpdate,
           StoreRequests, Throttle, DropEvent
    <3> QED
      BY <3>1
  <2> QED
    BY <2>1, <2>2, <2>3, <2>4 DEF Next
<1>4. task[id].pc = "mark" /\ UploadStatus(id, b) = "panicked"
  BY <1>1, <1>2, <1>3 DEF update_block_storage_state, Continue, TaskRecord
<1>5. AsksFor(id) /\ info[b.name] # 0 /\ b.name \in File
  BY <1>2, <1>4, WriterType DEF PanicInv, Working, Dead, KnowsFile
<1>6. CASE id \in DOMAIN requests_by_id /\ b \in BlocksOf(b.name, info[b.name])
  <2>1. b \in rows
    BY <1>5, <1>6 DEF PanicInv, BlocksHaveRows
  <2>2. Cardinality({r \in Marked(b) : r.name = b.name}) \in Nat \ {0}
    BY <2>1, MarkedRow
  <2>3. info[b.name] \in Versions(b.name)
    BY <1>5, ContentAssumption DEF ProcessorInv, RowsInv, Known, Versions
  <2>4. expected_blocks(b.name) \in Nat
    BY <1>5, <2>3, ContentAssumption DEF expected_blocks
  <2> QED
    BY <1>4, <1>6, <2>2, <2>4 DEF UploadStatus
<1> QED
  BY <1>2, <1>5, <1>6 DEF AsksFor

(* Whatever the peer changes, the disk and rclone refuse and time expires, *)
(* a task panics over its block only when its request was too old or its   *)
(* block is no longer one of the file.                                     *)
THEOREM PanicsAreExplained == Spec => PanicExplained
<1>1. Init => PanicInv
  <2> SUFFICES ASSUME Init PROVE PanicInv
    OBVIOUS
  <2>1. \A f \in File : info[f] = 0
    BY DEF Init
  <2>2. \A id \in TaskId : task[id].pc = "none"
    BY NoTaskOK DEF Init
  <2> QED
    BY <2>1, <2>2 DEF PanicInv, Working, KnowsFile, BlocksHaveRows
<1>2. ProcessorInv /\ FormInv /\ PanicInv /\ [Next]_vars => PanicInv'
  BY PanicStep
<1>3. ProcessorInv /\ FormInv /\ PanicInv /\ [Next]_vars =>
        [\A id \in TaskId : task[id].pc # "panicked" /\ task'[id].pc = "panicked" =>
          LET b == task[id].block
          IN  id <= horizon \/ b \notin BlocksOf(b.name, info[b.name])]_vars
  BY PanicCause
<1> QED
  BY <1>1, <1>2, <1>3, ProcessorInvariant, ProcessorForm, PTL DEF Spec, PanicExplained

-----------------------------------------------------------------------------
(***************************************************************************)
(* No stored block is lost: what the database says of a file is true of    *)
(* chunks, disk and remote storage at every step of the handlers, through  *)
(* crashes and restarts, failing writes of chunks, consolidations that     *)
(* fail at any of their operations and wrong answers of the peer.          *)
(***************************************************************************)

(* Where it holds: files keep their version, a connection ends only with   *)
(* the process, no request expires, uploads succeed and the blocks of a    *)
(* file differ. None of these can be left out: a changing file and an      *)
(* expired request panic their tasks, and StaleList, UploadFailure and     *)
(* RepeatedBlocks show what a second index message after a lost            *)
(* connection, a failing upload and equal blocks do.                       *)
Undisturbed ==
    /\ FixedContent
    /\ MaxDisconnects = 0 /\ ~Ageing /\ ~UploadsMayFail
    /\ \A f \in File : \A i, j \in 1 .. Len(Content[f][1]) :
          Content[f][1][i] = Content[f][1][j] => i = j

All(f) == BlocksOf(f, 1)
Path(b) == <<b.name, Chunks(b.name, 1), b.pos>>

-----------------------------------------------------------------------------
(* The blocks of a file.                                                   *)
LEMMA FileContent ==
    ASSUME NEW f \in File
    PROVE  /\ Content[f][1] \in Seq(Hash) /\ Len(Content[f][1]) \in 1 .. MaxChunks
           /\ All(f) \subseteq Block /\ 1 \in Versions(f)
           /\ \A i \in 1 .. Len(Content[f][1]) :
                 Content[f][1][i] = EmptyHash => Len(Content[f][1]) = 1
<1>1. 1 \in Versions(f)
  BY ContentAssumption DEF Versions
<1> QED
  BY <1>1, ContentAssumption DEF All

LEMMA AllMember ==
    ASSUME NEW f \in File, NEW b \in All(f)
    PROVE  /\ b \in Block /\ b.name = f /\ b.pos \in 1 .. Len(Content[f][1])
           /\ b.hash = Content[f][1][b.pos] /\ b = Block_(f, 1, b.pos)
           /\ b.pos \in 1 .. MaxChunks /\ b.hash \in Hash
<1>1. PICK i \in 1 .. Len(Content[f][1]) : b = Block_(f, 1, i)
  BY DEF All, BlocksOf
<1>2. b.name = f /\ b.pos = i /\ b.hash = Content[f][1][i]
  BY <1>1 DEF Block_
<1>3. b \in Block /\ Len(Content[f][1]) \in 1 .. MaxChunks
  BY FileContent
<1>4. b.hash \in Hash
  BY <1>3 DEF Hash
<1> QED
  BY <1>1, <1>2, <1>3, <1>4, Bounds

LEMMA SamePos ==
    ASSUME NEW f \in File, NEW b \in All(f), NEW c \in All(f), b.pos = c.pos
    PROVE  b = c
BY AllMember

LEMMA SameHash ==
    ASSUME Undisturbed, NEW f \in File, NEW b \in All(f), NEW c \in All(f), b.hash = c.hash
    PROVE  b = c
<1>1. b.pos = c.pos
  BY AllMember DEF Undisturbed
<1> QED
  BY <1>1, SamePos

(* An empty file has one block without data and no chunk, any other as     *)
(* many chunks as blocks.                                                  *)
LEMMA BlockData ==
    ASSUME NEW f \in File, NEW b \in All(f)
    PROVE  \/ /\ Chunks(f, 1) = 0 /\ Data(f, 1) = <<>> /\ b.pos = 1 /\ b.hash = EmptyHash
           \/ /\ Chunks(f, 1) = Len(Content[f][1]) /\ Data(f, 1) = Content[f][1]
              /\ Chunks(f, 1) \in Nat \ {0}
              /\ b.pos \in 1 .. Chunks(f, 1) /\ Data(f, 1)[b.pos] = b.hash /\ b.hash # EmptyHash
<1>0. PICK c : c = Content[f][1]
  OBVIOUS
<1>1. c \in Seq(Hash) /\ Len(c) \in 1 .. MaxChunks /\ b.pos \in 1 .. Len(c) /\ b.hash = c[b.pos]
  BY <1>0, FileContent, AllMember
<1>2. c[b.pos] = EmptyHash => Len(c) = 1
  BY <1>0, <1>1, FileContent
<1>3. CASE c = <<EmptyHash>>
  <2>1. Len(c) = 1 /\ c[1] = EmptyHash
    BY <1>3
  <2>2. Data(f, 1) = <<>> /\ Chunks(f, 1) = 0
    BY <1>0, <1>3 DEF Data, Chunks
  <2> QED
    BY <1>1, <2>1, <2>2
<1>4. CASE c # <<EmptyHash>>
  <2>1. Data(f, 1) = c /\ Chunks(f, 1) = Len(c)
    BY <1>0, <1>4 DEF Data, Chunks
  <2>2. c[b.pos] # EmptyHash
    <3> SUFFICES ASSUME c[b.pos] = EmptyHash PROVE FALSE
      OBVIOUS
    <3>0. PICK p : p = b.pos
      OBVIOUS
    <3>1. Len(c) = 1 /\ p = 1 /\ c[1] = EmptyHash
      <4>1. Len(c) = 1
        BY <1>2
      <4>2. p \in 1 .. 1
        BY <1>1, <3>0, <4>1
      <4>3. p = 1
        BY <4>2
      <4> QED
        BY <3>0, <4>1, <4>3
    <3>2. PICK d : d = <<EmptyHash>>
      OBVIOUS
    <3>3. EmptyHash \in Hash
      BY <3>0, <3>1, AllMember, <1>1
    <3>4. d \in Seq(Hash) /\ Len(d) = 1 /\ d[1] = EmptyHash
      BY <3>2, <3>3
    <3>5. \A i \in 1 .. Len(c) : c[i] = d[i]
      BY <3>1, <3>4
    <3>6. c = d
      BY <1>1, <3>1, <3>4, <3>5, SeqEqual
    <3> QED
      BY <1>4, <3>2, <3>6
  <2> QED
    BY <1>0, <1>1, <2>1, <2>2, Bounds
<1> QED
  BY <1>3, <1>4

LEMMA DataType ==
    ASSUME NEW f \in File
    PROVE  /\ Data(f, 1) \in Seq(Hash) /\ Len(Data(f, 1)) = Chunks(f, 1)
           /\ Chunks(f, 1) \in 0 .. MaxChunks
<1>1. Content[f][1] \in Seq(Hash) /\ 1 \in Versions(f)
  BY FileContent
<1> QED
  BY <1>1, ChunksType DEF Data, Chunks

(* What is no file is no sequence of hashes of a file's length.            *)
LEMMA NotMissing ==
    ASSUME NEW s \in Seq(Hash \union {Torn}), Len(s) \in 0 .. MaxChunks
    PROVE  s # Missing
<1>1. s \in [1 .. Len(s) -> Hash \union {Torn}]
  OBVIOUS
<1> QED
  BY <1>1, BoundAssumption

(* There are as many blocks as positions.                                  *)
LEMMA AllCardinality ==
    ASSUME NEW f \in File
    PROVE  IsFiniteSet(All(f)) /\ Cardinality(All(f)) = Len(Content[f][1])
<1>0. PICK n : n = Len(Content[f][1])
  OBVIOUS
<1>1. n \in Nat
  BY <1>0, FileContent, Bounds
<1>2. IsFiniteSet(1 .. n) /\ Cardinality(1 .. n) = n
  BY <1>1, FS_Interval
<1>3. PICK g : g = [i \in 1 .. n |-> Block_(f, 1, i)]
  OBVIOUS
<1>4. g \in Bijection(1 .. n, All(f))
  <2>1. \A i \in 1 .. n : g[i] = Block_(f, 1, i) /\ g[i] \in All(f) /\ g[i].pos = i
    BY <1>0, <1>3 DEF All, BlocksOf, Block_
  <2>2. g \in [1 .. n -> All(f)]
    BY <1>3, <2>1
  <2>3. \A i, j \in 1 .. n : g[i] = g[j] => i = j
    BY <2>1
  <2>4. \A b \in All(f) : \E i \in 1 .. n : g[i] = b
    BY <1>0, <2>1 DEF All, BlocksOf
  <2> QED
    BY <2>2, <2>3, <2>4 DEF Bijection, Injection, Surjection, IsInjective
<1>5. ExistsBijection(1 .. n, All(f))
  BY <1>4 DEF ExistsBijection
<1> QED
  BY <1>0, <1>2, <1>5, FS_Bijection

(* A part of the blocks as large as all of them is all of them.            *)
LEMMA AllCounted ==
    ASSUME NEW f \in File, NEW S \in SUBSET All(f)
    PROVE  /\ IsFiniteSet(S) /\ Cardinality(S) \in Nat
           /\ Cardinality(S) <= Len(Content[f][1])
           /\ Cardinality(S) = Len(Content[f][1]) => S = All(f)
BY AllCardinality, FS_Subset, FS_CardinalityType

-----------------------------------------------------------------------------
(* The inductive invariant.                                                *)

(* One session: a connection lasts as long as the process, has one index   *)
(* message, and its requests are those for the blocks not stored then.     *)
Underway == {s \in Slot : handler[s].pc \in {"received", "scanned"}}
Idle == Queued = {} /\ inflight = {} /\ \A id \in TaskId : task[id].pc = "none"

SessionInv ==
    /\ horizon = 0 /\ disconnects = 0
    /\ \A f \in File : peer_version[f] = 1
    /\ \A s \in Slot : handler[s].kind = "index"
    /\ \A s \in Slot : handler[s].pc = "received" => \A f \in File : handler[s].files[f] = 1
    /\ \A s \in Slot : handler[s].pc = "scanned" => handler[s].unstored = rows \ stored
    /\ \A s, t \in Underway : s = t
    /\ live = 0 => Underway = {}
    /\ live = 0 \/ Underway # {} => Idle

(* A known file has all its rows.                                          *)
FileRowsInv ==
    \A f \in File :
      \/ info[f] = 0 /\ RowsOf(f) = {} /\ f \notin located /\ f \notin reported
      \/ info[f] = 1 /\ RowsOf(f) = All(f)

(* No request is lost or repeated: a block is requested once in a session, *)
(* and not when it is stored.                                              *)
Concluding == {"conclude", "copy", "upload", "locate", "clean"}
Asked(id, b) == id \in DOMAIN requests_by_id /\ requests_by_id[id] = b

RequestsInv ==
    /\ \A r \in inflight : Asked(r[1], r[2])
    /\ \A id \in TaskId : task[id].pc # "none" =>
         /\ task[id].pc # "panicked" /\ Asked(id, task[id].block)
         /\ task[id].chunks = Chunks(task[id].block.name, 1)
    /\ \A id \in DOMAIN requests_by_id : requests_by_id[id] \in stored =>
         task[id].pc \in Concluding \union {"remove"}

(* A stored block is in its chunk until the file is complete, and then     *)
(* somewhere.                                                              *)
Complete(f) == All(f) \subseteq stored
InChunk(b) == chunk[Path(b)] = b.hash
Kept(b) == InChunk(b) \/ InFile(final[b.name], b) \/ InFile(remote[b.name], b)

FileInv(f) ==
    /\ ~Complete(f) => f \notin located /\ f \notin reported /\ \A b \in StoredOf(f) : InChunk(b)
    /\ \A b \in StoredOf(f) : Kept(b) /\ (b.hash = EmptyHash => InChunk(b))
    /\ f \in located => remote[f] = Data(f, 1)
    /\ f \in reported => f \in located /\ (Strategy = "LocalRemote" => final[f] = Data(f, 1))

(* What a task has achieved when it is at a stage.                         *)
Achieved(t) ==
    LET f == t.block.name
    IN  /\ t.pc = "mark" => InChunk(t.block)
        /\ t.pc \in Concluding => Complete(f) /\ f \notin reported
        /\ t.pc \in Concluding => (f \in located <=> t.pc = "clean")
        /\ t.pc = "conclude" => \A b \in All(f) : InChunk(b)
        /\ t.pc = "copy" => /\ t.i \in 1 .. Chunks(f, 1) + 1
                            /\ \A b \in All(f) : b.pos >= t.i => InChunk(b)
                            /\ final[f] = SubSeq(Data(f, 1), 1, t.i - 1)
        /\ t.pc \in {"upload", "locate", "clean"} => final[f] = Data(f, 1)
        /\ t.pc \in {"locate", "clean"} => remote[f] = Data(f, 1)
        /\ t.pc = "clean" => Strategy = "Remote"

TasksInv ==
    /\ \A id \in TaskId : task[id].pc # "none" => Achieved(task[id])
    /\ \A id, jd \in TaskId :
         /\ task[id].pc \in Concluding /\ task[jd].pc \in Concluding
         /\ task[id].block.name = task[jd].block.name
         => id = jd

(* A writer is consolidating while a task copies, or because a             *)
(* consolidation of the complete file failed.                              *)
Concluded(f) == \E id \in TaskId : task[id].pc \in Concluding /\ task[id].block.name = f
Failed(f) ==
    /\ Complete(f) /\ f \notin located /\ f \notin reported /\ ~Concluded(f)
    /\ \A b \in All(f) : InChunk(b) \/ InFile(final[f], b)

WriterOK(f) ==
    file_writers[f] # Missing =>
      /\ file_writers[f].chunks = Chunks(f, 1)
      /\ file_writers[f].state = "consolidating" => Locked(f) \/ Failed(f)

DiskForm ==
    /\ DOMAIN chunk = ChunkPath /\ DOMAIN final = File /\ DOMAIN remote = File
    /\ reported \subseteq File

IntegrityInv ==
    /\ SessionInv /\ FileRowsInv /\ RequestsInv /\ TasksInv /\ DiskForm
    /\ \A f \in File : FileInv(f) /\ WriterOK(f)

Context == ProcessorInv /\ FormInv /\ FixedInv /\ IntegrityInv

-----------------------------------------------------------------------------
(* What the invariant says of a row, a stored block and a task.            *)
LEMMA RowIs ==
    ASSUME ProcessorInv, FileRowsInv, NEW b \in rows
    PROVE  b.name \in File /\ info[b.name] = 1 /\ b \in All(b.name)
<1>1. b.name \in File
  BY BlockName DEF ProcessorInv, RowsInv
<1>2. b \in RowsOf(b.name)
  BY DEF RowsOf
<1> QED
  BY <1>1, <1>2 DEF FileRowsInv

LEMMA StoredIs ==
    ASSUME Context, NEW f \in File
    PROVE  /\ StoredOf(f) \subseteq All(f)
           /\ Complete(f) <=> StoredOf(f) = All(f)
<1>1. StoredOf(f) \subseteq All(f)
  BY RowIs DEF Context, IntegrityInv, FormInv, StoredOf
<1>2. \A b \in All(f) : b.name = f
  BY AllMember
<1> QED
  BY <1>1, <1>2 DEF Complete, StoredOf

LEMMA PathType ==
    ASSUME NEW f \in File, NEW b \in All(f)
    PROVE  /\ Path(b) = <<f, Chunks(f, 1), b.pos>> /\ Path(b) \in ChunkPath
           /\ \A g \in File : \A c \in All(g) : Path(c) = Path(b) => c = b
<1>1. Path(b) = <<f, Chunks(f, 1), b.pos>>
  BY AllMember DEF Path
<1>2. Chunks(f, 1) \in 0 .. MaxChunks /\ b.pos \in 1 .. MaxChunks
  BY AllMember, DataType
<1>3. Path(b) \in ChunkPath
  BY <1>1, <1>2 DEF ChunkPath
<1>4. ASSUME NEW g \in File, NEW c \in All(g), Path(c) = Path(b) PROVE c = b
  <2>1. c.name = b.name /\ c.pos = b.pos
    BY <1>4 DEF Path
  <2>2. g = f
    BY <2>1, AllMember
  <2> QED
    BY <2>1, <2>2, SamePos
<1> QED
  BY <1>1, <1>3, <1>4

LEMMA TaskIs ==
    ASSUME Context, NEW id \in TaskId, task[id].pc # "none"
    PROVE  /\ task[id].block \in rows /\ task[id].block.name \in File
           /\ task[id].block \in All(task[id].block.name)
           /\ info[task[id].block.name] = 1
           /\ Asked(id, task[id].block) /\ Achieved(task[id])
<1>1. task[id].block \in rows
  BY DEF Context, FixedInv
<1> QED
  BY <1>1, RowIs DEF Context, IntegrityInv, RequestsInv, TasksInv

LEMMA WriterIs ==
    ASSUME Context, NEW id \in TaskId, task[id].pc # "none"
    PROVE  /\ Writer(id) \in WriterRecord
           /\ Writer(id).chunks = Chunks(task[id].block.name, 1)
           /\ ChunkFile(id, task[id].block.pos) = Path(task[id].block)
<1>1. Writer(id) \in WriterRecord
  BY WriterType DEF Context
<1>2. PICK f : f = task[id].block.name
  OBVIOUS
<1>3. f \in File /\ task[id].chunks = Chunks(f, 1)
  BY <1>2, TaskIs DEF Context, IntegrityInv, RequestsInv
<1>4. CASE file_writers[f] = Missing
  <2>1. Writer(id) = NewWriter(Chunks(f, 1))
    BY <1>2, <1>3, <1>4 DEF Writer
  <2>2. Writer(id).chunks = Chunks(f, 1)
    BY <2>1 DEF NewWriter
  <2> QED
    BY <1>1, <1>2, <2>2 DEF ChunkFile, Path
<1>5. CASE file_writers[f] # Missing
  <2>1. Writer(id) = file_writers[f] /\ WriterOK(f)
    BY <1>2, <1>3, <1>5 DEF Writer, Context, IntegrityInv
  <2>2. Writer(id).chunks = Chunks(f, 1)
    BY <1>5, <2>1 DEF WriterOK
  <2> QED
    BY <1>1, <1>2, <2>2 DEF ChunkFile, Path
<1> QED
  BY <1>4, <1>5

(* A block being written or marked is not stored, so no task concludes its *)
(* file; while one concludes, the others of the file only end.             *)
LEMMA NotStored ==
    ASSUME Context, NEW id \in TaskId, task[id].pc \in {"write", "mark"}
    PROVE  /\ task[id].block \notin stored /\ ~Complete(task[id].block.name)
           /\ \A jd \in TaskId : task[jd].pc \in Concluding =>
                 task[jd].block.name # task[id].block.name
<1>1. /\ task[id].block \in All(task[id].block.name) /\ Asked(id, task[id].block)
  BY TaskIs
<1>2. task[id].block \notin stored
  BY <1>1 DEF Context, IntegrityInv, RequestsInv, Asked, Concluding
<1>3. ~Complete(task[id].block.name)
  BY <1>1, <1>2 DEF Complete
<1>4. \A jd \in TaskId : task[jd].pc \in Concluding => Complete(task[jd].block.name)
  BY TaskIs DEF Achieved, Concluding
<1> QED
  BY <1>2, <1>3, <1>4

LEMMA OthersEnd ==
    ASSUME Context, NEW id \in TaskId, task[id].pc \in Concluding,
           NEW jd \in TaskId, jd # id, task[jd].pc # "none",
           task[jd].block.name = task[id].block.name
    PROVE  task[jd].pc = "remove"
<1>1. Complete(task[id].block.name)
  BY TaskIs DEF Achieved, Concluding
<1>2. task[jd].block \in stored /\ Asked(jd, task[jd].block)
  BY <1>1, TaskIs DEF Complete
<1>3. task[jd].pc \in Concluding \union {"remove"}
  BY <1>2 DEF Context, IntegrityInv, RequestsInv, Asked
<1> QED
  BY <1>3 DEF Context, IntegrityInv, TasksInv

(* Until it copies, a task that writes, marks or concludes finds a writer  *)
(* that is not consolidating.                                              *)
LEMMA WriterFree ==
    ASSUME Context, NEW id \in TaskId, NEW f \in File, f = task[id].block.name,
           task[id].pc \in {"write", "mark"} \union (Concluding \ {"copy"})
    PROVE  /\ file_writers[f] # Missing => file_writers[f].state # "consolidating"
           /\ Writer(id).state # "consolidating"
<1>1. \A jd \in TaskId : task[jd].pc = "copy" => task[jd].block.name # f
  <2>1. CASE task[id].pc \in {"write", "mark"}
    BY <2>1, NotStored DEF Concluding
  <2>2. CASE task[id].pc \in Concluding \ {"copy"}
    BY <2>2 DEF Context, IntegrityInv, TasksInv, Concluding
  <2> QED
    BY <2>1, <2>2
<1>2. ~Locked(f)
  BY <1>1 DEF Locked
<1>3. ~Failed(f)
  <2>1. CASE task[id].pc \in {"write", "mark"}
    BY <2>1, NotStored DEF Failed
  <2>2. CASE task[id].pc \in Concluding \ {"copy"}
    BY <2>2 DEF Failed, Concluded
  <2> QED
    BY <2>1, <2>2
<1>4. file_writers[f] # Missing => file_writers[f].state # "consolidating"
  BY <1>2, <1>3 DEF Context, IntegrityInv, WriterOK
<1>5. NewWriter(task[id].chunks).state # "consolidating"
  BY DEF NewWriter
<1> QED
  BY <1>4, <1>5 DEF Writer

LEMMA WriterKept ==
    ASSUME Context, NEW id \in TaskId, NEW f \in File, f = task[id].block.name,
           task[id].pc \in {"write", "mark"} \union (Concluding \ {"copy"}),
           file_writers' = file_writers
    PROVE  WriterOK(f)'
<1>1. WriterOK(f)
  BY DEF Context, IntegrityInv
<1>2. file_writers[f] # Missing => file_writers[f].state # "consolidating"
  BY WriterFree
<1> QED
  BY <1>1, <1>2 DEF WriterOK, Chunks, Data

LEMMA IdOfBlock ==
    ASSUME Context, NEW id, NEW jd, NEW b, Asked(id, b), Asked(jd, b)
    PROVE  id = jd
BY DEF Context, ProcessorInv, QueueInv, IndexesAgree, Asked

-----------------------------------------------------------------------------
(* A step that leaves a file alone.                                        *)
SameFile(f) ==
    /\ \A b \in All(f) : chunk'[Path(b)] = chunk[Path(b)]
    /\ final'[f] = final[f] /\ remote'[f] = remote[f]
    /\ f \in located' <=> f \in located
    /\ f \in reported' => f \in reported
    /\ StoredOf(f)' = StoredOf(f)

LEMMA SameComplete ==
    ASSUME NEW f \in File, StoredOf(f)' = StoredOf(f)
    PROVE  Complete(f)' <=> Complete(f)
<1>1. \A b \in All(f) : b.name = f
  BY AllMember
<1> QED
  BY <1>1 DEF Complete, StoredOf, All, BlocksOf, Block_

LEMMA FileFrame ==
    ASSUME Context, NEW f \in File, SameFile(f)
    PROVE  FileInv(f)'
<1>1. StoredOf(f) \subseteq All(f) /\ FileInv(f)
  BY StoredIs DEF Context, IntegrityInv
<1>2. Complete(f)' <=> Complete(f)
  BY SameComplete DEF SameFile
<1>3. \A b \in All(f) : InChunk(b)' <=> InChunk(b)
  BY DEF SameFile, InChunk, Path, Chunks, Data
<1>4. \A b \in All(f) : Kept(b)' <=> Kept(b)
  <2>1. \A b \in All(f) : b.name = f
    BY AllMember
  <2> QED
    BY <1>3, <2>1 DEF SameFile, Kept, InFile
<1> QED
  BY <1>1, <1>2, <1>3, <1>4 DEF FileInv, SameFile, Data

LEMMA AchievedFrame ==
    ASSUME NEW t, t.block.name \in File, t.block \in All(t.block.name), Achieved(t),
           SameFile(t.block.name)
    PROVE  Achieved(t)'
<1>1. PICK f \in File : f = t.block.name
  OBVIOUS
<1>2. Complete(f)' <=> Complete(f)
  BY <1>1, SameComplete DEF SameFile
<1>3. \A b \in All(f) : InChunk(b)' <=> InChunk(b)
  BY <1>1 DEF SameFile, InChunk, Path, Chunks, Data
<1> QED
  BY <1>1, <1>2, <1>3 DEF Achieved, SameFile, Concluding

LEMMA FailedFrame ==
    ASSUME NEW f \in File, SameFile(f), Failed(f), ~Concluded(f)'
    PROVE  Failed(f)'
<1>1. Complete(f)'
  BY SameComplete DEF SameFile, Failed
<1>2. \A b \in All(f) : InChunk(b)' <=> InChunk(b)
  BY DEF SameFile, InChunk, Path, Chunks, Data
<1>3. \A b \in All(f) : InFile(final[f], b)' <=> InFile(final[f], b)
  BY DEF SameFile, InFile
<1>4. \A b \in All(f) : InChunk(b)' \/ InFile(final[f], b)'
  BY <1>2, <1>3 DEF Failed
<1>5. f \notin located' /\ f \notin reported'
  BY DEF SameFile, Failed
<1> QED
  BY <1>1, <1>4, <1>5 DEF Failed, All, BlocksOf, Block_

-----------------------------------------------------------------------------
(* The steps of a task. Another file is left alone.                        *)
LEMMA OtherFiles ==
    ASSUME Context, NEW id \in TaskId, TaskStep(id), task[id].pc # "none",
           NEW g \in File, task[id].block.name # g
    PROVE  SameFile(g) /\ file_writers'[g] = file_writers[g]
<1>1. PICK f \in File : f = task[id].block.name
  BY TaskIs
<1>2. DOMAIN chunk = ChunkPath /\ DOMAIN final = File /\ DOMAIN remote = File
  BY DEF Context, IntegrityInv, DiskForm
<1>3. \A b \in All(g) : chunk'[Path(b)] = chunk[Path(b)]
  <2>1. \/ chunk' = chunk
        \/ \E i, data : chunk' = [chunk EXCEPT ![ChunkFile(id, i)] = data]
    <3>1. CASE StoreBlock(id)
      BY <3>1 DEF StoreBlock, write_chunk
    <3>2. CASE CopyChunk(id)
      BY <3>2 DEF CopyChunk
    <3> QED
      BY <3>1, <3>2 DEF TaskStep, update_block_storage_state, BeginConsolidate, EndConsolidate,
           Upload, update_file_locations, rm_local_file, RemoveRequest, disk
  <2>2. \A b \in All(g) : Path(b) = <<g, Chunks(g, 1), b.pos>> /\ Path(b) \in ChunkPath
    BY PathType
  <2>3. \A i : ChunkFile(id, i)[1] = f
    BY <1>1 DEF ChunkFile
  <2>4. \A i : \A b \in All(g) : Path(b) # ChunkFile(id, i)
    BY <1>1, <2>2, <2>3
  <2> QED
    BY <1>2, <2>1, <2>2, <2>4
<1>4. final'[g] = final[g]
  <2>1. final' = final \/ \E data : final' = [final EXCEPT ![f] = data]
    BY <1>1 DEF TaskStep, StoreBlock, update_block_storage_state,
         BeginConsolidate, CopyChunk, EndConsolidate, Upload, update_file_locations,
         rm_local_file, RemoveRequest, disk
  <2> QED
    BY <1>1, <1>2, <2>1
<1>5. remote'[g] = remote[g]
  <2>1. remote' = remote \/ \E data : remote' = [remote EXCEPT ![f] = data]
    BY <1>1 DEF TaskStep, StoreBlock, update_block_storage_state,
         BeginConsolidate, CopyChunk, EndConsolidate, Upload, update_file_locations,
         rm_local_file, RemoveRequest, disk
  <2> QED
    BY <1>1, <1>2, <2>1
<1>6. (g \in located' <=> g \in located) /\ (g \in reported' => g \in reported)
  BY <1>1 DEF TaskStep, StoreBlock, update_block_storage_state,
         BeginConsolidate, CopyChunk, EndConsolidate, Upload, update_file_locations,
         rm_local_file, RemoveRequest, database
<1>7. StoredOf(g)' = StoredOf(g)
  <2>1. stored' = stored \/ stored' = Marked(task[id].block)
    BY DEF TaskStep, StoreBlock, update_block_storage_state,
         BeginConsolidate, CopyChunk, EndConsolidate, Upload, update_file_locations,
         rm_local_file, RemoveRequest, database
  <2> QED
    BY <1>1, <2>1 DEF StoredOf, Marked, RowsOf
<1>8. file_writers'[g] = file_writers[g]
  <2>1. DOMAIN file_writers = File
    BY DEF Context, FormInv
  <2>2. \/ file_writers' = file_writers
        \/ \E w : file_writers' = [file_writers EXCEPT ![f] = w]
        \/ file_writers' = [file_writers EXCEPT ![f].state = "writing"]
    BY <1>1 DEF TaskStep, StoreBlock, write_chunk, update_block_storage_state,
         BeginConsolidate, CopyChunk, EndConsolidate, Upload, update_file_locations,
         rm_local_file, RemoveRequest
  <2> QED
    BY <1>1, <2>1, <2>2
<1> QED
  BY <1>3, <1>4, <1>5, <1>6, <1>7, <1>8 DEF SameFile

(* What is to be shown of a step for its own file.                         *)
OwnFile(id, f) ==
    /\ FileInv(f)' /\ WriterOK(f)'
    /\ \A jd \in TaskId : task'[jd].pc # "none" /\ task'[jd].block.name = f => Achieved(task[jd])'
    /\ task'[id].pc \in Concluding =>
         \A jd \in TaskId \ {id} : task[jd].pc \in Concluding => task[jd].block.name # f
    /\ task'[id].pc # "panicked"
    /\ stored' \subseteq stored \union {task[id].block}
    /\ task[id].block \in stored' => task'[id].pc \in Concluding \union {"remove"}

LEMMA StepPreserves ==
    ASSUME Context, NEW id \in TaskId, TaskStep(id), ~RemoveRequest(id),
           NEW f \in File, f = task[id].block.name, OwnFile(id, f)
    PROVE  /\ TasksInv' /\ RequestsInv'
           /\ \A g \in File : FileInv(g)' /\ WriterOK(g)'
<1>1. PICK u \in TaskRecord : /\ task[id].pc # "none" /\ u.pc # "none" /\ u.block = task[id].block
                              /\ u.chunks = task[id].chunks
                              /\ task' = [task EXCEPT ![id] = u]
  BY TaskEffect DEF TaskMoved, Moved, Context
<1>2. f = task[id].block.name
  OBVIOUS
<1>3. task \in [TaskId -> TaskRecord]
  BY DEF Context, FormInv
<1>4. task'[id] = u /\ \A jd \in TaskId \ {id} : task'[jd] = task[jd]
  BY <1>1, <1>3
<1>5. \A g \in File \ {f} : SameFile(g) /\ file_writers'[g] = file_writers[g]
  BY <1>1, <1>2, OtherFiles
<1>6. ASSUME NEW g \in File PROVE FileInv(g)' /\ WriterOK(g)'
  <2>1. CASE g = f
    BY <1>2, <2>1 DEF OwnFile
  <2>2. CASE g # f
    <3>1. FileInv(g)'
      BY <1>5, <2>2, FileFrame
    <3>2. WriterOK(g)
      BY DEF Context, IntegrityInv
    <3>3. Locked(g) => Locked(g)'
      BY <1>2, <1>4, <2>2 DEF Locked
    <3>4. Concluded(g)' => Concluded(g)
      BY <1>1, <1>2, <1>4, <2>2 DEF Concluded
    <3>5. Failed(g) => ~Concluded(g)
      BY DEF Failed
    <3>6. Failed(g) => Failed(g)'
      BY <1>5, <2>2, <3>4, <3>5, FailedFrame
    <3>7. file_writers'[g] = file_writers[g]
      BY <1>5, <2>2
    <3> QED
      BY <3>1, <3>2, <3>3, <3>6, <3>7 DEF WriterOK, Chunks, Data
  <2> QED
    BY <2>1, <2>2
<1>7. ASSUME NEW jd \in TaskId, task'[jd].pc # "none" PROVE Achieved(task[jd])'
  <2>1. CASE task'[jd].block.name = f
    BY <1>2, <1>7, <2>1 DEF OwnFile
  <2>2. CASE task'[jd].block.name # f
    <3>1. jd # id
      BY <1>1, <1>2, <1>4, <2>2
    <3>2. PICK t : t = task[jd]
      OBVIOUS
    <3>3. t.pc # "none" /\ task'[jd] = t /\ t.block.name # f
      BY <1>4, <1>7, <2>2, <3>1, <3>2
    <3>4. Achieved(t) /\ t.block.name \in File /\ t.block \in All(t.block.name)
      BY <3>2, <3>3, TaskIs
    <3>5. Achieved(t)'
      BY <1>5, <3>3, <3>4, AchievedFrame
    <3> QED
      BY <3>3, <3>5 DEF Achieved
  <2> QED
    BY <2>1, <2>2
<1>8. ASSUME NEW i \in TaskId, NEW j \in TaskId, task'[i].pc \in Concluding,
             task'[j].pc \in Concluding, task'[i].block.name = task'[j].block.name
      PROVE  i = j
  <2>1. CASE i = id /\ j # id
    <3>1. task'[j] = task[j] /\ task'[i].block.name = f
      BY <1>1, <1>2, <1>4, <2>1
    <3>2. task[j].block.name # f
      BY <1>2, <1>8, <2>1, <3>1 DEF OwnFile
    <3> QED
      BY <1>8, <3>1, <3>2
  <2>2. CASE j = id /\ i # id
    <3>1. task'[i] = task[i] /\ task'[j].block.name = f
      BY <1>1, <1>2, <1>4, <2>2
    <3>2. task[i].block.name # f
      BY <1>2, <1>8, <2>2, <3>1 DEF OwnFile
    <3> QED
      BY <1>8, <3>1, <3>2
  <2>3. CASE i # id /\ j # id
    BY <1>4, <1>8, <2>3 DEF Context, IntegrityInv, TasksInv
  <2> QED
    BY <2>1, <2>2, <2>3
<1>9. RequestsInv'
  <2>1. UNCHANGED <<requests_by_id, inflight>>
    BY DEF TaskStep, StoreBlock, update_block_storage_state, BeginConsolidate, CopyChunk,
         EndConsolidate, Upload, update_file_locations, rm_local_file, queue, network
  <2>2. RequestsInv
    BY DEF Context, IntegrityInv
  <2>3. \A r \in inflight' : Asked(r[1], r[2])'
    BY <2>1, <2>2 DEF RequestsInv, Asked
  <2>4. ASSUME NEW jd \in TaskId, task'[jd].pc # "none"
        PROVE  /\ task'[jd].pc # "panicked" /\ Asked(jd, task[jd].block)'
               /\ task'[jd].chunks = Chunks(task'[jd].block.name, 1)
    <3>1. task[jd].pc # "none" /\ task'[jd].block = task[jd].block /\ task'[jd].chunks = task[jd].chunks
      BY <1>1, <1>4, <2>4
    <3>2. task'[jd].pc # "panicked"
      BY <1>4, <2>2, <2>4 DEF OwnFile, RequestsInv
    <3> QED
      BY <2>1, <2>2, <3>1, <3>2 DEF RequestsInv, Asked
  <2>5. ASSUME NEW jd \in DOMAIN requests_by_id, requests_by_id[jd] \in stored'
        PROVE  task'[jd].pc \in Concluding \union {"remove"}
    <3>1. Asked(id, task[id].block) /\ Asked(jd, requests_by_id[jd])
      BY <1>1, TaskIs DEF Asked
    <3>2. CASE jd = id
      BY <2>5, <3>1, <3>2 DEF OwnFile, Asked
    <3>3. CASE jd # id
      <4>1. requests_by_id[jd] # task[id].block
        BY <3>1, <3>3, IdOfBlock
      <4>2. requests_by_id[jd] \in stored
        BY <2>5, <4>1 DEF OwnFile
      <4>3. jd \in TaskId
        BY LimitAssumption DEF Context, ProcessorInv, QueueInv, QueueTypeOK, TaskId
      <4> QED
        BY <1>4, <2>2, <3>3, <4>2, <4>3 DEF RequestsInv
    <3> QED
      BY <3>2, <3>3
  <2> QED
    BY <2>1, <2>3, <2>4, <2>5 DEF RequestsInv, Chunks, Data
<1> QED
  BY <1>6, <1>7, <1>8, <1>9 DEF TasksInv

(* What a step does to the tasks.                                          *)
LEMMA TasksAfter ==
    ASSUME Context, NEW id \in TaskId, TaskStep(id), ~RemoveRequest(id)
    PROVE  /\ task[id].pc # "none" /\ task'[id].pc # "none" /\ task'[id] \in TaskRecord
           /\ task'[id].block = task[id].block
           /\ \A jd \in TaskId \ {id} : task'[jd] = task[jd]
           /\ task[id].block.name \in File /\ task[id].block \in All(task[id].block.name)
           /\ task \in [TaskId -> TaskRecord]
<1>1. PICK u \in TaskRecord : /\ task[id].pc # "none" /\ u.pc # "none" /\ u.block = task[id].block
                              /\ task' = [task EXCEPT ![id] = u]
  BY TaskEffect DEF TaskMoved, Moved, Context
<1>2. task \in [TaskId -> TaskRecord]
  BY DEF Context, FormInv
<1> QED
  BY <1>1, <1>2, TaskIs

(* A chunk is written for a block that is not stored.                      *)
LEMMA ChunkWritten ==
    ASSUME Context, NEW id \in TaskId, StoreBlock(id)
    PROVE  /\ chunk' = chunk \/ \E data : chunk' = [chunk EXCEPT ![Path(task[id].block)] = data]
           /\ task'[id].pc \in {"mark", "remove"}
           /\ task'[id].pc = "mark" => chunk'[Path(task[id].block)] = task[id].block.hash
<1>1. TaskStep(id) /\ ~RemoveRequest(id) /\ task[id].pc = "write"
  BY DEF TaskStep, StoreBlock, RemoveRequest
<1>2. PICK b : b = task[id].block
  OBVIOUS
<1>3. PICK f \in File : f = b.name /\ b \in All(f)
  BY <1>1, <1>2, TasksAfter
<1>4. /\ ChunkFile(id, b.pos) = Path(b) /\ Writer(id).chunks = Chunks(f, 1)
  BY <1>1, <1>2, <1>3, WriterIs
<1>5. Path(b) \in DOMAIN chunk
  BY <1>3, PathType DEF Context, IntegrityInv, DiskForm
<1>6. Chunks(f, 1) = 0 => b.hash = EmptyHash
  BY <1>3, BlockData
<1>7. task \in [TaskId -> TaskRecord]
  BY <1>1, TasksAfter
<1>8. \/ /\ chunk' = [chunk EXCEPT ![Path(b)] = b.hash] /\ task'[id].pc = "mark"
      \/ /\ chunk' = chunk \/ \E data : chunk' = [chunk EXCEPT ![Path(b)] = data]
         /\ task'[id].pc = "remove"
  BY <1>2, <1>4, <1>6, <1>7 DEF StoreBlock, write_chunk, Continue, TaskRecord
<1> QED
  BY <1>2, <1>5, <1>8

LEMMA StoreBlockOwn ==
    ASSUME Context, NEW id \in TaskId, StoreBlock(id), NEW f \in File, f = task[id].block.name
    PROVE  OwnFile(id, f)
<1>1. TaskStep(id) /\ ~RemoveRequest(id) /\ task[id].pc = "write" /\ ~Locked(f)
  BY DEF TaskStep, StoreBlock, RemoveRequest
<1>2. PICK b : b = task[id].block
  OBVIOUS
<1>3. b \in All(f) /\ b \notin stored /\ ~Complete(f) /\ b.name = f
  BY <1>1, <1>2, TasksAfter, NotStored
<1>4. UNCHANGED <<stored, located, final, remote, reported>>
  BY DEF StoreBlock, database
<1>5. ASSUME NEW c \in All(f), c # b PROVE InChunk(c)' <=> InChunk(c)
  <2>1. Path(c) # Path(b) /\ Path(c) \in DOMAIN chunk
    BY <1>3, <1>5, PathType DEF Context, IntegrityInv, DiskForm
  <2>2. chunk'[Path(c)] = chunk[Path(c)]
    BY <1>2, <2>1, ChunkWritten
  <2> QED
    BY <2>2 DEF InChunk, Path, Chunks, Data
<1>6. FileInv(f)'
  <2>1. FileInv(f) /\ StoredOf(f) \subseteq All(f) /\ StoredOf(f)' = StoredOf(f)
    BY <1>4, StoredIs DEF Context, IntegrityInv, StoredOf
  <2>2. \A c \in StoredOf(f) : c \in All(f) /\ c # b
    BY <1>3, <2>1 DEF StoredOf
  <2>3. \A c \in StoredOf(f) : InChunk(c)'
    BY <1>3, <1>5, <2>1, <2>2 DEF FileInv
  <2>4. f \notin located' /\ f \notin reported'
    BY <1>3, <1>4, <2>1 DEF FileInv
  <2> QED
    BY <2>1, <2>3, <2>4 DEF FileInv, Kept
<1>7. WriterOK(f)'
  <2>1. PICK w \in WriterRecord : w = Writer(id)
    BY <1>1, WriterIs
  <2>2. w.chunks = Chunks(f, 1) /\ w.state # "consolidating"
    BY <1>1, <2>1, WriterIs, WriterFree
  <2>3. \/ file_writers' = [file_writers EXCEPT ![f] = w]
        \/ file_writers' = [file_writers EXCEPT ![f] = [w EXCEPT !.leaked = @ + 1]]
    BY <1>2, <1>3, <2>1 DEF StoreBlock, write_chunk
  <2>4. DOMAIN file_writers = File
    BY DEF Context, FormInv
  <2>5. file_writers'[f].chunks = w.chunks /\ file_writers'[f].state = w.state
    BY <2>3, <2>4 DEF WriterRecord
  <2> QED
    BY <2>2, <2>5 DEF WriterOK, Chunks, Data
<1>8. ASSUME NEW jd \in TaskId, task'[jd].pc # "none", task'[jd].block.name = f
      PROVE  Achieved(task[jd])'
  <2>1. CASE jd = id
    <3>1. task'[id].pc \in {"mark", "remove"} /\ task'[id].block = b
      BY <1>1, <1>2, TasksAfter, ChunkWritten
    <3>2. task'[id].pc = "mark" => chunk'[Path(b)] = b.hash
      BY <1>2, ChunkWritten
    <3> QED
      BY <2>1, <3>1, <3>2 DEF Achieved, Concluding, InChunk, Path, Chunks, Data
  <2>2. CASE jd # id
    <3>1. task'[jd] = task[jd] /\ task[jd].pc # "none" /\ task[jd].block.name = f
      BY <1>1, <1>8, <2>2, TasksAfter
    <3>2. task[jd].pc \notin Concluding /\ task[jd].block \in All(f) /\ Achieved(task[jd])
      BY <1>1, <3>1, NotStored, TaskIs
    <3>3. task[jd].block # b
      BY <1>1, <1>2, <2>2, <3>1, TaskIs, IdOfBlock
    <3>4. task[jd].pc = "mark" => InChunk(task[jd].block)
      BY <3>2 DEF Achieved
    <3>5. PICK c \in All(f) : c = task[jd].block /\ c # b
      BY <3>2, <3>3
    <3>6. task[jd].pc = "mark" => InChunk(c)'
      BY <1>5, <3>4, <3>5
    <3> QED
      BY <3>1, <3>2, <3>5, <3>6 DEF Achieved, Concluding, InChunk, Path
  <2> QED
    BY <2>1, <2>2
<1>9. task'[id].pc \in {"mark", "remove"}
  BY ChunkWritten
<1> QED
  BY <1>2, <1>3, <1>4, <1>6, <1>7, <1>8, <1>9 DEF OwnFile, Concluding

(* A block is marked, alone, and the task that completes the file sees it. *)
LEMMA BlockMarked ==
    ASSUME Undisturbed, Context, NEW id \in TaskId, update_block_storage_state(id)
    PROVE  LET f == task[id].block.name
           IN  /\ stored' = stored \union {task[id].block}
               /\ \/ task'[id].pc = "conclude" /\ StoredOf(f) \union {task[id].block} = All(f)
                  \/ task'[id].pc = "remove"
<1>1. TaskStep(id) /\ ~RemoveRequest(id) /\ task[id].pc = "mark"
  BY DEF TaskStep, update_block_storage_state, RemoveRequest
<1>2. PICK b : b = task[id].block
  OBVIOUS
<1>3. PICK f \in File : f = b.name /\ b \in All(f) /\ info[f] = 1 /\ b \in rows /\ Asked(id, b)
  BY <1>1, <1>2, TaskIs
<1>4. RowsOf(f) = All(f)
  BY <1>3 DEF Context, IntegrityInv, FileRowsInv
<1>5. Marked(b) = stored \union {b}
  <2>1. \A r \in All(f) : r.hash = b.hash <=> r = b
    BY <1>3, SameHash
  <2> QED
    BY <1>3, <1>4, <2>1 DEF Marked
<1>6. PICK S : S = {r \in Marked(b) : r.name = f}
  OBVIOUS
<1>7. S = StoredOf(f) \union {b} /\ S \subseteq All(f)
  BY <1>3, <1>5, <1>6, StoredIs DEF StoredOf
<1>8. PICK n : n = Cardinality(S)
  OBVIOUS
<1>9. PICK m : m = Len(Content[f][1])
  OBVIOUS
<1>10. n \in Nat /\ n <= m /\ (n = m => S = All(f)) /\ m \in Nat
  BY <1>7, <1>8, <1>9, AllCounted, FileContent, Bounds
<1>11. n # 0
  BY <1>3, <1>6, <1>8, MarkedRow DEF Context
<1>12. expected_blocks(f) = m
  BY <1>3, <1>9 DEF expected_blocks
<1>13. id \in DOMAIN requests_by_id
  BY <1>3 DEF Asked
<1>14. n < m \/ n = m
  BY <1>10
<1>15. UploadStatus(id, b) = IF n = m THEN "AllBlocks" ELSE "BlocksMissing"
  <2>1. CASE n = m
    BY <1>3, <1>6, <1>8, <1>10, <1>11, <1>12, <1>13, <2>1 DEF UploadStatus
  <2>2. CASE n < m
    BY <1>3, <1>6, <1>8, <1>10, <1>11, <1>12, <1>13, <2>2 DEF UploadStatus
  <2> QED
    BY <1>10, <1>14, <2>1, <2>2
<1>16. task \in [TaskId -> TaskRecord]
  BY <1>1, TasksAfter
<1>17. stored' = Marked(b) /\ task'[id].pc = IF n = m THEN "conclude" ELSE "remove"
  <2>1. CASE n = m
    BY <1>2, <1>15, <1>16, <2>1 DEF update_block_storage_state, Continue, TaskRecord
  <2>2. CASE n # m
    BY <1>2, <1>15, <1>16, <2>2 DEF update_block_storage_state, Continue, TaskRecord
  <2> QED
    BY <2>1, <2>2
<1> QED
  BY <1>2, <1>3, <1>5, <1>7, <1>10, <1>17

LEMMA MarkOwn ==
    ASSUME Undisturbed, Context, NEW id \in TaskId, update_block_storage_state(id),
           NEW f \in File, f = task[id].block.name
    PROVE  OwnFile(id, f)
<1>1. TaskStep(id) /\ ~RemoveRequest(id) /\ task[id].pc = "mark"
  BY DEF TaskStep, update_block_storage_state, RemoveRequest
<1>2. PICK b : b = task[id].block
  OBVIOUS
<1>3. b \in All(f) /\ b \notin stored /\ ~Complete(f) /\ b.name = f
  BY <1>1, <1>2, TasksAfter, NotStored
<1>4. UNCHANGED <<chunk, located, final, remote, reported, file_writers>>
  BY DEF update_block_storage_state, disk
<1>5. stored' = stored \union {b}
  BY <1>2, BlockMarked
<1>6. task'[id].pc \in {"conclude", "remove"} /\ task'[id].block = b
  BY <1>1, <1>2, TasksAfter, BlockMarked
<1>7. \A c : InChunk(c)' <=> InChunk(c)
  BY <1>4 DEF InChunk, Path, Chunks, Data
<1>8. InChunk(b)
  BY <1>1, <1>2, TaskIs DEF Achieved
<1>9. /\ StoredOf(f)' = StoredOf(f) \union {b} /\ StoredOf(f) \subseteq All(f)
      /\ \A c \in StoredOf(f) : InChunk(c)
      /\ f \notin located /\ f \notin reported
  BY <1>3, <1>5, StoredIs DEF StoredOf, Context, IntegrityInv, FileInv
<1>10. FileInv(f)'
  BY <1>4, <1>7, <1>8, <1>9 DEF FileInv, Kept
<1>11. ASSUME NEW jd \in TaskId, task'[jd].pc # "none", task'[jd].block.name = f
      PROVE  Achieved(task[jd])'
  <2>1. CASE jd = id
    <3>1. task'[id].pc = "conclude" => StoredOf(f) \union {b} = All(f)
      BY <1>2, BlockMarked
    <3>2. task'[id].pc = "conclude" => Complete(f)' /\ \A c \in All(f) : InChunk(c)'
      BY <1>5, <1>7, <1>8, <1>9, <3>1 DEF Complete, StoredOf, All, BlocksOf, Block_
    <3> QED
      BY <1>3, <1>4, <1>6, <1>9, <2>1, <3>2 DEF Achieved, Concluding, All, BlocksOf, Block_
  <2>2. CASE jd # id
    <3>1. task'[jd] = task[jd] /\ task[jd].pc # "none" /\ task[jd].block.name = f
      BY <1>1, <1>11, <2>2, TasksAfter
    <3>2. task[jd].pc \notin Concluding /\ task[jd].block \in All(f) /\ Achieved(task[jd])
      BY <1>1, <3>1, NotStored, TaskIs
    <3>3. task[jd].pc = "mark" => InChunk(task[jd].block)
      BY <3>2 DEF Achieved
    <3>4. PICK c \in All(f) : c = task[jd].block
      BY <3>2
    <3>5. task[jd].pc = "mark" => InChunk(c)'
      BY <1>7, <3>3, <3>4
    <3> QED
      BY <3>1, <3>2, <3>4, <3>5 DEF Achieved, Concluding, InChunk, Path
  <2> QED
    BY <2>1, <2>2
<1>12. WriterOK(f)'
  BY <1>1, <1>4, WriterKept DEF Concluding
<1>13. \A jd \in TaskId : task[jd].pc \in Concluding => task[jd].block.name # f
  BY <1>1, NotStored
<1> QED
  BY <1>2, <1>5, <1>6, <1>10, <1>11, <1>12, <1>13 DEF OwnFile, Concluding

(* The part of a file that is copied, and one chunk more.                  *)
LEMMA PartCopied ==
    ASSUME NEW d \in Seq(Hash), NEW i \in 1 .. Len(d) + 1
    PROVE  /\ SubSeq(d, 1, i - 1) \in Seq(Hash) /\ Len(SubSeq(d, 1, i - 1)) = i - 1
           /\ \A j \in 1 .. i - 1 : SubSeq(d, 1, i - 1)[j] = d[j]
<1>1. PICK n \in 0 .. Len(d) : n = i - 1
  OBVIOUS
<1>2. \A j \in 1 .. n : d[j] \in Hash
  OBVIOUS
<1>3. /\ SubSeq(d, 1, n) \in Seq(Hash)
      /\ Len(SubSeq(d, 1, n)) = IF 1 <= n THEN n - 1 + 1 ELSE 0
      /\ \A j \in 1 .. n - 1 + 1 : SubSeq(d, 1, n)[j] = d[1 + j - 1]
  BY <1>2, SubSeqProperties
<1>4. Len(SubSeq(d, 1, n)) = n
  BY <1>3
<1>5. \A j \in 1 .. n : j \in 1 .. n - 1 + 1 /\ 1 + j - 1 = j
  OBVIOUS
<1> QED
  BY <1>1, <1>3, <1>4, <1>5

LEMMA OneChunkMore ==
    ASSUME NEW d \in Seq(Hash), NEW i \in 1 .. Len(d)
    PROVE  Append(SubSeq(d, 1, i - 1), d[i]) = SubSeq(d, 1, i)
<1>1. PICK s : s = SubSeq(d, 1, i - 1)
  OBVIOUS
<1>2. PICK t : t = SubSeq(d, 1, i)
  OBVIOUS
<1>3. i \in 1 .. Len(d) + 1 /\ i + 1 \in 1 .. Len(d) + 1 /\ i + 1 - 1 = i /\ d[i] \in Hash
  OBVIOUS
<1>4. s \in Seq(Hash) /\ Len(s) = i - 1 /\ \A j \in 1 .. i - 1 : s[j] = d[j]
  BY <1>1, <1>3, PartCopied
<1>5. t \in Seq(Hash) /\ Len(t) = i /\ \A j \in 1 .. i : t[j] = d[j]
  BY <1>2, <1>3, PartCopied
<1>6. PICK a : a = Append(s, d[i])
  OBVIOUS
<1>7. a \in Seq(Hash) /\ Len(a) = i /\ (\A j \in 1 .. i - 1 : a[j] = s[j]) /\ a[i] = d[i]
  BY <1>3, <1>4, <1>6, AppendProperties
<1>8. \A j \in 1 .. Len(a) : a[j] = t[j]
  BY <1>4, <1>5, <1>7
<1>9. a = t
  BY <1>5, <1>7, <1>8, SeqEqual
<1> QED
  BY <1>1, <1>2, <1>6, <1>9

(* A whole file holds each of its blocks that has data.                    *)
LEMMA WholeHolds ==
    ASSUME NEW f \in File
    PROVE  /\ Data(f, 1) # Missing
           /\ \A b \in All(f) : b.hash # EmptyHash => InFile(Data(f, 1), b)
<1>1. Data(f, 1) # Missing
  <2>1. Data(f, 1) \in Seq(Hash \union {Torn}) /\ Len(Data(f, 1)) \in 0 .. MaxChunks
    BY DataType
  <2> QED
    BY <2>1, NotMissing
<1>2. \A b \in All(f) : b.hash # EmptyHash => InFile(Data(f, 1), b)
  BY <1>1, BlockData, DataType DEF InFile
<1> QED
  BY <1>1, <1>2

LEMMA CompleteFile ==
    ASSUME Context, NEW f \in File, Complete(f), stored' = stored,
           \A b \in All(f) : Kept(b)' /\ (b.hash = EmptyHash => InChunk(b)'),
           f \in located' => remote'[f] = Data(f, 1),
           f \in reported' => f \in located' /\ (Strategy = "LocalRemote" => final'[f] = Data(f, 1))
    PROVE  FileInv(f)'
<1>1. StoredOf(f)' = StoredOf(f) /\ StoredOf(f) \subseteq All(f)
  BY StoredIs DEF StoredOf
<1>2. Complete(f)'
  BY <1>1, SameComplete
<1> QED
  BY <1>1, <1>2 DEF FileInv, Data

(* While a task concludes a file the others of the file are at their end.  *)
LEMMA ConcludeOwn ==
    ASSUME Context, NEW id \in TaskId, TaskStep(id), ~RemoveRequest(id),
           task[id].pc \in Concluding, NEW f \in File, f = task[id].block.name,
           stored' = stored, FileInv(f)', WriterOK(f)', Achieved(task[id])',
           task'[id].pc \in Concluding \union {"remove"}
    PROVE  OwnFile(id, f)
<1>1. ASSUME NEW jd \in TaskId, jd # id, task[jd].pc # "none", task[jd].block.name = f
      PROVE  task[jd].pc = "remove"
  BY <1>1, OthersEnd
<1>2. \A jd \in TaskId \ {id} : task'[jd] = task[jd]
  BY TasksAfter
<1>3. ASSUME NEW jd \in TaskId, task'[jd].pc # "none", task'[jd].block.name = f
      PROVE  Achieved(task[jd])'
  <2>1. CASE jd = id
    BY <2>1
  <2>2. CASE jd # id
    <3>1. task'[jd].pc = "remove"
      BY <1>1, <1>2, <1>3, <2>2
    <3> QED
      BY <3>1 DEF Achieved, Concluding
  <2> QED
    BY <2>1, <2>2
<1>4. \A jd \in TaskId \ {id} : task[jd].pc \in Concluding => task[jd].block.name # f
  BY <1>1 DEF Concluding
<1> QED
  BY <1>3, <1>4 DEF OwnFile, Concluding

(* A task that gives up concluding leaves none that concludes the file.    *)
LEMMA GoneFrom ==
    ASSUME Context, NEW id \in TaskId, TaskStep(id), ~RemoveRequest(id),
           task[id].pc \in Concluding, task'[id].pc = "remove",
           NEW f \in File, f = task[id].block.name
    PROVE  ~Concluded(f)'
<1>1. ASSUME NEW jd \in TaskId, task'[jd].pc \in Concluding, task'[jd].block.name = f
      PROVE  FALSE
  <2>1. jd # id
    BY <1>1 DEF Concluding
  <2>2. task'[jd] = task[jd] /\ task[jd].pc # "none"
    BY <1>1, <2>1, TasksAfter DEF Concluding
  <2>3. task[jd].pc = "remove"
    BY <1>1, <2>1, <2>2, OthersEnd
  <2> QED
    BY <1>1, <2>2, <2>3 DEF Concluding
<1> QED
  BY <1>1 DEF Concluded

(* A consolidation that fails leaves every block in its chunk or the file. *)
LEMMA FailedOwn ==
    ASSUME Context, NEW id \in TaskId, TaskStep(id), ~RemoveRequest(id),
           task[id].pc \in {"conclude", "copy"}, task'[id].pc = "remove",
           NEW f \in File, f = task[id].block.name,
           UNCHANGED <<stored, located, reported>>,
           file_writers'[f] # Missing => file_writers'[f].chunks = Chunks(f, 1),
           \A b \in All(f) : InChunk(b)' \/ InFile(final'[f], b),
           \A b \in All(f) : b.hash = EmptyHash => InChunk(b)'
    PROVE  OwnFile(id, f)
<1>1. /\ Complete(f) /\ f \notin reported /\ f \notin located
  BY TaskIs DEF Achieved, Concluding
<1>2. \A b \in All(f) : Kept(b)'
  <2>1. \A b \in All(f) : b.name = f
    BY AllMember
  <2> QED
    BY <2>1 DEF Kept, InFile
<1>3. FileInv(f)'
  BY <1>1, <1>2, CompleteFile
<1>4. ~Concluded(f)'
  BY GoneFrom DEF Concluding
<1>5. Complete(f)'
  BY <1>1 DEF Complete, All, BlocksOf, Block_
<1>6. Failed(f)'
  BY <1>1, <1>4, <1>5 DEF Failed, InFile, All, BlocksOf, Block_
<1>7. WriterOK(f)'
  BY <1>6 DEF WriterOK, Chunks, Data
<1>8. Achieved(task[id])'
  BY DEF Achieved, Concluding
<1> QED
  BY <1>1, <1>3, <1>7, <1>8, ConcludeOwn DEF Concluding

(* A task that gives up changes nothing.                                   *)
LEMMA GiveUpOwn ==
    ASSUME Context, NEW id \in TaskId, TaskStep(id), ~RemoveRequest(id),
           task[id].pc \in Concluding \ {"copy"}, NEW f \in File, f = task[id].block.name,
           stored' = stored, SameFile(f), task'[id].pc = "remove", file_writers' = file_writers
    PROVE  OwnFile(id, f)
<1>1. FileInv(f)'
  BY FileFrame
<1>2. WriterOK(f)'
  BY WriterKept
<1>3. Achieved(task[id])'
  BY DEF Achieved, Concluding
<1> QED
  BY <1>1, <1>2, <1>3, ConcludeOwn

LEMMA BeginOwn ==
    ASSUME Context, NEW id \in TaskId, BeginConsolidate(id), NEW f \in File, f = task[id].block.name
    PROVE  OwnFile(id, f)
<1>1. /\ TaskStep(id) /\ ~RemoveRequest(id) /\ task[id].pc = "conclude" /\ ~Locked(f)
      /\ task \in [TaskId -> TaskRecord]
  BY TasksAfter DEF TaskStep, BeginConsolidate, RemoveRequest
<1>2. UNCHANGED <<stored, located, reported, remote, chunk>>
  BY DEF BeginConsolidate, database
<1>3. /\ Complete(f) /\ f \notin reported /\ f \notin located
      /\ \A b \in All(f) : InChunk(b)
  BY <1>1, TaskIs DEF Achieved, Concluding
<1>4. \A b \in All(f) : InChunk(b)'
  BY <1>2, <1>3 DEF InChunk, Path, Chunks, Data
<1>5. PICK w \in WriterRecord : w = Writer(id) /\ w.chunks = Chunks(f, 1)
  BY <1>1, WriterIs
<1>6. CASE /\ file_writers' = [file_writers EXCEPT ![f] = [w EXCEPT !.state = "consolidating"]]
           /\ final' = [final EXCEPT ![f] = <<>>]
           /\ task' = [task EXCEPT ![id].pc = "copy", ![id].i = 1]
  <2>1. /\ file_writers' = [file_writers EXCEPT ![f] = [w EXCEPT !.state = "consolidating"]]
        /\ final' = [final EXCEPT ![f] = <<>>]
        /\ task' = [task EXCEPT ![id].pc = "copy", ![id].i = 1]
    BY <1>6
  <2>2. task'[id].pc = "copy" /\ task'[id].i = 1 /\ task'[id].block = task[id].block
    BY <1>1, <2>1 DEF TaskRecord
  <2>3. final'[f] = <<>>
    BY <2>1 DEF Context, IntegrityInv, DiskForm
  <2>4. FileInv(f)'
    BY <1>2, <1>3, <1>4, CompleteFile DEF Kept
  <2>5. Locked(f)'
    BY <2>2 DEF Locked
  <2>6. file_writers'[f].chunks = Chunks(f, 1)
    BY <1>5, <2>1 DEF WriterRecord, Context, FormInv
  <2>7. WriterOK(f)'
    BY <2>5, <2>6 DEF WriterOK, Chunks, Data
  <2>8. Complete(f)'
    BY <1>2, <1>3 DEF Complete, All, BlocksOf, Block_
  <2>9. 1 \in 1 .. Chunks(f, 1) + 1 /\ SubSeq(Data(f, 1), 1, 0) = <<>> /\ 1 - 1 = 0
    BY DataType, SubSeqEmpty, Bounds
  <2>10. Achieved(task[id])'
    <3>1. /\ task'[id].i \in 1 .. Chunks(f, 1) + 1
          /\ final'[f] = SubSeq(Data(f, 1), 1, task'[id].i - 1)
      BY <2>2, <2>3, <2>9
    <3> QED
      BY <1>2, <1>3, <1>4, <2>2, <2>8, <3>1
      DEF Achieved, Concluding, Chunks, Data, All, BlocksOf, Block_
  <2> QED
    BY <1>1, <1>2, <2>2, <2>4, <2>7, <2>10, ConcludeOwn DEF Concluding
<1>7. CASE Turned(id, "remove") /\ UNCHANGED <<file_writers, final>>
  <2>1. /\ \E ok \in BOOLEAN : task' = [task EXCEPT ![id].pc = "remove", ![id].ok = ok]
        /\ UNCHANGED <<file_writers, final>>
    BY <1>7 DEF Turned
  <2>2. task'[id].pc = "remove"
    BY <1>1, <2>1 DEF TaskRecord
  <2>3. SameFile(f)
    BY <1>2, <2>1 DEF SameFile, StoredOf
  <2> QED
    BY <1>1, <1>2, <2>1, <2>2, <2>3, GiveUpOwn DEF Concluding
<1>8. CASE /\ file_writers' = [file_writers EXCEPT ![f] = [w EXCEPT !.state = "consolidating"]]
           /\ Turned(id, "remove") /\ final' = final
  <2>1. task'[id].pc = "remove"
    BY <1>1, <1>8 DEF Turned, TaskRecord
  <2>2. file_writers'[f].chunks = Chunks(f, 1)
    BY <1>5, <1>8 DEF WriterRecord, Context, FormInv
  <2> QED
    BY <1>1, <1>2, <1>4, <2>1, <2>2, FailedOwn
<1>9. \/ /\ file_writers' = [file_writers EXCEPT ![f] = [w EXCEPT !.state = "consolidating"]]
         /\ final' = [final EXCEPT ![f] = <<>>]
         /\ task' = [task EXCEPT ![id].pc = "copy", ![id].i = 1]
      \/ Turned(id, "remove") /\ UNCHANGED <<file_writers, final>>
      \/ /\ file_writers' = [file_writers EXCEPT ![f] = [w EXCEPT !.state = "consolidating"]]
         /\ Turned(id, "remove") /\ final' = final
  BY <1>5 DEF BeginConsolidate, Continue, Turned
<1> QED
  BY <1>6, <1>7, <1>8, <1>9

LEMMA CopyOwn ==
    ASSUME Context, NEW id \in TaskId, CopyChunk(id), NEW f \in File, f = task[id].block.name
    PROVE  OwnFile(id, f)
<1>1. /\ TaskStep(id) /\ ~RemoveRequest(id) /\ task[id].pc = "copy"
      /\ task \in [TaskId -> TaskRecord]
  BY TasksAfter DEF TaskStep, CopyChunk, RemoveRequest
<1>2. UNCHANGED <<stored, located, reported, remote, file_writers>>
  BY DEF CopyChunk, database
<1>3. PICK i : i = task[id].i
  OBVIOUS
<1>4. PICK d \in Seq(Hash) : d = Data(f, 1) /\ Len(d) = Chunks(f, 1) /\ Len(d) \in 0 .. MaxChunks
  BY DataType
<1>5. /\ Complete(f) /\ f \notin reported /\ f \notin located
      /\ i \in 1 .. Len(d) + 1 /\ (\A b \in All(f) : b.pos >= i => InChunk(b))
      /\ final[f] = SubSeq(d, 1, i - 1)
  BY <1>1, <1>3, <1>4, TaskIs DEF Achieved, Concluding
<1>6. Writer(id).chunks = Len(d)
  BY <1>1, <1>4, WriterIs
<1>7. i <= Len(d) /\ ChunkFile(id, i) = <<f, Len(d), i>>
  BY <1>3, <1>6 DEF CopyChunk, ChunkFile
<1>8. i \in 1 .. Len(d) /\ Len(d) \in Nat \ {0}
  BY <1>4, <1>5, <1>7, Bounds
<1>9. PICK c \in All(f) : c.pos = i /\ c.hash = d[i]
  <2>1. \E b : b \in All(f)
    BY FileContent DEF All, BlocksOf
  <2>2. Content[f][1] = d /\ Chunks(f, 1) = Len(Content[f][1])
    BY <1>4, <1>8, <2>1, BlockData
  <2>3. PICK c : c = Block_(f, 1, i)
    OBVIOUS
  <2>4. c \in All(f)
    BY <1>8, <2>2, <2>3 DEF All, BlocksOf
  <2>5. c.pos = i /\ c.hash = d[i]
    BY <2>2, <2>3 DEF Block_
  <2> QED
    BY <2>4, <2>5
<1>10. Path(c) = ChunkFile(id, i) /\ Path(c) \in ChunkPath
  BY <1>4, <1>7, <1>9, PathType
<1>11. chunk[Path(c)] = d[i] /\ d[i] # Missing /\ d[i] \in Hash
  <2>1. InChunk(c)
    BY <1>5, <1>8, <1>9
  <2> QED
    BY <1>8, <1>9, <2>1, BoundAssumption DEF InChunk
<1>12. PICK s : s = SubSeq(d, 1, i - 1)
  OBVIOUS
<1>13. s # Missing /\ s \in Seq(Hash) /\ Len(s) = i - 1 /\ \A j \in 1 .. i - 1 : s[j] = d[j]
  <2>1. s \in Seq(Hash) /\ Len(s) = i - 1 /\ \A j \in 1 .. i - 1 : s[j] = d[j]
    BY <1>5, <1>12, PartCopied
  <2>2. Len(s) \in 0 .. MaxChunks /\ s \in Seq(Hash \union {Torn})
    BY <1>4, <1>8, <2>1, Bounds
  <2> QED
    BY <2>1, <2>2, NotMissing
<1>14. CASE /\ final' = [final EXCEPT ![f] = Append(s, d[i])]
            /\ chunk' = [chunk EXCEPT ![Path(c)] = Missing]
            /\ task' = [task EXCEPT ![id].i = @ + 1]
  <2>15. final'[f] = SubSeq(d, 1, i)
    BY <1>8, <1>12, <1>14, OneChunkMore DEF Context, IntegrityInv, DiskForm
  <2>16. task'[id].pc = "copy" /\ task'[id].i = i + 1 /\ task'[id].block = task[id].block
    BY <1>1, <1>3, <1>14 DEF TaskRecord
  <2>17. ASSUME NEW b \in All(f), b # c PROVE InChunk(b)' <=> InChunk(b)
    <3>1. Path(b) # Path(c) /\ Path(b) \in DOMAIN chunk
      BY <1>9, <2>17, PathType DEF Context, IntegrityInv, DiskForm
    <3>2. chunk'[Path(b)] = chunk[Path(b)]
      BY <1>14, <3>1
    <3> QED
      BY <3>2 DEF InChunk, Path, Chunks, Data
  <2>18. ASSUME NEW b \in All(f), b.pos >= i + 1 PROVE InChunk(b)'
    <3>1. b # c /\ b.pos >= i
      BY <1>8, <1>9, <2>18, AllMember
    <3> QED
      BY <1>5, <2>17, <3>1
  <2>19. ASSUME NEW b \in All(f) PROVE Kept(b)' /\ b.hash # EmptyHash
    <3>1. b.hash # EmptyHash /\ b.pos \in 1 .. Len(d) /\ d[b.pos] = b.hash /\ b.name = f
      BY <1>4, <1>8, BlockData, AllMember
    <3>2. CASE b.pos <= i
      <4>1. PICK t : t = SubSeq(d, 1, i)
        OBVIOUS
      <4>2. PICK k \in 1 .. Len(d) + 1 : k - 1 = i
        BY <1>8
      <4>3. t \in Seq(Hash) /\ Len(t) = i /\ \A j \in 1 .. i : t[j] = d[j]
        BY <4>1, <4>2, PartCopied
      <4>4. t # Missing
        <5>1. Len(t) \in 0 .. MaxChunks
          BY <1>4, <1>8, <4>3, Bounds
        <5> QED
          BY <4>3, <5>1, NotMissing
      <4>5. InFile(t, b)
        BY <1>8, <3>1, <3>2, <4>3, <4>4 DEF InFile
      <4>6. final'[b.name] = t
        BY <2>15, <3>1, <4>1
      <4> QED
        BY <3>1, <4>5, <4>6 DEF Kept, InFile
    <3>3. CASE b.pos > i
      <4>1. InChunk(b)'
        BY <1>8, <2>18, <3>1, <3>3
      <4> QED
        BY <3>1, <4>1 DEF Kept
    <3> QED
      BY <1>8, <3>1, <3>2, <3>3
  <2>20. FileInv(f)'
    BY <1>2, <1>5, <2>19, CompleteFile
  <2>21. WriterOK(f)'
    <3>1. WriterOK(f)
      BY DEF Context, IntegrityInv
    <3>2. Locked(f)'
      BY <2>16 DEF Locked
    <3> QED
      BY <1>2, <3>1, <3>2 DEF WriterOK, Chunks, Data
  <2>22. Achieved(task[id])'
    <3>1. Complete(f)'
      BY <1>2, <1>5 DEF Complete, All, BlocksOf, Block_
    <3>2. PICK k \in 1 .. Len(d) + 1 : k = i + 1 /\ k - 1 = i
      BY <1>8
    <3>3. task'[id].i \in 1 .. Chunks(f, 1) + 1 /\ final'[f] = SubSeq(Data(f, 1), 1, task'[id].i - 1)
      <4>1. task'[id].i = k
        BY <2>16, <3>2
      <4> QED
        BY <1>4, <2>15, <3>2, <4>1
    <3>4. \A b \in All(f) : b.pos >= task'[id].i => InChunk(b)'
      BY <2>16, <2>18
    <3> QED
      BY <1>2, <1>5, <2>16, <3>1, <3>3, <3>4
      DEF Achieved, Concluding, Chunks, Data, All, BlocksOf, Block_
  <2> QED
    BY <1>1, <1>2, <2>16, <2>20, <2>21, <2>22, ConcludeOwn DEF Concluding
<1>15. CASE /\ \E file \in {s, Append(s, Torn), Append(s, d[i])} : final' = [final EXCEPT ![f] = file]
            /\ Turned(id, "remove") /\ chunk' = chunk
  <2>1. task'[id].pc = "remove"
    BY <1>1, <1>15 DEF Turned, TaskRecord
  <2>2. file_writers'[f] # Missing => file_writers'[f].chunks = Chunks(f, 1)
    BY <1>2 DEF Context, IntegrityInv, WriterOK
  <2>3. PICK file \in {s, Append(s, Torn), Append(s, d[i])} : final'[f] = file
    BY <1>15 DEF Context, IntegrityInv, DiskForm
  <2>4. /\ file \in Seq(Hash \union {Torn}) /\ Len(file) \in {i - 1, i}
        /\ \A j \in 1 .. i - 1 : file[j] = s[j]
    <3>1. s \in Seq(Hash \union {Torn}) /\ Len(s) = i - 1
      BY <1>13
    <3>2. \A e \in Hash \union {Torn} : /\ Append(s, e) \in Seq(Hash \union {Torn})
                                        /\ Len(Append(s, e)) = i - 1 + 1
                                        /\ \A j \in 1 .. i - 1 : Append(s, e)[j] = s[j]
      BY <3>1, AppendProperties
    <3>3. i - 1 + 1 = i
      BY <1>8
    <3>4. CASE file = s
      BY <3>1, <3>4
    <3>5. CASE file # s
      <4>1. PICK e \in Hash \union {Torn} : file = Append(s, e)
        BY <1>11, <3>5
      <4> QED
        BY <3>2, <3>3, <4>1
    <3> QED
      BY <3>4, <3>5
  <2>5. file # Missing
    <3>1. Len(file) \in 0 .. MaxChunks
      BY <1>4, <1>8, <2>4, Bounds
    <3> QED
      BY <2>4, <3>1, NotMissing
  <2>6. ASSUME NEW b \in All(f) PROVE b.hash # EmptyHash /\ (InChunk(b)' \/ InFile(final'[f], b))
    <3>1. b.hash # EmptyHash /\ b.pos \in 1 .. Len(d) /\ d[b.pos] = b.hash
      BY <1>4, <1>8, BlockData
    <3>2. CASE b.pos >= i
      <4>1. InChunk(b)
        BY <1>5, <3>2
      <4> QED
        BY <1>15, <3>1, <4>1 DEF InChunk, Path, Chunks, Data
    <3>3. CASE b.pos < i
      <4>1. b.pos \in 1 .. i - 1 /\ b.pos \in 1 .. Len(file)
        BY <1>8, <2>4, <3>1, <3>3
      <4>2. file[b.pos] = b.hash
        BY <1>13, <2>4, <3>1, <4>1
      <4> QED
        BY <2>3, <2>5, <3>1, <4>1, <4>2 DEF InFile
    <3> QED
      BY <1>8, <3>1, <3>2, <3>3
  <2> QED
    BY <1>1, <1>2, <2>1, <2>2, <2>6, FailedOwn
<1>16. \/ /\ final' = [final EXCEPT ![f] = Append(s, d[i])]
          /\ chunk' = [chunk EXCEPT ![Path(c)] = Missing]
          /\ task' = [task EXCEPT ![id].i = @ + 1]
       \/ /\ \E file \in {s, Append(s, Torn), Append(s, d[i])} : final' = [final EXCEPT ![f] = file]
          /\ Turned(id, "remove") /\ chunk' = chunk
  <2>1. final[f] = s /\ chunk[ChunkFile(id, i)] = d[i]
    BY <1>5, <1>10, <1>11, <1>12
  <2>2. Extended(s, Torn) = Append(s, Torn) /\ Extended(s, d[i]) = Append(s, d[i])
    BY <1>13 DEF Extended
  <2>3. \/ /\ final' = [final EXCEPT ![f] = Extended(s, d[i])]
           /\ chunk' = [chunk EXCEPT ![ChunkFile(id, i)] = Missing]
           /\ task' = [task EXCEPT ![id].i = @ + 1]
        \/ /\ \E file \in {s, Extended(s, Torn), Extended(s, d[i])} : final' = [final EXCEPT ![f] = file]
           /\ Turned(id, "remove") /\ chunk' = chunk
    BY <1>3, <1>11, <2>1 DEF CopyChunk, Continue, Turned, Context, IntegrityInv, DiskForm
  <2> QED
    BY <1>10, <2>2, <2>3
<1> QED
  BY <1>14, <1>15, <1>16

LEMMA EndOwn ==
    ASSUME Context, NEW id \in TaskId, EndConsolidate(id), NEW f \in File, f = task[id].block.name
    PROVE  OwnFile(id, f)
<1>1. /\ TaskStep(id) /\ ~RemoveRequest(id) /\ task[id].pc = "copy"
      /\ task \in [TaskId -> TaskRecord]
  BY TasksAfter DEF TaskStep, EndConsolidate, RemoveRequest
<1>2. UNCHANGED <<stored, located, reported, remote, chunk, final>>
  BY DEF EndConsolidate, database, disk
<1>3. PICK i : i = task[id].i
  OBVIOUS
<1>4. PICK d \in Seq(Hash) : d = Data(f, 1) /\ Len(d) = Chunks(f, 1) /\ Len(d) \in Nat
  BY DataType, Bounds
<1>5. /\ Complete(f) /\ f \notin reported /\ f \notin located
      /\ i \in 1 .. Len(d) + 1 /\ final[f] = SubSeq(d, 1, i - 1)
  BY <1>1, <1>3, <1>4, TaskIs DEF Achieved, Concluding
<1>6. Writer(id).chunks = Len(d) /\ i > Writer(id).chunks
  BY <1>1, <1>3, <1>4, WriterIs DEF EndConsolidate
<1>7. i - 1 = Len(d)
  BY <1>4, <1>5, <1>6
<1>8. final[f] = d
  BY <1>5, <1>7, SubSeqFull
<1>9. task'[id].pc = "upload" /\ task'[id].block = task[id].block
  BY <1>1 DEF EndConsolidate, Continue, TaskRecord
<1>10. SameFile(f)
  BY <1>2 DEF SameFile, StoredOf
<1>11. FileInv(f)'
  BY <1>10, FileFrame
<1>12. WriterOK(f)'
  <2>1. PICK w \in WriterRecord : w = file_writers[f] /\ w.chunks = Chunks(f, 1)
    <3>1. file_writers[f] # Missing
      BY <1>1 DEF Context, FormInv
    <3> QED
      BY <3>1 DEF Context, FormInv, IntegrityInv, WriterOK
  <2>2. file_writers' = [file_writers EXCEPT ![f].state = "writing"]
    BY DEF EndConsolidate
  <2>3. file_writers'[f] = [w EXCEPT !.state = "writing"]
    BY <2>1, <2>2 DEF Context, FormInv
  <2>4. file_writers'[f].chunks = Chunks(f, 1) /\ file_writers'[f].state = "writing"
    BY <2>1, <2>3 DEF WriterRecord
  <2> QED
    BY <2>4 DEF WriterOK, Chunks, Data
<1>13. Achieved(task[id])'
  <2>1. Complete(f)'
    BY <1>2, <1>5 DEF Complete, All, BlocksOf, Block_
  <2>2. final'[f] = Data(f, 1)
    BY <1>2, <1>4, <1>8
  <2> QED
    BY <1>2, <1>5, <1>9, <2>1, <2>2 DEF Achieved, Concluding, Data
<1> QED
  BY <1>1, <1>2, <1>9, <1>11, <1>12, <1>13, ConcludeOwn DEF Concluding

LEMMA UploadOwn ==
    ASSUME Undisturbed, Context, NEW id \in TaskId, Upload(id), NEW f \in File,
           f = task[id].block.name
    PROVE  OwnFile(id, f)
<1>1. /\ TaskStep(id) /\ ~RemoveRequest(id) /\ task[id].pc = "upload"
      /\ task \in [TaskId -> TaskRecord]
  BY TasksAfter DEF TaskStep, Upload, RemoveRequest
<1>2. UNCHANGED <<stored, located, reported, chunk, final, file_writers>>
  BY DEF Upload, database, disk
<1>3. Complete(f) /\ f \notin reported /\ f \notin located /\ final[f] = Data(f, 1)
  BY <1>1, TaskIs DEF Achieved, Concluding
<1>4. remote'[f] = Data(f, 1)
  <2>1. remote' = [remote EXCEPT ![f] = IF final[f] = Missing THEN @ ELSE final[f]]
    BY DEF Upload, Undisturbed
  <2>2. final[f] # Missing
    BY <1>3, WholeHolds
  <2> QED
    BY <1>3, <2>1, <2>2 DEF Context, IntegrityInv, DiskForm
<1>5. task'[id].pc = "locate" /\ task'[id].block = task[id].block
  <2>1. Turned(id, "locate")
    BY DEF Upload, Undisturbed, Continue, Turned
  <2> QED
    BY <1>1, <2>1 DEF Turned, TaskRecord
<1>6. ASSUME NEW b \in All(f) PROVE Kept(b)' /\ (b.hash = EmptyHash => InChunk(b)')
  <2>1. b \in StoredOf(f) /\ b.name = f
    BY <1>3, <1>6, AllMember DEF Complete, StoredOf
  <2>2. InChunk(b)' <=> InChunk(b)
    BY <1>2 DEF InChunk, Path, Chunks, Data
  <2>3. b.hash = EmptyHash => InChunk(b)
    BY <2>1 DEF Context, IntegrityInv, FileInv
  <2>4. b.hash # EmptyHash => InFile(final'[f], b)
    BY <1>2, <1>3, WholeHolds
  <2> QED
    BY <2>1, <2>2, <2>3, <2>4 DEF Kept, InFile
<1>7. FileInv(f)'
  BY <1>2, <1>3, <1>6, CompleteFile
<1>8. WriterOK(f)'
  BY <1>1, <1>2, WriterKept DEF Concluding
<1>9. Achieved(task[id])'
  <2>1. Complete(f)'
    BY <1>2, <1>3 DEF Complete, All, BlocksOf, Block_
  <2> QED
    BY <1>2, <1>3, <1>4, <1>5, <2>1 DEF Achieved, Concluding, Data
<1> QED
  BY <1>1, <1>2, <1>5, <1>7, <1>8, <1>9, ConcludeOwn DEF Concluding

LEMMA LocateOwn ==
    ASSUME Context, NEW id \in TaskId, update_file_locations(id), NEW f \in File,
           f = task[id].block.name
    PROVE  OwnFile(id, f)
<1>1. /\ TaskStep(id) /\ ~RemoveRequest(id) /\ task[id].pc = "locate"
      /\ task \in [TaskId -> TaskRecord]
  BY TasksAfter DEF TaskStep, update_file_locations, RemoveRequest
<1>2. UNCHANGED <<stored, remote, chunk, final, file_writers>> /\ f \in located'
  BY DEF update_file_locations, disk
<1>3. /\ Complete(f) /\ f \notin reported
      /\ final[f] = Data(f, 1) /\ remote[f] = Data(f, 1)
  BY <1>1, TaskIs DEF Achieved, Concluding
<1>4. \/ Strategy = "Remote" /\ task'[id].pc = "clean" /\ reported' = reported
      \/ Strategy # "Remote" /\ task'[id].pc = "remove"
  BY <1>1 DEF update_file_locations, Continue, TaskRecord
<1>5. task'[id].block = task[id].block
  BY <1>1, TasksAfter
<1>6. ASSUME NEW b \in All(f) PROVE Kept(b)' /\ (b.hash = EmptyHash => InChunk(b)')
  <2>1. b \in StoredOf(f)
    BY <1>3, <1>6, AllMember DEF Complete, StoredOf
  <2>2. InChunk(b)' <=> InChunk(b)
    BY <1>2 DEF InChunk, Path, Chunks, Data
  <2>3. Kept(b) /\ (b.hash = EmptyHash => InChunk(b))
    BY <2>1 DEF Context, IntegrityInv, FileInv
  <2> QED
    BY <1>2, <2>2, <2>3 DEF Kept, InFile
<1>7. FileInv(f)'
  BY <1>2, <1>3, <1>6, CompleteFile
<1>8. WriterOK(f)'
  BY <1>1, <1>2, WriterKept DEF Concluding
<1>9. Achieved(task[id])'
  <2>1. Complete(f)'
    BY <1>2, <1>3 DEF Complete, All, BlocksOf, Block_
  <2> QED
    BY <1>2, <1>3, <1>4, <1>5, <2>1 DEF Achieved, Concluding, Data
<1> QED
  BY <1>1, <1>2, <1>4, <1>7, <1>8, <1>9, ConcludeOwn DEF Concluding

LEMMA CleanOwn ==
    ASSUME Context, NEW id \in TaskId, rm_local_file(id), NEW f \in File,
           f = task[id].block.name
    PROVE  OwnFile(id, f)
<1>1. /\ TaskStep(id) /\ ~RemoveRequest(id) /\ task[id].pc = "clean"
      /\ task \in [TaskId -> TaskRecord]
  BY TasksAfter DEF TaskStep, rm_local_file, RemoveRequest
<1>2. UNCHANGED <<stored, located, remote, chunk, file_writers>>
  BY DEF rm_local_file, database
<1>3. Complete(f) /\ f \in located /\ remote[f] = Data(f, 1) /\ Strategy = "Remote"
  BY <1>1, TaskIs DEF Achieved, Concluding
<1>4. task'[id].pc = "remove"
  BY <1>1 DEF rm_local_file, Continue, TaskRecord
<1>5. ASSUME NEW b \in All(f) PROVE Kept(b)' /\ (b.hash = EmptyHash => InChunk(b)')
  <2>1. b \in StoredOf(f) /\ b.name = f
    BY <1>3, <1>5, AllMember DEF Complete, StoredOf
  <2>2. InChunk(b)' <=> InChunk(b)
    BY <1>2 DEF InChunk, Path, Chunks, Data
  <2>3. b.hash = EmptyHash => InChunk(b)
    BY <2>1 DEF Context, IntegrityInv, FileInv
  <2>4. b.hash # EmptyHash => InFile(remote'[f], b)
    BY <1>2, <1>3, WholeHolds
  <2> QED
    BY <2>1, <2>2, <2>3, <2>4 DEF Kept, InFile
<1>6. FileInv(f)'
  BY <1>2, <1>3, <1>5, CompleteFile
<1>7. WriterOK(f)'
  BY <1>1, <1>2, WriterKept DEF Concluding
<1>8. Achieved(task[id])'
  BY <1>4 DEF Achieved, Concluding
<1> QED
  BY <1>1, <1>2, <1>4, <1>6, <1>7, <1>8, ConcludeOwn DEF Concluding

(* Every step of a task but the last.                                      *)
LEMMA TaskStepOwn ==
    ASSUME Undisturbed, Context, NEW id \in TaskId, TaskStep(id), ~RemoveRequest(id)
    PROVE  /\ TasksInv' /\ RequestsInv'
           /\ \A g \in File : FileInv(g)' /\ WriterOK(g)'
<1>1. PICK f \in File : f = task[id].block.name
  BY TasksAfter
<1>2. OwnFile(id, f)
  BY <1>1, StoreBlockOwn, MarkOwn, BeginOwn, CopyOwn, EndOwn, UploadOwn, LocateOwn, CleanOwn
  DEF TaskStep
<1> QED
  BY <1>1, <1>2, StepPreserves

-----------------------------------------------------------------------------
(* The other steps leave chunks, files and marks alone.                    *)
LEMMA TasksFrame ==
    ASSUME Context, \A f \in File : SameFile(f),
           \A jd \in TaskId : task'[jd] = task[jd] \/ task'[jd].pc \in {"none", "write", "remove"}
    PROVE  TasksInv' /\ \A f \in File : FileInv(f)'
<1>1. \A f \in File : FileInv(f)'
  BY FileFrame
<1>2. ASSUME NEW jd \in TaskId, task'[jd].pc # "none" PROVE Achieved(task[jd])'
  <2>1. CASE task'[jd].pc \in {"none", "write", "remove"}
    BY <2>1 DEF Achieved, Concluding
  <2>2. CASE task'[jd] = task[jd]
    <3>1. PICK t : t = task[jd]
      OBVIOUS
    <3>2. Achieved(t) /\ t.block.name \in File /\ t.block \in All(t.block.name)
      BY <1>2, <2>2, <3>1, TaskIs
    <3>3. Achieved(t)'
      BY <3>2, AchievedFrame
    <3> QED
      BY <2>2, <3>1, <3>3 DEF Achieved
  <2> QED
    BY <2>1, <2>2
<1>3. \A i, j \in TaskId :
         /\ task'[i].pc \in Concluding /\ task'[j].pc \in Concluding
         /\ task'[i].block.name = task'[j].block.name
         => i = j
  BY DEF Context, IntegrityInv, TasksInv, Concluding
<1> QED
  BY <1>1, <1>2, <1>3 DEF TasksInv

LEMMA WritersFrame ==
    ASSUME Context, \A f \in File : SameFile(f),
           \A jd \in TaskId : task'[jd] = task[jd] \/ task'[jd].pc \in {"none", "write", "remove"},
           \/ /\ file_writers' = file_writers
              /\ \A jd \in TaskId : task[jd].pc = "copy" => task'[jd] = task[jd]
           \/ \A f \in File : file_writers'[f] = Missing
    PROVE  \A f \in File : WriterOK(f)'
<1> SUFFICES ASSUME NEW f \in File PROVE WriterOK(f)'
  OBVIOUS
<1>1. WriterOK(f)
  BY DEF Context, IntegrityInv
<1>2. CASE file_writers'[f] = Missing
  BY <1>2 DEF WriterOK
<1>3. CASE file_writers' = file_writers /\ \A jd \in TaskId : task[jd].pc = "copy" => task'[jd] = task[jd]
  <2>1. Locked(f) => Locked(f)'
    BY <1>3 DEF Locked
  <2>2. Concluded(f)' => Concluded(f)
    BY DEF Concluded, Concluding
  <2>3. Failed(f) => ~Concluded(f)
    BY DEF Failed
  <2>4. Failed(f) => Failed(f)'
    BY <2>2, <2>3, FailedFrame
  <2> QED
    BY <1>1, <1>3, <2>1, <2>4 DEF WriterOK, Chunks, Data
<1> QED
  BY <1>2, <1>3

(* The requests of the session.                                            *)
LEMMA RemoveRest ==
    ASSUME Context, NEW id \in TaskId, RemoveRequest(id)
    PROVE  RequestsInv'
<1>1. /\ task' = [task EXCEPT ![id] = NoTask] /\ remove(id) /\ UNCHANGED <<stored, inflight>>
      /\ task[id].pc = "remove"
  BY DEF RemoveRequest, database, network
<1>2. RequestsInv /\ task \in [TaskId -> TaskRecord]
  BY DEF Context, IntegrityInv, FormInv
<1>3. Asked(id, task[id].block)
  BY <1>1, TaskIs
<1>4. requests_by_id' = [i \in DOMAIN requests_by_id \ {id} |-> requests_by_id[i]]
  BY <1>1, <1>3 DEF remove, Asked
<1>5. task'[id].pc = "none" /\ \A jd \in TaskId \ {id} : task'[jd] = task[jd]
  BY <1>1, <1>2, NoTaskOK
<1>6. \A r \in inflight : r[1] # id
  BY <1>1 DEF Context, ProcessorInv, IdsInv
<1>7. \A r \in inflight' : Asked(r[1], r[2])'
  BY <1>1, <1>2, <1>4, <1>6 DEF RequestsInv, Asked
<1>8. \A jd \in TaskId : task'[jd].pc # "none" =>
         /\ task'[jd].pc # "panicked" /\ Asked(jd, task[jd].block)'
         /\ task'[jd].chunks = Chunks(task'[jd].block.name, 1)
  BY <1>2, <1>4, <1>5 DEF RequestsInv, Asked
<1>9. ASSUME NEW jd \in DOMAIN requests_by_id', requests_by_id'[jd] \in stored'
      PROVE  task'[jd].pc \in Concluding \union {"remove"}
  <2>1. jd \in DOMAIN requests_by_id /\ jd # id /\ requests_by_id'[jd] = requests_by_id[jd]
    BY <1>4
  <2>2. jd \in TaskId
    BY <2>1, LimitAssumption DEF Context, ProcessorInv, QueueInv, QueueTypeOK, TaskId
  <2> QED
    BY <1>1, <1>2, <1>5, <1>9, <2>1, <2>2 DEF RequestsInv
<1> QED
  BY <1>7, <1>8, <1>9 DEF RequestsInv, Chunks, Data

LEMMA AnswerRest ==
    ASSUME Context, NEW r \in inflight, Answer(r[1], r[2])
    PROVE  /\ RequestsInv'
           /\ \A jd \in TaskId : task'[jd] = task[jd] \/ task'[jd].pc \in {"write", "remove"}
           /\ \A jd \in TaskId : task[jd].pc # "none" => task'[jd] = task[jd]
<1>1. RequestsInv /\ task \in [TaskId -> TaskRecord]
  BY DEF Context, IntegrityInv, FormInv
<1>2. UNCHANGED <<requests_by_id, stored>>
  BY DEF Answer, queue, database
<1>3. r[1] \in TaskId /\ r[2] \in Block /\ inflight' = inflight \ {r}
  BY AnswerEffect DEF Context
<1>4. task[r[1]].pc = "none" /\ r[2] \in rows /\ Asked(r[1], r[2])
  BY <1>1 DEF Context, ProcessorInv, IdsInv, FixedInv, RequestsInv
<1>5. r[2] \notin stored
  BY <1>1, <1>4 DEF RequestsInv, Asked, Concluding
<1>6. info[r[2].name] = 1
  BY <1>4, RowIs DEF Context, IntegrityInv
<1>7. CASE task' = task
  BY <1>1, <1>2, <1>3, <1>7 DEF RequestsInv, Asked, Chunks, Data
<1>8. CASE task' # task
  <2>1. PICK u \in TaskRecord : /\ u.pc \in {"write", "remove"} /\ u.block = r[2]
                                /\ u.chunks = Chunks(r[2].name, 1)
                                /\ task' = [task EXCEPT ![r[1]] = u]
    BY <1>6, <1>8, AnswerEffect DEF Context
  <2>2. task'[r[1]] = u /\ \A jd \in TaskId \ {r[1]} : task'[jd] = task[jd]
    BY <1>1, <1>3, <2>1
  <2>3. \A q \in inflight' : Asked(q[1], q[2])'
    BY <1>1, <1>2, <1>3 DEF RequestsInv, Asked
  <2>4. ASSUME NEW jd \in TaskId, task'[jd].pc # "none"
        PROVE  /\ task'[jd].pc # "panicked" /\ Asked(jd, task[jd].block)'
               /\ task'[jd].chunks = Chunks(task'[jd].block.name, 1)
    <3>1. CASE jd = r[1]
      BY <1>2, <1>4, <2>1, <2>2, <3>1 DEF Asked
    <3>2. CASE jd # r[1]
      BY <1>1, <1>2, <2>2, <2>4, <3>2 DEF RequestsInv, Asked
    <3> QED
      BY <3>1, <3>2
  <2>5. ASSUME NEW jd \in DOMAIN requests_by_id, requests_by_id[jd] \in stored
        PROVE  task'[jd].pc \in Concluding \union {"remove"}
    <3>1. jd \in TaskId
      BY LimitAssumption DEF Context, ProcessorInv, QueueInv, QueueTypeOK, TaskId
    <3>2. jd # r[1]
      BY <1>4, <1>5, <2>5 DEF Asked
    <3> QED
      BY <1>1, <2>2, <2>5, <3>1, <3>2 DEF RequestsInv
  <2>6. RequestsInv'
    BY <1>2, <2>3, <2>4, <2>5 DEF RequestsInv, Chunks, Data
  <2> QED
    BY <1>4, <2>1, <2>2, <2>6
<1> QED
  BY <1>7, <1>8

(* A task at work, or a request on the wire, means the session has begun:  *)
(* its index message is handled.                                           *)
LEMMA SessionGoesOn ==
    ASSUME Context, ~Idle, UNCHANGED <<horizon, disconnects, peer_version, handler, live>>
    PROVE  SessionInv'
<1>1. SessionInv /\ live # 0 /\ Underway = {}
  BY DEF Context, IntegrityInv, SessionInv
<1>2. Underway' = {}
  BY <1>1 DEF Underway
<1>3. \A s \in Slot : handler[s].pc # "scanned"
  BY <1>1 DEF Underway
<1> QED
  BY <1>1, <1>2, <1>3 DEF SessionInv

LEMMA TaskRest ==
    ASSUME Context, NEW id \in TaskId, TaskStep(id), task[id].pc # "none"
    PROVE  SessionInv' /\ FileRowsInv' /\ DiskForm'
<1>1. SessionInv'
  <2>1. UNCHANGED <<horizon, disconnects, peer_version, handler, live>>
    BY DEF TaskStep, StoreBlock, update_block_storage_state, BeginConsolidate, CopyChunk,
         EndConsolidate, Upload, update_file_locations, rm_local_file, RemoveRequest, remove,
         queue, network
  <2>2. ~Idle
    BY DEF Idle
  <2> QED
    BY <2>1, <2>2, SessionGoesOn
<1>2. FileRowsInv'
  <2>1. UNCHANGED <<info, rows>>
    BY DEF TaskStep, StoreBlock, update_block_storage_state, BeginConsolidate, CopyChunk,
         EndConsolidate, Upload, update_file_locations, rm_local_file, RemoveRequest, database
  <2>2. PICK f \in File : f = task[id].block.name /\ info[f] = 1
    BY TaskIs
  <2>3. \A g \in File \ {f} : (g \in located' <=> g \in located) /\ (g \in reported' => g \in reported)
    BY <2>2, OtherFiles DEF SameFile
  <2> QED
    BY <2>1, <2>2, <2>3 DEF Context, IntegrityInv, FileRowsInv, RowsOf, All, BlocksOf, Block_
<1>3. DiskForm'
  <2>1. DOMAIN chunk' = DOMAIN chunk
    <3>1. CASE StoreBlock(id)
      BY <3>1 DEF StoreBlock, write_chunk
    <3>2. CASE CopyChunk(id)
      BY <3>2 DEF CopyChunk
    <3> QED
      BY <3>1, <3>2 DEF TaskStep, update_block_storage_state, BeginConsolidate, EndConsolidate,
           Upload, update_file_locations, rm_local_file, RemoveRequest, disk
  <2>2. DOMAIN final' = DOMAIN final
    BY DEF TaskStep, StoreBlock, update_block_storage_state, BeginConsolidate, CopyChunk,
         EndConsolidate, Upload, update_file_locations, rm_local_file, RemoveRequest, disk
  <2>3. DOMAIN remote' = DOMAIN remote
    BY DEF TaskStep, StoreBlock, update_block_storage_state, BeginConsolidate, CopyChunk,
         EndConsolidate, Upload, update_file_locations, rm_local_file, RemoveRequest
  <2>4. reported' \subseteq File
    <3>1. task[id].block.name \in File /\ reported \subseteq File
      BY TaskIs DEF Context, IntegrityInv, DiskForm
    <3> QED
      BY <3>1 DEF TaskStep, StoreBlock, update_block_storage_state, BeginConsolidate, CopyChunk,
           EndConsolidate, Upload, update_file_locations, rm_local_file, RemoveRequest
  <2> QED
    BY <2>1, <2>2, <2>3, <2>4 DEF Context, IntegrityInv, DiskForm, ChunkPath
<1> QED
  BY <1>1, <1>2, <1>3

-----------------------------------------------------------------------------
(* The index message of a session.                                         *)
LEMMA ScanRows ==
    ASSUME Context, NEW s \in Slot, ScanIndex(s)
    PROVE  FileRowsInv'
<1>1. PICK added : added = handler[s].files
  OBVIOUS
<1>2. PICK newer : newer = diff_indices(added, info)
  OBVIOUS
<1>3. /\ info' = Updated(info, added, newer) /\ rows' = rows \union BlocksIn(added, newer)
      /\ located' = located /\ reported' = reported \ newer /\ handler[s].pc = "received"
  BY <1>1, <1>2 DEF ScanIndex, insert_file_info
<1>4. \A f \in File : added[f] = 1
  BY <1>1, <1>3 DEF Context, IntegrityInv, SessionInv
<1>5. FileRowsInv
  BY DEF Context, IntegrityInv
<1>6. \A f \in File : f \in newer <=> info[f] = 0
  <2>1. \A f \in File : info[f] \in {0, 1}
    BY <1>5 DEF FileRowsInv
  <2> QED
    BY <1>2, <1>4, <2>1 DEF diff_indices
<1>7. newer \subseteq File
  BY <1>2 DEF diff_indices
<1>8. ASSUME NEW f \in File PROVE info'[f] = 1 /\ RowsOf(f)' = All(f)
  <2>1. info'[f] = 1
    BY <1>3, <1>4, <1>5, <1>6 DEF Updated, FileRowsInv
  <2>2. \A b : b \in BlocksIn(added, newer) <=> \E g \in newer : b \in All(g)
    BY <1>4, <1>7 DEF BlocksIn, All
  <2>3. \A g \in newer : \A b \in All(g) : b.name = g
    BY <1>7, AllMember
  <2>4. \A b \in All(f) : b.name = f
    BY AllMember
  <2>5. CASE f \in newer
    <3>1. RowsOf(f) = {}
      BY <1>5, <1>6, <2>5 DEF FileRowsInv
    <3>2. RowsOf(f)' = {b \in BlocksIn(added, newer) : b.name = f}
      BY <1>3, <3>1 DEF RowsOf
    <3> QED
      BY <2>1, <2>2, <2>3, <2>4, <2>5, <3>2
  <2>6. CASE f \notin newer
    <3>1. RowsOf(f) = All(f)
      BY <1>5, <1>6, <2>6 DEF FileRowsInv
    <3>2. \A b \in BlocksIn(added, newer) : b.name # f
      BY <2>2, <2>3, <2>6
    <3>3. RowsOf(f)' = RowsOf(f)
      BY <1>3, <3>2 DEF RowsOf
    <3> QED
      BY <2>1, <3>1, <3>3
  <2> QED
    BY <2>5, <2>6
<1> QED
  BY <1>8 DEF FileRowsInv, All, BlocksOf, Block_

LEMMA ScanSession ==
    ASSUME Context, NEW s \in Slot, ScanIndex(s)
    PROVE  SessionInv'
<1>1. SessionInv /\ handler \in [Slot -> Message]
  BY DEF Context, IntegrityInv, ProcessorInv, RowsInv
<1>2. /\ UNCHANGED <<horizon, disconnects, peer_version, live, task, inflight,
                     requests_by_request>>
      /\ handler[s].pc = "received"
  BY DEF ScanIndex, network, queue
<1>3. PICK U : U = rows' \ stored'
  OBVIOUS
<1>4. handler' = [handler EXCEPT ![s].pc = "scanned", ![s].unstored = U]
  BY <1>3 DEF ScanIndex, blocks_info
<1>5. /\ handler'[s].pc = "scanned" /\ handler'[s].kind = handler[s].kind /\ handler'[s].unstored = U
      /\ \A t \in Slot \ {s} : handler'[t] = handler[t]
  BY <1>1, <1>4 DEF Message
<1>6. Underway = {s} /\ live # 0 /\ Idle
  BY <1>1, <1>2 DEF SessionInv, Underway
<1>7. Underway' = {s}
  BY <1>5, <1>6 DEF Underway
<1>8. \A t \in Slot \ {s} : handler'[t].pc \notin {"received", "scanned"}
  BY <1>7 DEF Underway
<1>9. Idle'
  BY <1>2, <1>6 DEF Idle, Queued
<1>10. \A t \in Slot : handler'[t].kind = "index"
  BY <1>1, <1>5 DEF SessionInv
<1>11. \A t \in Slot : handler'[t].pc = "received" => \A f \in File : handler'[t].files[f] = 1
  BY <1>5, <1>8
<1>12. \A t \in Slot : handler'[t].pc = "scanned" => handler'[t].unstored = rows' \ stored'
  BY <1>3, <1>5, <1>8
<1>13. horizon' = 0 /\ disconnects' = 0 /\ (\A f \in File : peer_version'[f] = 1) /\ live' # 0
  BY <1>1, <1>2, <1>6 DEF SessionInv
<1>14. \A t, v \in Underway' : t = v
  BY <1>7
<1> QED
  BY <1>9, <1>10, <1>11, <1>12, <1>13, <1>14 DEF SessionInv

LEMMA StoreRest ==
    ASSUME Context, NEW s \in Slot, StoreRequests(s)
    PROVE  SessionInv' /\ RequestsInv'
<1>1. SessionInv /\ handler \in [Slot -> Message]
  BY DEF Context, IntegrityInv, ProcessorInv, RowsInv
<1>2. PICK U : U = handler[s].unstored
  OBVIOUS
<1>3. /\ UNCHANGED <<horizon, disconnects, peer_version, live, task, inflight, stored>>
      /\ handler[s].pc = "scanned" /\ store_outgoing_requests(U)
      /\ handler' = [handler EXCEPT ![s].pc = "done", ![s].unstored = {}]
  <2>1. /\ UNCHANGED <<disconnects, peer_version, live, task, inflight, stored>>
        /\ handler[s].pc = "scanned" /\ store_outgoing_requests(U)
        /\ handler' = [handler EXCEPT ![s].pc = "done", ![s].unstored = {}]
    BY <1>2 DEF StoreRequests, network, database
  <2>2. horizon' = horizon
    BY <2>1 DEF store_outgoing_requests
  <2> QED
    BY <2>1, <2>2
<1>4. Underway = {s} /\ live # 0 /\ Idle /\ U = rows \ stored
  BY <1>1, <1>2, <1>3 DEF SessionInv, Underway
<1>5. /\ handler'[s].pc = "done" /\ handler'[s].kind = handler[s].kind
      /\ \A t \in Slot \ {s} : handler'[t] = handler[t]
  BY <1>1, <1>3 DEF Message
<1>6. Underway' = {}
  BY <1>4, <1>5 DEF Underway
<1>7. SessionInv'
  <2>1. \A t \in Slot : handler'[t].pc \notin {"received", "scanned"}
    BY <1>6 DEF Underway
  <2>2. \A t \in Slot : handler'[t].kind = "index"
    BY <1>1, <1>5 DEF SessionInv
  <2>3. horizon' = 0 /\ disconnects' = 0 /\ (\A f \in File : peer_version'[f] = 1) /\ live' # 0
    BY <1>1, <1>3, <1>4 DEF SessionInv
  <2> QED
    BY <1>6, <2>1, <2>2, <2>3 DEF SessionInv
<1>8. RequestsInv'
  <2>1. PICK ids \in requests_from_blocks(U) :
          requests_by_id' = [i \in {i \in DOMAIN requests_by_id :
                                      \E b \in Waiting : requests_by_request[b] = i}
                                   \union {ids[b] : b \in Inserted(U)} |->
                   IF i \in {j \in DOMAIN requests_by_id :
                                \E b \in Waiting : requests_by_request[b] = j}
                   THEN requests_by_id[i]
                   ELSE CHOOSE b \in Inserted(U) : ids[b] = i]
    BY <1>3 DEF store_outgoing_requests
  <2>2. Waiting = {}
    BY <1>4 DEF Idle, Waiting
  <2>3. Inserted(U) = U
    BY <2>2 DEF Inserted
  <2>4. requests_by_id' = [i \in {ids[b] : b \in U} |-> CHOOSE b \in U : ids[b] = i]
    BY <2>1, <2>2, <2>3
  <2>5. \A i \in DOMAIN requests_by_id' : requests_by_id'[i] \in U
    BY <2>4
  <2>6. \A i \in DOMAIN requests_by_id' : requests_by_id'[i] \notin stored'
    BY <1>3, <1>4, <2>5
  <2>7. inflight' = {} /\ \A id \in TaskId : task'[id].pc = "none"
    BY <1>3, <1>4 DEF Idle
  <2> QED
    BY <2>6, <2>7 DEF RequestsInv
<1> QED
  BY <1>7, <1>8

LEMMA ConnectSession ==
    ASSUME Context, Connect
    PROVE  SessionInv'
<1>1. SessionInv /\ handler \in [Slot -> Message] /\ connections \in Nat
  BY DEF Context, IntegrityInv, ProcessorInv, RowsInv
<1>2. /\ UNCHANGED <<horizon, disconnects, peer_version, task, inflight, rows, stored,
                     requests_by_request>>
      /\ live = 0 /\ live' = connections + 1
      /\ Send("index", connections + 1, peer_version)
  BY DEF Connect, queue, database
<1>3. PICK m : m = [pc |-> "received", kind |-> "index", conn |-> connections + 1,
                    files |-> peer_version, unstored |-> {}]
  OBVIOUS
<1>4. PICK s \in Slot : handler' = [handler EXCEPT ![s] = m]
  BY <1>2, <1>3 DEF Send
<1>5. /\ handler'[s].pc = "received" /\ handler'[s].kind = "index" /\ handler'[s].files = peer_version
      /\ \A t \in Slot \ {s} : handler'[t] = handler[t]
  BY <1>1, <1>3, <1>4
<1>6. Underway = {} /\ Idle
  BY <1>1, <1>2 DEF SessionInv
<1>7. Underway' = {s}
  BY <1>5, <1>6 DEF Underway
<1>8. \A t \in Slot \ {s} : handler'[t].pc \notin {"received", "scanned"}
  BY <1>7 DEF Underway
<1>9. Idle'
  BY <1>2, <1>6 DEF Idle, Queued
<1>10. \A t \in Slot : handler'[t].kind = "index"
  BY <1>1, <1>5 DEF SessionInv
<1>11. \A t \in Slot : handler'[t].pc = "received" => \A f \in File : handler'[t].files[f] = 1
  BY <1>1, <1>5, <1>8 DEF SessionInv
<1>12. \A t \in Slot : handler'[t].pc # "scanned"
  BY <1>5, <1>8
<1>13. horizon' = 0 /\ disconnects' = 0 /\ (\A f \in File : peer_version'[f] = 1) /\ live' # 0
  BY <1>1, <1>2 DEF SessionInv
<1>14. \A t, v \in Underway' : t = v
  BY <1>7
<1> QED
  BY <1>9, <1>10, <1>11, <1>12, <1>13, <1>14 DEF SessionInv

LEMMA CrashRest ==
    ASSUME Context, Crash
    PROVE  SessionInv' /\ RequestsInv'
<1>1. SessionInv /\ handler \in [Slot -> Message]
  BY DEF Context, IntegrityInv, ProcessorInv, RowsInv
<1>2. /\ UNCHANGED <<disconnects, peer_version>> /\ horizon' = 0 /\ live' = 0
      /\ inflight' = {} /\ DOMAIN requests_by_id' = {} /\ DOMAIN requests_by_request' = {}
  BY DEF Crash
<1>3. \A id \in TaskId : task'[id].pc = "none"
  BY NoTaskOK DEF Crash
<1>4. \A s \in Slot : /\ handler'[s].pc \notin {"received", "scanned"}
                      /\ handler'[s].kind = handler[s].kind
  <2>1. PICK h : h = [s \in Slot |-> [handler[s] EXCEPT !.pc = "done", !.unstored = {}]]
    OBVIOUS
  <2>2. \A s \in Slot : h[s].pc = "done" /\ h[s].kind = handler[s].kind
    BY <1>1, <2>1 DEF Message
  <2>3. handler' = [s \in Slot |-> IF handler[s].pc = "unsent" THEN handler[s] ELSE h[s]]
    BY <2>1 DEF Crash
  <2> QED
    BY <2>2, <2>3
<1>5. Underway' = {} /\ Idle'
  BY <1>2, <1>3, <1>4 DEF Underway, Idle, Queued
<1>6. SessionInv'
  BY <1>1, <1>2, <1>4, <1>5 DEF SessionInv
<1>7. RequestsInv'
  BY <1>2, <1>3 DEF RequestsInv
<1> QED
  BY <1>6, <1>7

LEMMA ThrottleRest ==
    ASSUME Context, NEW c \in Connection, Throttle(c)
    PROVE  SessionInv' /\ RequestsInv'
<1>1. SessionInv /\ RequestsInv
  BY DEF Context, IntegrityInv
<1>2. /\ UNCHANGED <<horizon, disconnects, peer_version, live, handler, task, rows, stored,
                     requests_by_request, requests_by_id>>
      /\ inflight' \subseteq inflight \union {<<requests_by_request[b], b>> : b \in Processed}
  BY DEF Throttle, update_pending_requests, database
<1>3. \A b \in Processed : b \in Queued /\ Asked(requests_by_request[b], b)
  BY DEF Processed, Visited, Asked, Context, ProcessorInv, QueueInv, IndexesAgree
<1>4. RequestsInv'
  <2>1. \A r \in inflight' : Asked(r[1], r[2])
    BY <1>1, <1>2, <1>3 DEF RequestsInv
  <2> QED
    BY <1>1, <1>2, <2>1 DEF RequestsInv, Asked, Chunks, Data
<1>5. SessionInv'
  <2>1. CASE ~Idle
    BY <1>2, <2>1, SessionGoesOn
  <2>2. CASE Idle
    <3>1. inflight' = {}
      BY <1>2, <1>3, <2>2 DEF Idle
    <3>2. Idle' /\ Underway' = Underway
      BY <1>2, <2>2, <3>1 DEF Idle, Queued, Underway
    <3> QED
      BY <1>1, <1>2, <3>2 DEF SessionInv
  <2> QED
    BY <2>1, <2>2
<1> QED
  BY <1>4, <1>5

-----------------------------------------------------------------------------
(* The invariant is inductive.                                             *)
Quiet ==
    /\ UNCHANGED <<chunk, final, remote, located, stored>> /\ reported' \subseteq reported
    /\ \A jd \in TaskId : task'[jd] = task[jd] \/ task'[jd].pc \in {"none", "write", "remove"}
    /\ \/ /\ file_writers' = file_writers
          /\ \A jd \in TaskId : task[jd].pc = "copy" => task'[jd] = task[jd]
       \/ \A f \in File : file_writers'[f] = Missing

LEMMA QuietKeeps ==
    ASSUME Context, Quiet
    PROVE  TasksInv' /\ DiskForm' /\ \A f \in File : FileInv(f)' /\ WriterOK(f)'
<1>1. \A f \in File : SameFile(f)
  BY DEF SameFile, StoredOf, Quiet
<1>2. TasksInv' /\ \A f \in File : FileInv(f)'
  BY <1>1, TasksFrame DEF Quiet
<1>3. \A f \in File : WriterOK(f)'
  BY <1>1, WritersFrame DEF Quiet
<1>4. DiskForm'
  BY DEF Context, IntegrityInv, DiskForm, ChunkPath, Quiet
<1> QED
  BY <1>2, <1>3, <1>4

LEMMA SameRows ==
    ASSUME Context, UNCHANGED <<info, rows, located>>, reported' \subseteq reported
    PROVE  FileRowsInv'
BY DEF Context, IntegrityInv, FileRowsInv, RowsOf, All, BlocksOf, Block_

LEMMA SameRequests ==
    ASSUME Context, UNCHANGED <<requests_by_id, inflight, task, stored>>
    PROVE  RequestsInv'
BY DEF Context, IntegrityInv, RequestsInv, Asked, Chunks, Data

LEMMA SameSession ==
    ASSUME Context, UNCHANGED <<horizon, disconnects, peer_version, handler, live, rows, stored,
                                requests_by_request, inflight, task>>
    PROVE  SessionInv'
<1>1. Idle' <=> Idle
  BY DEF Idle, Queued
<1>2. Underway' = Underway
  BY DEF Underway
<1> QED
  BY <1>1, <1>2 DEF Context, IntegrityInv, SessionInv

LEMMA IntegrityStep ==
    ASSUME Undisturbed, Context, [Next]_vars
    PROVE  IntegrityInv'
<1>1. SessionInv /\ FileRowsInv /\ RequestsInv
  BY DEF Context, IntegrityInv
<1>2. ASSUME NEW id \in TaskId, TaskStep(id), ~RemoveRequest(id) PROVE IntegrityInv'
  <2>1. TasksInv' /\ RequestsInv' /\ \A g \in File : FileInv(g)' /\ WriterOK(g)'
    BY <1>2, TaskStepOwn
  <2>2. SessionInv' /\ FileRowsInv' /\ DiskForm'
    BY <1>2, TasksAfter, TaskRest
  <2> QED
    BY <2>1, <2>2 DEF IntegrityInv
<1>3. ASSUME NEW id \in TaskId, RemoveRequest(id) PROVE IntegrityInv'
  <2>1. /\ UNCHANGED <<chunk, final, remote, located, stored, reported, file_writers>>
        /\ task[id].pc = "remove" /\ TaskStep(id)
        /\ task' = [task EXCEPT ![id] = NoTask]
    BY <1>3 DEF RemoveRequest, database, disk, TaskStep
  <2>2. task'[id].pc = "none" /\ \A jd \in TaskId \ {id} : task'[jd] = task[jd]
    BY <2>1, NoTaskOK DEF Context, FormInv
  <2>3. RequestsInv'
    BY <1>3, RemoveRest
  <2>4. SessionInv' /\ FileRowsInv'
    BY <2>1, TaskRest
  <2>5. \A jd \in TaskId : /\ task'[jd] = task[jd] \/ task'[jd].pc \in {"none", "write", "remove"}
                           /\ task[jd].pc = "copy" => task'[jd] = task[jd]
    BY <2>1, <2>2
  <2>9. Quiet
    BY <2>1, <2>3, <2>4, <2>5 DEF Quiet
  <2> QED
    BY <2>1, <2>3, <2>4, <2>5, <2>9, QuietKeeps DEF IntegrityInv
<1>4. ASSUME NEW r \in inflight, Answer(r[1], r[2]) PROVE IntegrityInv'
  <2>1. /\ UNCHANGED <<chunk, final, remote, located, stored, reported, file_writers, info, rows>>
        /\ UNCHANGED <<horizon, disconnects, peer_version, handler, live>>
    BY <1>4 DEF Answer, database, disk, queue
  <2>2. ~Idle
    BY <1>4 DEF Idle
  <2>3. SessionInv' /\ FileRowsInv'
    BY <2>1, <2>2, SessionGoesOn, SameRows
  <2>4. /\ RequestsInv'
        /\ \A jd \in TaskId : task'[jd] = task[jd] \/ task'[jd].pc \in {"none", "write", "remove"}
        /\ \A jd \in TaskId : task[jd].pc = "copy" => task'[jd] = task[jd]
    BY <1>4, AnswerRest
  <2>9. Quiet
    BY <2>1, <2>3, <2>4 DEF Quiet
  <2> QED
    BY <2>1, <2>3, <2>4, <2>9, QuietKeeps DEF IntegrityInv
<1>5. ASSUME NEW s \in Slot, ScanIndex(s) PROVE IntegrityInv'
  <2>1. /\ UNCHANGED <<chunk, final, remote, located, stored, file_writers, task, requests_by_id, inflight>>
        /\ reported' \subseteq reported
    BY <1>5 DEF ScanIndex, insert_file_info, disk, queue, network
  <2>2. SessionInv' /\ FileRowsInv' /\ RequestsInv'
    BY <1>5, <2>1, ScanSession, ScanRows, SameRequests
  <2>9. Quiet
    BY <2>1, <2>2 DEF Quiet
  <2> QED
    BY <2>1, <2>2, <2>9, QuietKeeps DEF IntegrityInv
<1>6. ASSUME NEW s \in Slot, StoreRequests(s) PROVE IntegrityInv'
  <2>1. UNCHANGED <<chunk, final, remote, located, stored, file_writers, task, reported, info, rows>>
    BY <1>6 DEF StoreRequests, database, disk
  <2>2. SessionInv' /\ FileRowsInv' /\ RequestsInv'
    BY <1>6, <2>1, StoreRest, SameRows
  <2>9. Quiet
    BY <2>1, <2>2 DEF Quiet
  <2> QED
    BY <2>1, <2>2, <2>9, QuietKeeps DEF IntegrityInv
<1>7. ASSUME NEW c \in Connection, Throttle(c) PROVE IntegrityInv'
  <2>1. UNCHANGED <<chunk, final, remote, located, stored, file_writers, task, reported, info, rows>>
    BY <1>7 DEF Throttle, database, disk
  <2>2. SessionInv' /\ FileRowsInv' /\ RequestsInv'
    BY <1>7, <2>1, ThrottleRest, SameRows
  <2>9. Quiet
    BY <2>1, <2>2 DEF Quiet
  <2> QED
    BY <2>1, <2>2, <2>9, QuietKeeps DEF IntegrityInv
<1>8. CASE Connect
  <2>1. UNCHANGED <<chunk, final, remote, located, stored, file_writers, task, reported, info, rows,
                    requests_by_id, inflight>>
    BY <1>8 DEF Connect, database, disk, queue
  <2>2. SessionInv' /\ FileRowsInv' /\ RequestsInv'
    BY <1>8, <2>1, ConnectSession, SameRows, SameRequests
  <2>9. Quiet
    BY <2>1, <2>2 DEF Quiet
  <2> QED
    BY <2>1, <2>2, <2>9, QuietKeeps DEF IntegrityInv
<1>9. CASE Crash
  <2>1. /\ UNCHANGED <<chunk, final, remote, located, stored, reported, info, rows>>
        /\ \A f \in File : file_writers'[f] = Missing
    BY <1>9 DEF Crash, database, disk
  <2>2. \A jd \in TaskId : task'[jd].pc = "none"
    BY <1>9, NoTaskOK DEF Crash
  <2>3. SessionInv' /\ FileRowsInv' /\ RequestsInv'
    BY <1>9, <2>1, CrashRest, SameRows
  <2>9. Quiet
    BY <2>1, <2>2, <2>3 DEF Quiet
  <2> QED
    BY <2>1, <2>2, <2>3, <2>9, QuietKeeps DEF IntegrityInv
<1>10. CASE UNCHANGED vars \/ \E c \in Connection : DropEvent(c)
  <2>1. UNCHANGED <<chunk, final, remote, located, stored, file_writers, task, reported, info, rows,
                    requests_by_id, requests_by_request, inflight, horizon, disconnects,
                    peer_version, handler, live>>
    BY <1>10 DEF DropEvent, vars, database, disk, queue, network
  <2>2. SessionInv' /\ FileRowsInv' /\ RequestsInv'
    BY <2>1, SameSession, SameRows, SameRequests
  <2>9. Quiet
    BY <2>1, <2>2 DEF Quiet
  <2> QED
    BY <2>1, <2>2, <2>9, QuietKeeps DEF IntegrityInv
<1>11. ASSUME NEW f \in File PROVE ~Edit(f)
  <2>1. peer_version[f] = 1 /\ Len(Content[f]) = 1
    BY <1>1 DEF SessionInv, Undisturbed, FixedContent
  <2> QED
    BY <2>1 DEF Edit
<1>12. ~Disconnect /\ ~Age
  BY <1>1 DEF Disconnect, Age, SessionInv, Undisturbed
<1>13. ASSUME NEW s \in Slot PROVE ~ScanIndexUpdate(s)
  BY <1>1 DEF ScanIndexUpdate, SessionInv
<1> QED
  BY <1>2, <1>3, <1>4, <1>5, <1>6, <1>7, <1>8, <1>9, <1>10, <1>11, <1>12, <1>13
  DEF Next, HandlerStep

THEOREM IntegrityInvariant == ASSUME Undisturbed PROVE Spec => []Context
<1>1. Init => IntegrityInv
  <2> SUFFICES ASSUME Init PROVE IntegrityInv
    OBVIOUS
  <2>1. /\ horizon = 0 /\ Queued = {} /\ DOMAIN requests_by_id = {} /\ inflight = {}
        /\ rows = {} /\ stored = {} /\ located = {} /\ reported = {}
    BY DEF Init, QueueInit, Queued
  <2>2. \A id \in TaskId : task[id].pc = "none"
    BY NoTaskOK DEF Init
  <2>3. \A s \in Slot : handler[s].pc = "unsent" /\ handler[s].kind = "index"
    BY DEF Init, NoMessage
  <2>4. SessionInv
    BY <2>1, <2>2, <2>3 DEF Init, SessionInv, Underway, Idle
  <2>5. FileRowsInv /\ RequestsInv /\ TasksInv /\ DiskForm
    BY <2>1, <2>2 DEF Init, FileRowsInv, RowsOf, RequestsInv, TasksInv, DiskForm, Concluding
  <2>6. \A f \in File : FileInv(f) /\ WriterOK(f)
    BY <2>1 DEF Init, FileInv, StoredOf, WriterOK
  <2> QED
    BY <2>4, <2>5, <2>6 DEF IntegrityInv
<1>2. ProcessorInv /\ FormInv /\ FixedInv /\ IntegrityInv /\ [Next]_vars => IntegrityInv'
  BY IntegrityStep DEF Context
<1>3. Spec => [](ProcessorInv /\ FormInv /\ FixedInv)
  BY ProcessorInvariant, ProcessorForm, FixedInvariant, PTL DEF Undisturbed
<1>4. Spec => [](ProcessorInv /\ FormInv /\ FixedInv /\ IntegrityInv)
  BY <1>1, <1>2, <1>3, PTL DEF Spec
<1>5. (ProcessorInv /\ FormInv /\ FixedInv /\ IntegrityInv) <=> Context
  BY DEF Context
<1> QED
  BY <1>4, <1>5, PTL

-----------------------------------------------------------------------------
(* The properties of the specification.                                    *)

(* What is known of a file that has rows.                                  *)
LEMMA WholeIs ==
    ASSUME Context, NEW f \in File, f \in located \/ f \in reported \/ info[f] # 0
    PROVE  info[f] = 1 /\ Whole(f) = Data(f, 1)
BY DEF Context, IntegrityInv, FileRowsInv, Whole

(* The data of a block marked StoredLocally, which is never requested      *)
(* again, is in its chunk, in the consolidated file or at the remote: at   *)
(* every step of write_chunk, consolidate, the upload and rm_local_file,   *)
(* and after a crash at any of them.                                       *)
THEOREM NothingStoredIsLost == ASSUME Undisturbed PROVE Spec => []StoredDurable
<1>1. ASSUME Context PROVE StoredDurable
  <2> SUFFICES ASSUME NEW b \in stored
               PROVE  \/ chunk[<<b.name, Chunks(b.name, info[b.name]), b.pos>>] = b.hash
                      \/ InFile(final[b.name], b)
                      \/ InFile(remote[b.name], b)
    BY DEF StoredDurable
  <2>1. b \in rows
    BY <1>1 DEF Context, FormInv
  <2>2. b.name \in File /\ info[b.name] = 1
    BY <1>1, <2>1, RowIs DEF Context, IntegrityInv
  <2>3. Kept(b)
    BY <1>1, <2>2 DEF Context, IntegrityInv, FileInv, StoredOf
  <2> QED
    BY <2>2, <2>3 DEF Kept, InChunk, Path
<1> QED
  BY <1>1, IntegrityInvariant, PTL

(* A row of bep_file_location (update_file_locations) always stands for    *)
(* the whole file at the remote.                                           *)
THEOREM LocationsAreTrue == ASSUME Undisturbed PROVE Spec => []LocatedIntact
<1>1. ASSUME Context PROVE LocatedIntact
  <2> SUFFICES ASSUME NEW f \in located PROVE remote[f] = Whole(f)
    BY DEF LocatedIntact
  <2>1. f \in File
    BY <1>1 DEF Context, FormInv
  <2>2. remote[f] = Data(f, 1)
    BY <1>1, <2>1 DEF Context, IntegrityInv, FileInv
  <2> QED
    BY <1>1, <2>1, <2>2, WholeIs
<1> QED
  BY <1>1, IntegrityInvariant, PTL

(* Once "Stored whole file" is logged (process_response) the file is whole *)
(* at the remote and, with LOCAL_REMOTE, on disk, too.                     *)
THEOREM ReportsAreTrue == ASSUME Undisturbed PROVE Spec => []ReportedIntact
<1>1. ASSUME Context PROVE ReportedIntact
  <2> SUFFICES ASSUME NEW f \in reported
               PROVE  remote[f] = Whole(f) /\ (Strategy = "LocalRemote" => final[f] = Whole(f))
    BY DEF ReportedIntact
  <2>1. f \in File
    BY <1>1 DEF Context, IntegrityInv, DiskForm
  <2>2. remote[f] = Data(f, 1) /\ (Strategy = "LocalRemote" => final[f] = Data(f, 1))
    BY <1>1, <2>1 DEF Context, IntegrityInv, FileInv
  <2> QED
    BY <1>1, <2>1, <2>2, WholeIs
<1> QED
  BY <1>1, IntegrityInvariant, PTL

(* After any error of consolidate the writer stays in the state            *)
(* Consolidating, and every block of the file is in its chunk or in the    *)
(* consolidated file, which is neither located nor reported.               *)
THEOREM FailedConsolidationsKeep == ASSUME Undisturbed PROVE Spec => []FailedConsolidationKept
<1>1. ASSUME Context PROVE FailedConsolidationKept
  <2> SUFFICES ASSUME NEW f \in File, file_writers[f] # Missing,
                      file_writers[f].state = "consolidating", ~Locked(f)
               PROVE  /\ f \notin located \union reported
                      /\ \A b \in BlocksOf(f, info[f]) :
                            \/ chunk[<<f, Chunks(f, info[f]), b.pos>>] = b.hash
                            \/ InFile(final[f], b)
    BY DEF FailedConsolidationKept
  <2>1. Failed(f)
    BY <1>1 DEF Context, IntegrityInv, WriterOK
  <2>2. info[f] = 1
    <3>1. PICK b : b \in All(f)
      BY FileContent DEF All, BlocksOf
    <3>2. b \in rows /\ b.name = f
      BY <1>1, <2>1, <3>1, AllMember DEF Failed, Complete, Context, FormInv
    <3> QED
      BY <1>1, <3>2, RowIs DEF Context, IntegrityInv
  <2>3. \A b \in All(f) : Path(b) = <<f, Chunks(f, 1), b.pos>>
    BY PathType
  <2>4. BlocksOf(f, info[f]) = All(f)
    BY <2>2 DEF All
  <2> QED
    BY <2>1, <2>2, <2>3, <2>4 DEF Failed, InChunk
<1> QED
  BY <1>1, IntegrityInvariant, PTL

(* A file that is whole at the remote is never overwritten there by        *)
(* anything else (cp_local_to_remote).                                     *)
THEOREM RemoteIsKept == ASSUME Undisturbed PROVE Spec => RemoteKept
<1>1. ASSUME Context, [Next]_vars, NEW f \in File, info[f] # 0, remote[f] = Whole(f)
      PROVE  remote'[f] = remote[f]
  <2>1. remote[f] = Data(f, 1)
    BY <1>1, WholeIs
  <2>2. ASSUME NEW id \in TaskId, TaskStep(id), task[id].pc # "none" PROVE remote'[f] = remote[f]
    <3>1. CASE task[id].block.name # f
      BY <1>1, <2>2, <3>1, OtherFiles DEF SameFile
    <3>2. CASE task[id].block.name = f /\ Upload(id)
      <4>1. final[f] = Data(f, 1)
        BY <1>1, <3>2, TaskIs DEF Achieved, Upload
      <4>2. DOMAIN remote = File
        BY <1>1 DEF Context, IntegrityInv, DiskForm
      <4> QED
        BY <2>1, <3>2, <4>1, <4>2 DEF Upload
    <3>3. CASE ~Upload(id)
      BY <2>2, <3>3 DEF TaskStep, StoreBlock, update_block_storage_state, BeginConsolidate,
           CopyChunk, EndConsolidate, update_file_locations, rm_local_file, RemoveRequest
    <3> QED
      BY <3>1, <3>2, <3>3
  <2>3. ASSUME NEW id \in TaskId, TaskStep(id) PROVE remote'[f] = remote[f]
    <3>1. task[id].pc # "none"
      BY <1>1, <2>3, TasksAfter DEF RemoveRequest
    <3> QED
      BY <2>2, <2>3, <3>1
  <2>4. ASSUME NEW s \in Slot, HandlerStep(s) PROVE remote' = remote
    BY <2>4 DEF HandlerStep, ScanIndex, ScanIndexUpdate, StoreRequests
  <2>5. ASSUME NEW c \in Connection, Throttle(c) \/ DropEvent(c) PROVE remote' = remote
    BY <2>5 DEF Throttle, DropEvent
  <2>6. ASSUME NEW r \in inflight, Answer(r[1], r[2]) PROVE remote' = remote
    BY <2>6 DEF Answer
  <2>7. CASE Connect \/ Disconnect \/ Crash \/ Age \/ (\E g \in File : Edit(g)) \/ UNCHANGED vars
    BY <2>7 DEF Connect, Disconnect, Crash, Age, Edit, vars
  <2> QED
    BY <1>1, <2>3, <2>4, <2>5, <2>6, <2>7 DEF Next
<1>2. Context /\ [Next]_vars =>
        [\A f \in File : info[f] # 0 /\ remote[f] = Whole(f) /\ info'[f] = info[f]
                            => remote'[f] = remote[f]]_vars
  BY <1>1
<1> QED
  BY <1>2, IntegrityInvariant, PTL DEF Spec, RemoteKept
=============================================================================
