-------------------------- MODULE OutgoingRequests --------------------------
(***************************************************************************)
(* The queue of block requests (src/core/outgoing_requests.rs) together    *)
(* with the functions that feed it and throttle it (bep_processor.rs).     *)
(* Every operation runs under the one state mutex, so each is one action.  *)
(***************************************************************************)
EXTENDS Integers, FiniteSets

CONSTANTS
    Block,           \* keys of requests_by_request (folder, name, offset, size, hash)
    Name,            \* file names
    NameOf,          \* the file a block belongs to
    SizeOf,          \* bytes of a block
    Order,           \* position of a key in the BTreeMap's order
    MaxPending,      \* config.max_pending_requests
    MaxStorageArea,  \* config.max_total_pending_requests_size
    MaxFiles,        \* max_files, 10 in the code
    MaxRequestId     \* bound on request_id, i32::MAX in the code

ASSUME BlockAssumption ==
    /\ IsFiniteSet(Block)
    /\ NameOf \in [Block -> Name]
    /\ SizeOf \in [Block -> Nat]
    /\ Order \in [Block -> Nat]
    /\ \A b, c \in Block : Order[b] = Order[c] => b = c

ASSUME LimitAssumption ==
    /\ MaxPending \in Nat
    /\ MaxStorageArea \in Nat
    /\ MaxFiles \in Nat
    /\ MaxRequestId \in Nat

VARIABLES
    requests_by_id,       \* id -> block
    requests_by_request,  \* block -> id
    pending_requests,     \* blocks whose request was handed to a connection
    requested_size,       \* bytes accounted to pending_requests
    request_id,           \* last id given out
    horizon,              \* ids up to this one are older than MAX_TIME_IN_QUEUE
    sent                  \* ids handed out and not yet passed to remove

queue == <<requests_by_id, requests_by_request, pending_requests,
           requested_size, request_id, horizon, sent>>

Queued == DOMAIN requests_by_request

(* The total size of a set of blocks, counted as its set of (block, byte)  *)
(* pairs: a form of the iterator's sum() that needs no recursion.          *)
Bytes(S) == UNION {{b} \X (1 .. SizeOf[b]) : b \in S}
Size(S) == Cardinality(Bytes(S))

-----------------------------------------------------------------------------
(* remove_old_requests: ids are given out in time order, so the requests   *)
(* still younger than MAX_TIME_IN_QUEUE are those past the horizon.        *)
Waiting == {b \in Queued : requests_by_request[b] > horizon}

(* requests_from_blocks numbers the rows from request_id + 1 in the order  *)
(* the database returned them, which the query leaves open.                *)
requests_from_blocks(U) ==
    {ids \in [U -> (request_id + 1) .. (request_id + Cardinality(U))] :
        \A b, c \in U : ids[b] = ids[c] => b = c}

\* Mutant: insert forgets the contains_key test.
InsertedTwice(U) == U

(* insert: a block that is already queued keeps its request.               *)
Inserted(U) == U \ Waiting

\* Mutant: the bytes of every old request are given back, pending or not.
AllOldReleased == Size(Queued \ Waiting)

\* Mutant: the condition of the retain is the wrong way round.
PendingKeptInverted == pending_requests \ Waiting

(* remove_old_requests also drops the expired requests from the pending    *)
(* set and gives their bytes back.                                         *)
Expired == pending_requests \ Waiting
ReleasedSize == Size(Expired)

PendingKept == pending_requests \cap Waiting

(* store_outgoing_requests, the second critical section of both index      *)
(* handlers: insert_requests = remove_old_requests, then insert each.      *)
store_outgoing_requests(U) ==
    /\ request_id + Cardinality(U) <= MaxRequestId
    /\ \E ids \in requests_from_blocks(U) :
        LET kept == {i \in DOMAIN requests_by_id :
                        \E b \in Waiting : requests_by_request[b] = i}
            new == Inserted(U)
        IN  /\ requests_by_request' = [b \in Waiting \cup new |->
                   IF b \in new THEN ids[b] ELSE requests_by_request[b]]
            /\ requests_by_id' = [i \in kept \cup {ids[b] : b \in new} |->
                   IF i \in kept THEN requests_by_id[i]
                   ELSE CHOOSE b \in new : ids[b] = i]
    /\ request_id' = request_id + Cardinality(U)
    /\ pending_requests' = PendingKept
    /\ requested_size' = requested_size - ReleasedSize
    /\ UNCHANGED <<horizon, sent>>

-----------------------------------------------------------------------------
(* update_pending_requests walks the map in order and stops at the first   *)
(* request that does not pass; what it had looked at before a request q is *)
(* Before(q), and all of that is pending when it reaches q.                *)
Before(q) == {p \in Queued : Order[p] < Order[q]}
FileNames(S) == {NameOf[b] : b \in S}
free_slots == MaxPending - Cardinality(pending_requests)

\* Mutant: the limit on files looks only at the files pending at the start.
FileAllowedAtStart(q) ==
    LET file_names == FileNames(pending_requests)
    IN  Cardinality(file_names) < MaxFiles \/ NameOf[q] \in file_names

FileAllowed(q) ==
    LET file_names == FileNames(pending_requests \cup Before(q))
    IN  Cardinality(file_names) < MaxFiles \/ NameOf[q] \in file_names

\* Mutant: processed_requests.len() > free_slots.
SlotFreeOffByOne(q) == Cardinality(Before(q) \ pending_requests) <= free_slots

SlotFree(q) == Cardinality(Before(q) \ pending_requests) < free_slots

\* Mutant: the size of the request itself is left out of the test.
SizeAllowedBefore(q) ==
    requested_size + Size(Before(q) \ pending_requests) <= MaxStorageArea

(* The test is made before the request is known to be new: a request that  *)
(* is pending already is counted twice here.                               *)
SizeAllowed(q) ==
    requested_size + Size(Before(q) \ pending_requests) + SizeOf[q]
        <= MaxStorageArea

Admitted(q) == FileAllowed(q) /\ SlotFree(q) /\ SizeAllowed(q)

Visited == {q \in Queued :
               \A p \in Queued : Order[p] <= Order[q] => Admitted(p)}

Processed == Visited \ pending_requests

update_pending_requests ==
    /\ pending_requests' = pending_requests \cup Processed
    /\ requested_size' = requested_size + Size(Processed)
    /\ sent' = sent \cup {requests_by_request[b] : b \in Processed}
    /\ UNCHANGED <<requests_by_id, requests_by_request, request_id, horizon>>

-----------------------------------------------------------------------------
(* remove: called once for every response that was processed. The request  *)
(* may be gone, having expired.                                            *)
AfterRemove(b) == Queued \ {b}

remove(id) ==
    /\ IF id \in DOMAIN requests_by_id
       THEN LET b == requests_by_id[id]
            IN  /\ requests_by_id' =
                     [i \in DOMAIN requests_by_id \ {id} |-> requests_by_id[i]]
                /\ requests_by_request' =
                     [c \in AfterRemove(b) |-> requests_by_request[c]]
                /\ pending_requests' = pending_requests \ {b}
                /\ requested_size' = requested_size - SizeOf[b]
       ELSE UNCHANGED <<requests_by_id, requests_by_request,
                        pending_requests, requested_size>>
    /\ sent' = sent \ {id}
    /\ UNCHANGED <<request_id, horizon>>

(* Time passes: more requests become older than MAX_TIME_IN_QUEUE.         *)
TimePasses ==
    /\ horizon' \in (horizon + 1) .. request_id
    /\ UNCHANGED <<requests_by_id, requests_by_request, pending_requests,
                   requested_size, request_id, sent>>

-----------------------------------------------------------------------------
QueueInit ==
    /\ requests_by_id = [i \in {} |-> 0]
    /\ requests_by_request = [b \in {} |-> 0]
    /\ pending_requests = {}
    /\ requested_size = 0
    /\ request_id = 0
    /\ horizon = 0
    /\ sent = {}

QueueNext ==
    \/ \E U \in SUBSET Block : store_outgoing_requests(U)
    \/ update_pending_requests
    \/ \E id \in sent : remove(id)
    \/ TimePasses

QueueSpec == QueueInit /\ [][QueueNext]_queue

(* Only the event loop's call is driven by the program itself: an index    *)
(* message, an answer and the passing of time come from outside.           *)
QueueFairSpec == QueueSpec /\ WF_queue(update_pending_requests)

-----------------------------------------------------------------------------
(* Type invariant of the queue.                                            *)
QueueTypeOK ==
    /\ request_id \in 0 .. MaxRequestId
    /\ horizon \in 0 .. request_id
    /\ sent \subseteq 1 .. request_id
    /\ DOMAIN requests_by_id \subseteq 1 .. request_id
    /\ requests_by_id \in [DOMAIN requests_by_id -> Block]
    /\ Queued \subseteq Block
    /\ requests_by_request \in [Queued -> 1 .. request_id]
    /\ pending_requests \subseteq Block
    /\ requested_size \in Nat

(* "If that's not the case, the invariant of OutgoingRequests does not     *)
(* hold" (remove): the two maps are inverse to each other, through expiry, *)
(* re-insertion and removal.                                               *)
IndexesAgree ==
    /\ \A i \in DOMAIN requests_by_id :
          /\ requests_by_id[i] \in Queued
          /\ requests_by_request[requests_by_id[i]] = i
    /\ \A b \in Queued :
          /\ requests_by_request[b] \in DOMAIN requests_by_id
          /\ requests_by_id[requests_by_request[b]] = b

(* The three assertions of remove hold whenever it is called with the id   *)
(* of a request that was sent, expired in between or not.                  *)
RemoveAssertsHold ==
    \A id \in sent \cap DOMAIN requests_by_id :
        LET b == requests_by_id[id]
        IN  /\ b \in Queued
            /\ b \in pending_requests
            /\ requested_size >= SizeOf[b]

(* "There can be at most [max_pending] requesting at most                  *)
(* [max_storage_area] data": the number, which also is what keeps the      *)
(* subtraction of free_slots from underflowing, and the bytes, which       *)
(* requested_size accounts for exactly.                                    *)
PendingWithinSlots == Cardinality(pending_requests) <= MaxPending

SizeAccounted ==
    /\ requested_size = Size(pending_requests)
    /\ requested_size <= MaxStorageArea

(* The blocks pending at any time come from at most max_files files.       *)
FilesWithinLimit == Cardinality(FileNames(pending_requests)) <= MaxFiles

(* "How long a requests stays in the queue before being removed and being  *)
(* resent" (the comment on MAX_TIME_IN_QUEUE): a pending request that is   *)
(* too old is eventually taken out of the queue.                           *)
ExpiredIsResent ==
    \A b \in Block :
        (b \in pending_requests \ Waiting) ~> (b \notin pending_requests \ Waiting)
=============================================================================
