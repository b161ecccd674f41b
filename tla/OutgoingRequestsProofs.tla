----------------------- MODULE OutgoingRequestsProofs -----------------------
(***************************************************************************)
(* Proofs about the request queue, for any set of blocks, any sizes and    *)
(* any limits. The first part is about finite sets of blocks: a least and  *)
(* a last block in the map's order, and the sums of sizes. The second is   *)
(* the inductive invariant of the queue.                                   *)
(***************************************************************************)
EXTENDS OutgoingRequests, FiniteSetTheorems, WellFoundedInduction, TLAPS

-----------------------------------------------------------------------------
(* Every non-empty set of naturals has a least element.                    *)
LEMMA LeastNatural ==
    ASSUME NEW T \in SUBSET Nat, T # {}
    PROVE  \E n \in T : \A m \in T : n <= m
<1>1. PICK n \in T : \A m \in T : ~ (<<m, n>> \in OpToRel(<, Nat))
  BY NatLessThanWellFounded, WFMin
<1>2. \A m \in T : <<m, n>> \in OpToRel(<, Nat) <=> m < n
  BY DEF OpToRel
<1>3. \A m \in T : ~ (m < n)
  BY <1>1, <1>2
<1> QED
  BY <1>3

(* One more element makes a finite set larger by at most one.              *)
LEMMA OneMore ==
    ASSUME NEW S, IsFiniteSet(S), NEW x
    PROVE  /\ Cardinality(S \cup {x}) \in Nat /\ Cardinality(S) \in Nat
           /\ Cardinality(S \cup {x}) <= Cardinality(S) + 1
<1>1. Cardinality(S) \in Nat
  BY FS_CardinalityType
<1>2. IsFiniteSet(S \cup {x}) /\ Cardinality(S \cup {x}) =
          IF x \in S THEN Cardinality(S) ELSE Cardinality(S) + 1
  BY FS_AddElement
<1> QED
  BY <1>1, <1>2

(* The cardinality of disjoint finite sets is the sum of theirs.           *)
LEMMA DisjointUnion ==
    ASSUME NEW S, IsFiniteSet(S), NEW T, IsFiniteSet(T), S \cap T = {}
    PROVE  Cardinality(S \cup T) = Cardinality(S) + Cardinality(T)
<1>1. Cardinality(S) \in Nat /\ Cardinality(T) \in Nat
  BY FS_CardinalityType
<1>2. Cardinality(S \cup T) = Cardinality(S) + Cardinality(T) - Cardinality(S \cap T)
  BY FS_Union
<1>3. Cardinality(S \cap T) = 0
  BY FS_EmptySet
<1> QED
  BY <1>1, <1>2, <1>3

(* Every non-empty set of blocks has a first block in the map's order.     *)
LEMMA FirstBlock ==
    ASSUME NEW S \in SUBSET Block, S # {}
    PROVE  \E q \in S : \A p \in S : Order[q] <= Order[p]
<1> DEFINE T == {Order[p] : p \in S}
<1>1. T \in SUBSET Nat /\ T # {}
  BY BlockAssumption
<1>2. PICK n \in T : \A m \in T : n <= m
  BY <1>1, LeastNatural
<1> QED
  BY <1>2

(* Every non-empty set of blocks has a last block in the map's order: the  *)
(* one with the fewest blocks after it.                                    *)
LEMMA LastBlock ==
    ASSUME NEW S \in SUBSET Block, S # {}
    PROVE  \E q \in S : \A p \in S : Order[p] <= Order[q]
<1> DEFINE After(q) == {p \in S : Order[p] > Order[q]}
           T == {Cardinality(After(q)) : q \in S}
<1>1. IsFiniteSet(S)
  BY BlockAssumption, FS_Subset
<1>2. \A q \in S : IsFiniteSet(After(q)) /\ Cardinality(After(q)) \in Nat
  BY <1>1, FS_Subset, FS_CardinalityType
<1>3. T \in SUBSET Nat /\ T # {}
  BY <1>2
<1>4. PICK n \in T : \A m \in T : n <= m
  BY <1>3, LeastNatural
<1>5. PICK q \in S : n = Cardinality(After(q))
  BY <1>4
<1>6. ASSUME NEW p \in S, Order[p] > Order[q]
      PROVE  FALSE
  <2>1. Order[p] \in Nat /\ Order[q] \in Nat /\ \A r \in S : Order[r] \in Nat
    BY BlockAssumption
  <2>2. After(p) \subseteq After(q) /\ p \in After(q) /\ p \notin After(p)
    BY <1>6, <2>1
  <2>3. Cardinality(After(p)) <= Cardinality(After(q)) /\ After(p) # After(q)
    BY <1>2, <2>2, FS_Subset
  <2>4. Cardinality(After(p)) # Cardinality(After(q))
    BY <1>2, <2>2, <2>3, FS_Subset
  <2>5. n <= Cardinality(After(p))
    BY <1>4
  <2> QED
    BY <1>2, <1>5, <2>3, <2>4, <2>5
<1>7. \A p \in S : ~ (Order[p] > Order[q])
  BY <1>6
<1> QED
  BY <1>7, BlockAssumption

-----------------------------------------------------------------------------
(* The bytes of a set of blocks are finitely many.                         *)
LEMMA SizeType ==
    ASSUME NEW S \in SUBSET Block
    PROVE  IsFiniteSet(Bytes(S)) /\ Size(S) \in Nat
<1> DEFINE piece == [b \in S |-> {b} \X (1 .. SizeOf[b])]
           T == {{b} \X (1 .. SizeOf[b]) : b \in S}
<1>1. IsFiniteSet(S)
  BY BlockAssumption, FS_Subset
<1>2. piece \in Surjection(S, T)
  BY DEF Surjection
<1>3. IsFiniteSet(T)
  BY <1>1, <1>2, FS_Surjection
<1>4. \A b \in S : IsFiniteSet({b}) /\ IsFiniteSet(1 .. SizeOf[b])
  BY FS_Singleton, FS_Interval, BlockAssumption
<1>5. \A b \in S : IsFiniteSet({b} \X (1 .. SizeOf[b]))
  BY <1>4, FS_Product
<1>6. \A t \in T : IsFiniteSet(t)
  BY <1>5
<1>7. IsFiniteSet(UNION T)
  BY <1>3, <1>6, FS_UNION
<1> QED
  BY <1>7, FS_CardinalityType DEF Bytes, Size

(* The size of two disjoint sets of blocks is the sum of their sizes.      *)
LEMMA SizeUnion ==
    ASSUME NEW S \in SUBSET Block, NEW T \in SUBSET Block, S \cap T = {}
    PROVE  Size(S \cup T) = Size(S) + Size(T)
<1>1. Bytes(S \cup T) = Bytes(S) \cup Bytes(T)
  BY DEF Bytes
<1>2. Bytes(S) \cap Bytes(T) = {}
  BY DEF Bytes
<1>3. /\ IsFiniteSet(Bytes(S)) /\ Size(S) \in Nat
      /\ IsFiniteSet(Bytes(T)) /\ Size(T) \in Nat
  BY SizeType
<1>4. Cardinality(Bytes(S) \cup Bytes(T)) =
        Cardinality(Bytes(S)) + Cardinality(Bytes(T)) - Cardinality(Bytes(S) \cap Bytes(T))
  BY <1>3, FS_Union
<1>5. Cardinality(Bytes(S) \cap Bytes(T)) = 0
  BY <1>2, FS_EmptySet
<1>6. /\ Size(S) = Cardinality(Bytes(S)) /\ Size(T) = Cardinality(Bytes(T))
      /\ Size(S \cup T) = Cardinality(Bytes(S \cup T))
  BY DEF Size
<1>7. Size(S \cup T) = Cardinality(Bytes(S) \cup Bytes(T))
  BY <1>1, <1>6, Zenon
<1> QED
  BY <1>3, <1>4, <1>5, <1>6, <1>7

(* The size of one block is the size of the set that holds it alone.       *)
LEMMA SizeOne ==
    ASSUME NEW b \in Block
    PROVE  Size({b}) = SizeOf[b]
<1>1. SizeOf[b] \in Nat
  BY BlockAssumption
<1>2. Bytes({b}) = {b} \X (1 .. SizeOf[b])
  BY DEF Bytes
<1>3. IsFiniteSet({b}) /\ Cardinality({b}) = 1
  BY FS_Singleton
<1>4. IsFiniteSet(1 .. SizeOf[b]) /\ Cardinality(1 .. SizeOf[b]) = SizeOf[b]
  BY <1>1, FS_Interval
<1>5. Cardinality({b} \X (1 .. SizeOf[b])) = Cardinality({b}) * Cardinality(1 .. SizeOf[b])
  BY <1>3, <1>4, FS_Product, Zenon
<1>6. Size({b}) = Cardinality(Bytes({b}))
  BY DEF Size
<1>7. Size({b}) = 1 * SizeOf[b]
  BY <1>2, <1>3, <1>4, <1>5, <1>6, Zenon
<1> QED
  BY <1>1, <1>7

(* Taking blocks out of a set takes their sizes out of its size.           *)
LEMMA SizeDifference ==
    ASSUME NEW S \in SUBSET Block, NEW T \in SUBSET S
    PROVE  /\ Size(S \ T) = Size(S) - Size(T)
           /\ Size(T) <= Size(S)
<1>1. Size((S \ T) \cup T) = Size(S \ T) + Size(T)
  BY SizeUnion
<1>2. (S \ T) \cup T = S
  OBVIOUS
<1>3. Size(S \ T) \in Nat /\ Size(T) \in Nat /\ Size(S) \in Nat
  BY SizeType
<1> QED
  BY <1>1, <1>2, <1>3

-----------------------------------------------------------------------------
(* A sent request that is still queued is a pending one, and no other is.  *)
SentArePending ==
    \A i \in DOMAIN requests_by_id :
        i \in sent <=> requests_by_id[i] \in pending_requests

PendingAreQueued == pending_requests \subseteq Queued

(* The inductive invariant. The limits need SizeAccounted to be exact, and *)
(* the assertions of remove need the two conjuncts above: a request is     *)
(* sent at most once while it is queued, because its id identifies it.     *)
QueueInv ==
    /\ QueueTypeOK
    /\ IndexesAgree
    /\ SentArePending
    /\ PendingAreQueued
    /\ PendingWithinSlots
    /\ SizeAccounted
    /\ FilesWithinLimit

(* A smaller pending set still is within the limits on number and files.   *)
LEMMA FewerPending ==
    ASSUME NEW S \in SUBSET Block, NEW T \in SUBSET S
    PROVE  /\ IsFiniteSet(S) /\ IsFiniteSet(T)
           /\ Cardinality(S) \in Nat /\ Cardinality(T) \in Nat
           /\ Cardinality(T) <= Cardinality(S)
           /\ IsFiniteSet(FileNames(S)) /\ IsFiniteSet(FileNames(T))
           /\ Cardinality(FileNames(S)) \in Nat
           /\ Cardinality(FileNames(T)) \in Nat
           /\ Cardinality(FileNames(T)) <= Cardinality(FileNames(S))
<1>1. IsFiniteSet(S)
  BY BlockAssumption, FS_Subset
<1>2. IsFiniteSet(T) /\ Cardinality(T) <= Cardinality(S)
  BY <1>1, FS_Subset
<1> DEFINE f == [b \in S |-> NameOf[b]]
<1>3. f \in Surjection(S, FileNames(S))
  BY DEF Surjection, FileNames
<1>4. IsFiniteSet(FileNames(S))
  BY <1>1, <1>3, FS_Surjection
<1>5. FileNames(T) \subseteq FileNames(S)
  BY DEF FileNames
<1>6. IsFiniteSet(FileNames(T)) /\ Cardinality(FileNames(T)) <= Cardinality(FileNames(S))
  BY <1>4, <1>5, FS_Subset
<1> QED
  BY <1>1, <1>2, <1>4, <1>6, FS_CardinalityType

(* Storing new requests, after dropping the old ones, keeps the invariant. *)
LEMMA StoreStep ==
    ASSUME QueueInv, NEW U \in SUBSET Block, store_outgoing_requests(U)
    PROVE  QueueInv'
<1> USE DEF QueueInv
<1>1. /\ Waiting \subseteq Queued /\ Waiting \subseteq Block
      /\ \A b \in Waiting : /\ requests_by_request[b] \in DOMAIN requests_by_id
                            /\ requests_by_id[requests_by_request[b]] = b
                            /\ requests_by_request[b] \in 1 .. request_id
  BY DEF Waiting, QueueTypeOK, IndexesAgree, Queued
<1>2. IsFiniteSet(U) /\ Cardinality(U) \in Nat
  BY BlockAssumption, FS_Subset, FS_CardinalityType
<1> DEFINE kept == {i \in DOMAIN requests_by_id :
                        \E b \in Waiting : requests_by_request[b] = i}
           new == Inserted(U)
<1>3. PICK ids \in requests_from_blocks(U) :
        /\ requests_by_request' = [b \in Waiting \cup new |->
               IF b \in new THEN ids[b] ELSE requests_by_request[b]]
        /\ requests_by_id' = [i \in kept \cup {ids[b] : b \in new} |->
               IF i \in kept THEN requests_by_id[i]
               ELSE CHOOSE b \in new : ids[b] = i]
  BY DEF store_outgoing_requests
<1>4. /\ new \subseteq U /\ new \subseteq Block /\ new \cap Waiting = {}
      /\ \A b \in new : /\ ids[b] \in (request_id + 1) .. (request_id + Cardinality(U))
                        /\ \A c \in new : ids[b] = ids[c] => b = c
  BY DEF Inserted, requests_from_blocks
<1>5. /\ request_id \in Nat /\ request_id' = request_id + Cardinality(U)
      /\ request_id' <= MaxRequestId
      /\ horizon' = horizon /\ sent' = sent
      /\ pending_requests' = pending_requests \cap Waiting
      /\ requested_size' = requested_size - Size(pending_requests \ Waiting)
  BY DEF store_outgoing_requests, QueueTypeOK, PendingKept, ReleasedSize, Expired
<1>6. \A i \in kept : /\ requests_by_id[i] \in Waiting
                      /\ requests_by_request[requests_by_id[i]] = i
                      /\ i \in 1 .. request_id
  BY <1>1
<1>7. /\ DOMAIN requests_by_id' = kept \cup {ids[b] : b \in new}
      /\ Queued' = Waiting \cup new
      /\ \A i \in kept : requests_by_id'[i] = requests_by_id[i]
      /\ \A b \in new : requests_by_request'[b] = ids[b]
      /\ \A b \in Waiting : requests_by_request'[b] = requests_by_request[b]
  BY <1>3, <1>4 DEF Queued
<1>8. \A b \in new : ids[b] \notin kept /\ ids[b] \notin sent
  BY <1>2, <1>4, <1>5, <1>6 DEF QueueTypeOK
<1>9. ASSUME NEW b \in new
      PROVE  requests_by_id'[ids[b]] = b
  <2>1. requests_by_id'[ids[b]] = CHOOSE c \in new : ids[c] = ids[b]
    BY <1>3, <1>8
  <2>2. \A c \in new : ids[c] = ids[b] => c = b
    BY <1>4
  <2> QED
    BY <2>1, <2>2
<1>10. QueueTypeOK'
  <2>1. /\ request_id' \in 0 .. MaxRequestId /\ horizon' \in 0 .. request_id'
        /\ sent' \subseteq 1 .. request_id'
    BY <1>2, <1>5, LimitAssumption DEF QueueTypeOK
  <2>2. \A i \in DOMAIN requests_by_id' :
            i \in 1 .. request_id' /\ requests_by_id'[i] \in Block
    BY <1>1, <1>2, <1>4, <1>5, <1>6, <1>7, <1>9
  <2>3. \A b \in Queued' : b \in Block /\ requests_by_request'[b] \in 1 .. request_id'
    BY <1>1, <1>2, <1>4, <1>5, <1>7
  <2>4. /\ requests_by_id' \in [DOMAIN requests_by_id' -> Block]
        /\ requests_by_request' \in [Queued' -> 1 .. request_id']
    BY <1>3, <2>2, <2>3 DEF Queued
  <2>5. requested_size' \in Nat
    BY <1>5, SizeDifference, SizeType DEF SizeAccounted, QueueTypeOK
  <2> QED
    BY <1>5, <2>1, <2>2, <2>3, <2>4, <2>5 DEF QueueTypeOK
<1>11. IndexesAgree'
  <2>1. \A i \in kept : /\ requests_by_id'[i] \in Queued'
                        /\ requests_by_request'[requests_by_id'[i]] = i
    BY <1>6, <1>7
  <2>2. \A b \in new : /\ requests_by_id'[ids[b]] \in Queued'
                       /\ requests_by_request'[requests_by_id'[ids[b]]] = ids[b]
                       /\ requests_by_request'[b] \in DOMAIN requests_by_id'
                       /\ requests_by_id'[requests_by_request'[b]] = b
    BY <1>7, <1>9
  <2>3. \A b \in Waiting : /\ requests_by_request'[b] \in DOMAIN requests_by_id'
                           /\ requests_by_id'[requests_by_request'[b]] = b
    BY <1>1, <1>7
  <2> QED
    BY <1>7, <2>1, <2>2, <2>3 DEF IndexesAgree
<1>12. SentArePending'
  <2>1. \A i \in kept : i \in sent' <=> requests_by_id'[i] \in pending_requests'
    BY <1>5, <1>6, <1>7 DEF SentArePending
  <2>2. \A b \in new : ids[b] \notin sent' /\ requests_by_id'[ids[b]] \notin pending_requests'
    BY <1>4, <1>5, <1>8, <1>9
  <2> QED
    BY <1>7, <2>1, <2>2 DEF SentArePending
<1>13. PendingAreQueued'
  BY <1>5, <1>7 DEF PendingAreQueued
<1>14. PendingWithinSlots' /\ FilesWithinLimit'
  <2>1. /\ Cardinality(pending_requests') <= Cardinality(pending_requests)
        /\ Cardinality(pending_requests') \in Nat
        /\ Cardinality(pending_requests) \in Nat
        /\ Cardinality(FileNames(pending_requests')) <= Cardinality(FileNames(pending_requests))
        /\ Cardinality(FileNames(pending_requests')) \in Nat
        /\ Cardinality(FileNames(pending_requests)) \in Nat
    BY <1>5, FewerPending DEF QueueTypeOK
  <2> QED
    BY <2>1, LimitAssumption DEF PendingWithinSlots, FilesWithinLimit, FileNames
<1>15. SizeAccounted'
  <2>1. pending_requests' = pending_requests \ (pending_requests \ Waiting)
    BY <1>5
  <2>2. /\ Size(pending_requests') = Size(pending_requests) - Size(pending_requests \ Waiting)
        /\ Size(pending_requests \ Waiting) \in Nat /\ Size(pending_requests) \in Nat
    BY <2>1, SizeDifference, SizeType DEF QueueTypeOK
  <2>3. requested_size' = Size(pending_requests') /\ requested_size' <= MaxStorageArea
    BY <1>5, <2>2, LimitAssumption DEF SizeAccounted
  <2> QED
    BY <2>3 DEF SizeAccounted, Size, Bytes
<1> QED
  BY <1>10, <1>11, <1>12, <1>13, <1>14, <1>15

-----------------------------------------------------------------------------
(* What update_pending_requests hands out ends with a last request q that  *)
(* passed the three tests, and consists of q and of every request before q *)
(* that was not pending: the loop stops, it does not skip.                 *)
LEMMA LastProcessed ==
    ASSUME QueueInv, Processed # {}
    PROVE  \E q \in Processed :
              /\ Admitted(q)
              /\ Processed = (Before(q) \ pending_requests) \cup {q}
<1>1. Processed \in SUBSET Block /\ Queued \subseteq Block
  BY DEF Processed, Visited, QueueInv, QueueTypeOK
<1>2. PICK q \in Processed : \A p \in Processed : Order[p] <= Order[q]
  BY <1>1, LastBlock
<1>3. \A p \in Queued : Order[p] \in Nat
  BY <1>1, BlockAssumption
<1>4. q \in Queued /\ q \notin pending_requests /\ Admitted(q)
  BY <1>3 DEF Processed, Visited
<1>5. ASSUME NEW p \in Processed
      PROVE  p \in (Before(q) \ pending_requests) \cup {q}
  <2>1. p \in Queued /\ p \notin pending_requests
    BY DEF Processed, Visited
  <2>2. Order[p] < Order[q] \/ Order[p] = Order[q]
    BY <1>2, <1>3, <1>4, <2>1
  <2>3. Order[p] = Order[q] => p = q
    BY <1>1, <1>4, <2>1, BlockAssumption
  <2> QED
    BY <2>1, <2>2, <2>3 DEF Before
<1>6. ASSUME NEW p \in Before(q) \ pending_requests
      PROVE  p \in Processed
  <2>1. p \in Queued /\ Order[p] < Order[q]
    BY DEF Before
  <2>2. \A r \in Queued : Order[r] <= Order[p] => Order[r] <= Order[q]
    BY <1>3, <1>4, <2>1
  <2>3. \A r \in Queued : Order[r] <= Order[q] => Admitted(r)
    BY DEF Processed, Visited
  <2>4. p \in Visited
    BY <2>1, <2>2, <2>3 DEF Visited
  <2> QED
    BY <2>4 DEF Processed
<1> QED
  BY <1>4, <1>5, <1>6

(* A file among the processed requests that was not pending has a first    *)
(* processed request: the one at which its name was new.                   *)
LEMMA FirstOfFile ==
    ASSUME QueueInv, NEW p \in Processed, NEW S,
           NameOf[p] \notin FileNames(pending_requests \cup S)
    PROVE  \E r \in Processed :
              /\ NameOf[r] = NameOf[p]
              /\ NameOf[r] \notin FileNames(pending_requests \cup Before(r))
<1> DEFINE T == {r \in Processed : NameOf[r] = NameOf[p]}
<1>1. T \in SUBSET Block /\ T # {} /\ Queued \subseteq Block
  BY DEF Processed, Visited, QueueInv, QueueTypeOK
<1>2. PICK r \in T : \A x \in T : Order[r] <= Order[x]
  BY <1>1, FirstBlock
<1>3. ASSUME NEW x \in Before(r), NameOf[x] = NameOf[p], x \notin pending_requests
      PROVE  FALSE
  <2>1. /\ x \in Queued /\ Order[x] < Order[r] /\ r \in Queued
        /\ \A y \in Queued : Order[y] \in Nat
    BY <1>1, BlockAssumption DEF Before, Processed, Visited
  <2>2. \A y \in Queued : Order[y] <= Order[x] => Order[y] <= Order[r]
    BY <2>1
  <2>3. x \in Visited
    BY <2>1, <2>2 DEF Processed, Visited
  <2>4. x \in T
    BY <1>3, <2>3 DEF Processed
  <2>5. Order[r] <= Order[x]
    BY <1>2, <2>4
  <2> QED
    BY <2>1, <2>5
<1>4. \A x \in pending_requests : NameOf[x] # NameOf[p]
  BY DEF FileNames
<1> QED
  BY <1>2, <1>3, <1>4 DEF FileNames

(* The limit on files survives: look at the last request whose file was    *)
(* new when the loop reached it. It passed the test with fewer than        *)
(* max_files files, and every later request belongs to a known file.       *)
LEMMA FilesStep ==
    ASSUME QueueInv
    PROVE  Cardinality(FileNames(pending_requests \cup Processed)) <= MaxFiles
<1> DEFINE N == {r \in Processed :
                    NameOf[r] \notin FileNames(pending_requests \cup Before(r))}
           after == pending_requests \cup Processed
<1>1. Queued \subseteq Block /\ pending_requests \subseteq Block /\ Processed \subseteq Queued
  BY DEF Processed, Visited, QueueInv, QueueTypeOK
<1>2. CASE N = {}
  <2>1. \A p \in Processed : NameOf[p] \in FileNames(pending_requests)
    <3>1. SUFFICES ASSUME NEW p \in Processed, NameOf[p] \notin FileNames(pending_requests)
                   PROVE  FALSE
      OBVIOUS
    <3>2. pending_requests \cup {} = pending_requests
      OBVIOUS
    <3>3. NameOf[p] \notin FileNames(pending_requests \cup {})
      BY <3>1, <3>2
    <3> QED
      BY <1>2, <3>3, FirstOfFile
  <2>2. FileNames(after) = FileNames(pending_requests)
    BY <2>1 DEF FileNames
  <2> QED
    BY <2>2 DEF QueueInv, FilesWithinLimit
<1>3. CASE N # {}
  <2>1. PICK q \in N : \A p \in N : Order[p] <= Order[q]
    BY <1>1, <1>3, LastBlock
  <2> DEFINE known == pending_requests \cup Before(q)
  <2>2. /\ \A p \in Queued : Order[p] \in Nat
        /\ q \in Queued /\ q \in Processed
        /\ \A p \in Queued : Order[p] = Order[q] => p = q
    BY <1>1, BlockAssumption
  <2>3. \A p \in Before(q) : p \in after
    <3>1. SUFFICES ASSUME NEW p \in Before(q) PROVE p \in after
      OBVIOUS
    <3>2. p \in Queued /\ Order[p] < Order[q]
      BY DEF Before
    <3>3. \A r \in Queued : Order[r] <= Order[p] => Order[r] <= Order[q]
      BY <2>2, <3>2
    <3>4. p \in Visited
      BY <3>2, <3>3 DEF Processed, Visited
    <3> QED
      BY <3>4 DEF Processed
  <2>4. ASSUME NEW p \in Processed, NameOf[p] \notin FileNames(known), NameOf[p] # NameOf[q]
        PROVE  FALSE
    <3>1. PICK r \in Processed :
              /\ NameOf[r] = NameOf[p]
              /\ NameOf[r] \notin FileNames(pending_requests \cup Before(r))
      BY <2>4, FirstOfFile
    <3>2. r \in N /\ Order[r] <= Order[q] /\ r # q
      BY <2>1, <2>4, <3>1
    <3>3. r \in Before(q)
      BY <1>1, <2>2, <3>2 DEF Before
    <3> QED
      BY <2>4, <3>1, <3>3 DEF FileNames
  <2>5. FileNames(after) = FileNames(known) \cup {NameOf[q]}
    BY <2>2, <2>3, <2>4 DEF FileNames
  <2>6. FileAllowed(q)
    BY <2>2 DEF Processed, Visited, Admitted
  <2>7. Cardinality(FileNames(known)) < MaxFiles
    BY <2>1, <2>6 DEF FileAllowed
  <2>8. IsFiniteSet(FileNames(known)) /\ Cardinality(FileNames(known)) \in Nat
    BY <1>1, FewerPending DEF Before
  <2> HIDE DEF known, after
  <2>9. /\ Cardinality(FileNames(known) \cup {NameOf[q]}) \in Nat
        /\ Cardinality(FileNames(known) \cup {NameOf[q]}) <= Cardinality(FileNames(known)) + 1
    BY <2>8, OneMore
  <2>10. Cardinality(FileNames(after)) <= MaxFiles
    BY <2>5, <2>7, <2>8, <2>9, LimitAssumption
  <2> QED
    BY <2>10 DEF after
<1> QED
  BY <1>2, <1>3

(* Handing out requests keeps the invariant.                               *)
LEMMA UpdateStep ==
    ASSUME QueueInv, update_pending_requests
    PROVE  QueueInv'
<1> USE DEF QueueInv
<1>1. /\ Processed \subseteq Queued /\ Queued \subseteq Block
      /\ Processed \cap pending_requests = {}
      /\ pending_requests \subseteq Block
      /\ Processed \in SUBSET Block
  BY DEF Processed, Visited, QueueTypeOK
<1>2. /\ requests_by_id' = requests_by_id
      /\ requests_by_request' = requests_by_request
      /\ Queued' = Queued
      /\ request_id' = request_id /\ horizon' = horizon
      /\ pending_requests' = pending_requests \cup Processed
      /\ requested_size' = requested_size + Size(Processed)
      /\ sent' = sent \cup {requests_by_request[b] : b \in Processed}
  BY DEF update_pending_requests, Queued
<1>3. /\ Size(Processed) \in Nat /\ Size(pending_requests) \in Nat
      /\ Size(pending_requests \cup Processed) = Size(pending_requests) + Size(Processed)
  BY <1>1, SizeType, SizeUnion
<1>4. /\ IsFiniteSet(pending_requests) /\ Cardinality(pending_requests) \in Nat
      /\ IsFiniteSet(Processed) /\ Cardinality(Processed) \in Nat
  BY <1>1, BlockAssumption, FS_Subset, FS_CardinalityType
<1>5. /\ requested_size + Size(Processed) <= MaxStorageArea
      /\ Cardinality(pending_requests) + Cardinality(Processed) <= MaxPending
  <2>1. CASE Processed = {}
    <3>1. Bytes({}) = {}
      BY DEF Bytes
    <3>2. Size({}) = 0
      BY <3>1, FS_EmptySet DEF Size
    <3> QED
      BY <1>4, <2>1, <3>2, FS_EmptySet, LimitAssumption
      DEF SizeAccounted, PendingWithinSlots, QueueTypeOK
  <2>2. CASE Processed # {}
    <3>1. PICK q \in Processed :
              /\ Admitted(q)
              /\ Processed = (Before(q) \ pending_requests) \cup {q}
      BY <2>2, LastProcessed
    <3> DEFINE earlier == Before(q) \ pending_requests
    <3>2. q \in Block /\ q \notin earlier /\ earlier \in SUBSET Block
      BY <1>1, BlockAssumption DEF Before
    <3>3. Size(Processed) = Size(earlier) + SizeOf[q]
      <4>1. Size(earlier \cup {q}) = Size(earlier) + Size({q})
        BY <3>2, SizeUnion
      <4> QED
        BY <3>1, <3>2, <4>1, SizeOne
    <3>4. Cardinality(Processed) = Cardinality(earlier) + 1 /\ Cardinality(earlier) \in Nat
      <4>1. IsFiniteSet(earlier)
        BY <3>2, BlockAssumption, FS_Subset
      <4> QED
        BY <3>1, <3>2, <4>1, FS_AddElement, FS_CardinalityType
    <3>5. /\ requested_size + Size(earlier) + SizeOf[q] <= MaxStorageArea
          /\ Cardinality(earlier) < MaxPending - Cardinality(pending_requests)
      BY <3>1 DEF Admitted, SlotFree, SizeAllowed, free_slots
    <3>6. Size(earlier) \in Nat /\ SizeOf[q] \in Nat /\ requested_size \in Nat
      BY <3>2, SizeType, BlockAssumption DEF QueueTypeOK
    <3> QED
      BY <1>4, <3>3, <3>4, <3>5, <3>6, LimitAssumption
  <2> QED
    BY <2>1, <2>2
<1>6. QueueTypeOK'
  <2>1. {requests_by_request[b] : b \in Processed} \subseteq 1 .. request_id
    BY <1>1 DEF QueueTypeOK
  <2>2. requested_size' \in Nat
    BY <1>2, <1>3 DEF QueueTypeOK
  <2> QED
    BY <1>1, <1>2, <2>1, <2>2 DEF QueueTypeOK
<1>7. IndexesAgree' /\ PendingAreQueued'
  BY <1>1, <1>2 DEF IndexesAgree, PendingAreQueued
<1>8. SentArePending'
  <2>1. \A i \in DOMAIN requests_by_id :
            i \in {requests_by_request[b] : b \in Processed}
                <=> requests_by_id[i] \in Processed
    BY <1>1 DEF IndexesAgree
  <2> QED
    BY <1>2, <2>1 DEF SentArePending
<1>9. PendingWithinSlots'
  <2>1. Cardinality(pending_requests \cup Processed) =
            Cardinality(pending_requests) + Cardinality(Processed)
    BY <1>1, <1>4, DisjointUnion
  <2> QED
    BY <1>2, <1>5, <2>1 DEF PendingWithinSlots
<1>10. SizeAccounted'
  <2>1. requested_size' = Size(pending_requests') /\ requested_size' <= MaxStorageArea
    BY <1>2, <1>3, <1>5 DEF SizeAccounted
  <2> QED
    BY <2>1 DEF SizeAccounted, Size, Bytes
<1>11. FilesWithinLimit'
  BY <1>2, FilesStep DEF FilesWithinLimit, FileNames
<1> QED
  BY <1>6, <1>7, <1>8, <1>9, <1>10, <1>11

-----------------------------------------------------------------------------
(* The assertions of remove follow from the invariant.                     *)
LEMMA AssertsFollow ==
    ASSUME QueueInv
    PROVE  RemoveAssertsHold
<1> SUFFICES ASSUME NEW id \in sent \cap DOMAIN requests_by_id
             PROVE  /\ requests_by_id[id] \in Queued
                    /\ requests_by_id[id] \in pending_requests
                    /\ requested_size >= SizeOf[requests_by_id[id]]
  BY DEF RemoveAssertsHold
<1> DEFINE b == requests_by_id[id]
<1>1. b \in Queued /\ b \in pending_requests /\ b \in Block
  BY DEF QueueInv, IndexesAgree, SentArePending, QueueTypeOK
<1>2. Size({b}) <= Size(pending_requests)
  BY <1>1, SizeDifference DEF QueueInv, QueueTypeOK
<1>3. Size({b}) = SizeOf[b] /\ Size(pending_requests) \in Nat /\ SizeOf[b] \in Nat
  BY <1>1, SizeOne, SizeType, BlockAssumption DEF QueueInv, QueueTypeOK
<1> QED
  BY <1>1, <1>2, <1>3 DEF QueueInv, SizeAccounted

(* Removing an answered request keeps the invariant.                       *)
LEMMA RemoveStep ==
    ASSUME QueueInv, NEW id \in sent, remove(id)
    PROVE  QueueInv'
<1> USE DEF QueueInv
<1>1. request_id' = request_id /\ horizon' = horizon /\ sent' = sent \ {id}
  BY DEF remove
<1>2. CASE id \notin DOMAIN requests_by_id
  <2>1. /\ requests_by_id' = requests_by_id
        /\ requests_by_request' = requests_by_request
        /\ pending_requests' = pending_requests
        /\ requested_size' = requested_size
    BY <1>2 DEF remove
  <2>2. QueueTypeOK' /\ IndexesAgree' /\ PendingAreQueued'
    BY <1>1, <2>1 DEF QueueTypeOK, IndexesAgree, PendingAreQueued, Queued
  <2>3. SentArePending'
    BY <1>1, <1>2, <2>1 DEF SentArePending
  <2>4. PendingWithinSlots' /\ SizeAccounted' /\ FilesWithinLimit'
    BY <2>1 DEF PendingWithinSlots, SizeAccounted, FilesWithinLimit, Size, Bytes, FileNames
  <2> QED
    BY <2>2, <2>3, <2>4
<1>3. CASE id \in DOMAIN requests_by_id
  <2> DEFINE b == requests_by_id[id]
  <2>1. /\ requests_by_id' = [i \in DOMAIN requests_by_id \ {id} |-> requests_by_id[i]]
        /\ requests_by_request' = [c \in Queued \ {b} |-> requests_by_request[c]]
        /\ pending_requests' = pending_requests \ {b}
        /\ requested_size' = requested_size - SizeOf[b]
    BY <1>3 DEF remove, AfterRemove
  <2>2. /\ DOMAIN requests_by_id' = DOMAIN requests_by_id \ {id}
        /\ \A i \in DOMAIN requests_by_id' : requests_by_id'[i] = requests_by_id[i]
        /\ Queued' = Queued \ {b}
        /\ \A c \in Queued' : requests_by_request'[c] = requests_by_request[c]
    BY <2>1 DEF Queued
  <2>3. /\ b \in pending_requests /\ b \in Block
        /\ requested_size >= SizeOf[b] /\ SizeOf[b] \in Nat
        /\ requests_by_request[b] = id
    BY <1>3, AssertsFollow, BlockAssumption
    DEF RemoveAssertsHold, QueueTypeOK, IndexesAgree
  <2>4. QueueTypeOK'
    <3>1. requested_size' \in Nat
      BY <2>1, <2>3 DEF QueueTypeOK
    <3>2. /\ requests_by_id' \in [DOMAIN requests_by_id' -> Block]
          /\ requests_by_request' \in [Queued' -> 1 .. request_id']
      BY <1>1, <2>1, <2>2 DEF QueueTypeOK
    <3> QED
      BY <1>1, <2>1, <2>2, <3>1, <3>2 DEF QueueTypeOK
  <2>5. IndexesAgree'
    BY <2>2, <2>3 DEF IndexesAgree
  <2>6. SentArePending' /\ PendingAreQueued'
    <3>1. \A i \in DOMAIN requests_by_id \ {id} : requests_by_id[i] # b
      BY <2>3 DEF IndexesAgree
    <3> QED
      BY <1>1, <2>1, <2>2, <3>1 DEF SentArePending, PendingAreQueued
  <2>7. PendingWithinSlots' /\ FilesWithinLimit'
    <3>1. /\ Cardinality(pending_requests') <= Cardinality(pending_requests)
          /\ Cardinality(pending_requests') \in Nat
          /\ Cardinality(pending_requests) \in Nat
          /\ Cardinality(FileNames(pending_requests')) <= Cardinality(FileNames(pending_requests))
          /\ Cardinality(FileNames(pending_requests')) \in Nat
          /\ Cardinality(FileNames(pending_requests)) \in Nat
      BY <2>1, FewerPending DEF QueueTypeOK
    <3> QED
      BY <3>1, LimitAssumption DEF PendingWithinSlots, FilesWithinLimit, FileNames
  <2>8. SizeAccounted'
    <3>1. /\ Size(pending_requests \ {b}) = Size(pending_requests) - Size({b})
          /\ Size({b}) = SizeOf[b] /\ Size(pending_requests) \in Nat
      BY <2>3, SizeDifference, SizeOne, SizeType DEF QueueTypeOK
    <3>2. requested_size' = Size(pending_requests') /\ requested_size' <= MaxStorageArea
      BY <2>1, <2>3, <3>1, LimitAssumption DEF SizeAccounted
    <3> QED
      BY <3>2 DEF SizeAccounted, Size, Bytes
  <2> QED
    BY <2>4, <2>5, <2>6, <2>7, <2>8
<1> QED
  BY <1>2, <1>3

(* The passing of time, and a step that leaves the queue alone, keep the   *)
(* invariant.                                                              *)
LEMMA QuietStep ==
    ASSUME QueueInv, TimePasses \/ UNCHANGED queue
    PROVE  QueueInv'
<1>1. /\ requests_by_id' = requests_by_id
      /\ requests_by_request' = requests_by_request
      /\ pending_requests' = pending_requests
      /\ requested_size' = requested_size
      /\ request_id' = request_id /\ sent' = sent
      /\ horizon' \in 0 .. request_id
  BY DEF TimePasses, queue, QueueInv, QueueTypeOK
<1>2. QueueTypeOK' /\ IndexesAgree' /\ PendingAreQueued' /\ SentArePending'
  BY <1>1 DEF QueueInv, QueueTypeOK, IndexesAgree, PendingAreQueued, SentArePending, Queued
<1>3. PendingWithinSlots' /\ SizeAccounted' /\ FilesWithinLimit'
  BY <1>1 DEF QueueInv, PendingWithinSlots, SizeAccounted, FilesWithinLimit,
              Size, Bytes, FileNames
<1> QED
  BY <1>2, <1>3 DEF QueueInv

(* The empty queue satisfies the invariant.                                *)
LEMMA EmptyQueue ==
    ASSUME QueueInit
    PROVE  QueueInv
<1> USE DEF QueueInit
<1>1. Bytes({}) = {} /\ FileNames({}) = {}
  BY DEF Bytes, FileNames
<1>2. Size({}) = 0 /\ Cardinality(FileNames({})) = 0 /\ Cardinality({}) = 0
  BY <1>1, FS_EmptySet DEF Size
<1>3. QueueTypeOK /\ IndexesAgree /\ SentArePending /\ PendingAreQueued
  BY LimitAssumption
  DEF QueueTypeOK, IndexesAgree, SentArePending, PendingAreQueued, Queued
<1>4. PendingWithinSlots /\ SizeAccounted /\ FilesWithinLimit
  BY <1>2, LimitAssumption DEF PendingWithinSlots, SizeAccounted, FilesWithinLimit
<1> QED
  BY <1>3, <1>4 DEF QueueInv

-----------------------------------------------------------------------------
(* The invariant holds in every behaviour of the queue.                    *)
THEOREM QueueInvariant == QueueSpec => []QueueInv
<1>1. QueueInit => QueueInv
  BY EmptyQueue
<1>2. QueueInv /\ [QueueNext]_queue => QueueInv'
  <2> SUFFICES ASSUME QueueInv, [QueueNext]_queue PROVE QueueInv'
    OBVIOUS
  <2>1. CASE \E U \in SUBSET Block : store_outgoing_requests(U)
    BY <2>1, StoreStep
  <2>2. CASE update_pending_requests
    BY <2>2, UpdateStep
  <2>3. CASE \E id \in sent : remove(id)
    BY <2>3, RemoveStep
  <2>4. CASE TimePasses \/ UNCHANGED queue
    BY <2>4, QuietStep
  <2> QED
    BY <2>1, <2>2, <2>3, <2>4 DEF QueueNext
<1> QED
  BY <1>1, <1>2, PTL DEF QueueSpec

(* The queue's fields keep their types, so no subtraction on its unsigned  *)
(* counters underflows.                                                    *)
THEOREM QueueTypeCorrect == QueueSpec => []QueueTypeOK
<1>1. QueueInv => QueueTypeOK
  BY DEF QueueInv
<1> QED
  BY <1>1, QueueInvariant, PTL

(* The two maps of OutgoingRequests are inverse to each other, always.     *)
THEOREM IndexesAlwaysAgree == QueueSpec => []IndexesAgree
<1>1. QueueInv => IndexesAgree
  BY DEF QueueInv
<1> QED
  BY <1>1, QueueInvariant, PTL

(* No assertion of OutgoingRequests::remove ever fails.                    *)
THEOREM RemoveAssertsAlwaysHold == QueueSpec => []RemoveAssertsHold
<1>1. QueueInv => RemoveAssertsHold
  BY AssertsFollow
<1> QED
  BY <1>1, QueueInvariant, PTL

(* What update_pending_requests promises, whatever arrives, expires or is  *)
(* disconnected in between: at most max_pending requests are pending,      *)
THEOREM SlotsRespected == QueueSpec => []PendingWithinSlots
<1>1. QueueInv => PendingWithinSlots
  BY DEF QueueInv
<1> QED
  BY <1>1, QueueInvariant, PTL

(* for at most max_storage_area bytes, the sum of the pending blocks,      *)
THEOREM SizeRespected == QueueSpec => []SizeAccounted
<1>1. QueueInv => SizeAccounted
  BY DEF QueueInv
<1> QED
  BY <1>1, QueueInvariant, PTL

(* and from at most max_files files.                                       *)
THEOREM FilesRespected == QueueSpec => []FilesWithinLimit
<1>1. QueueInv => FilesWithinLimit
  BY DEF QueueInv
<1> QED
  BY <1>1, QueueInvariant, PTL
=============================================================================
