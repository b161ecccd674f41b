-------------------------- MODULE FileWriterProofs --------------------------
(***************************************************************************)
(* Proofs about one file writer, for any number of calls, chunks and       *)
(* errors: the exclusion of writes and consolidation by the one number in  *)
(* WritingChunks, the fate of the data of a write that returned Ok, and    *)
(* the refinement of ChunkedFile.                                          *)
(***************************************************************************)
EXTENDS FileWriter, FiniteSetTheorems, TLAPS

Stage == Writing \union {"idle", "copy", "remove"}
Call == [pc : Stage, pos : Nat, data : Data \union {None}, alone : BOOLEAN]

(* A call is idle or carries data, writes happen in WritingChunks and the  *)
(* one consolidation in Consolidating; overlapping writes of a chunk carry *)
(* the same data.                                                          *)
CallInv ==
    /\ \A t \in Task : call[t].pc = "idle" => call[t] = Idle
    /\ \A t \in Task : call[t].pc \in Writing => state = "WritingChunks" /\ call[t].data \in Data
    /\ \A t \in Task : call[t].pc \in {"copy", "remove"} => state = "Consolidating"
    /\ \A t, u \in Task :
          call[t].pc \in {"copy", "remove"} /\ call[u].pc \in {"copy", "remove"} => t = u
    /\ \A t, u \in Task :
          call[t].pc \in Writing /\ call[u].pc \in Writing /\ call[t].pos = call[u].pos
            => call[t].data = call[u].data
    /\ \A t \in Task : call[t].pc = "remove" => copied > 0

(* The number counts the writes under way and those that leaked, and a     *)
(* flag that is set stands for one of them.                                *)
CountInv ==
    /\ leaked <= errors
    /\ state = "WritingChunks" => writing = Cardinality(Writers) + leaked
    /\ state = "Consolidating" => writing = 0 /\ leaked = 0
    /\ \A p \in Chunk : writing_chunk[p] =>
          leaked > 0 \/ \E t \in Task : call[t].pc \in Writing /\ call[t].pos = p

-----------------------------------------------------------------------------
(* There is a whole number of chunks, and an accepted offset is in one.    *)
LEMMA ChunkCount == n_of_chunks \in Nat
BY SizeAssumption DEF n_of_chunks

LEMMA AcceptedChunk ==
    ASSUME NEW offset \in Nat, NEW len, Accepted(offset, len)
    PROVE  offset \div ChunkSize \in Chunk
<1> DEFINE k == offset \div ChunkSize
           n == (FileSize + ChunkSize - 1) \div ChunkSize
<1>1. /\ ChunkSize \in Nat \ {0} /\ FileSize \in Nat /\ offset < FileSize
      /\ offset % ChunkSize = 0
  BY SizeAssumption DEF Accepted
<1>2. k \in Nat /\ n \in Nat
  BY <1>1
<1>3. offset = k * ChunkSize
  BY <1>1
<1>4. FileSize + ChunkSize - 1 < (n + 1) * ChunkSize
  BY <1>1
<1>5. k < n
  BY <1>1, <1>2, <1>3, <1>4
<1> QED
  BY <1>2, <1>5 DEF Chunk, n_of_chunks

-----------------------------------------------------------------------------
(* What a step leaves of the calls: it moves one on, ends one or starts    *)
(* one.                                                                    *)
LEMMA GotoEffect ==
    ASSUME TypeOK, NEW t \in Task, NEW pc \in Stage, Goto(t, pc)
    PROVE  /\ call' \in [Task -> Call]
           /\ \A u \in Task : u # t => call'[u] = call[u]
           /\ call'[t].pc = pc /\ call'[t].pos = call[t].pos
           /\ call'[t].data = call[t].data /\ call'[t].alone = call[t].alone
BY DEF TypeOK, Goto, Call, Stage, Writing

LEMMA ReturnEffect ==
    ASSUME TypeOK, NEW t \in Task, Return(t)
    PROVE  /\ call' \in [Task -> Call]
           /\ \A u \in Task : u # t => call'[u] = call[u]
           /\ call'[t] = Idle /\ call'[t].pc = "idle"
BY DEF TypeOK, Return, Call, Stage, Writing, Idle

LEMMA StartWriteEffect ==
    ASSUME TypeOK, NEW t \in Task, NEW offset \in Nat, NEW len, NEW d \in Data,
           StartWrite(t, offset, len, d)
    PROVE  LET p == offset \div ChunkSize
           IN  /\ p \in Chunk /\ p \in Nat /\ call' \in [Task -> Call]
               /\ call[t] = Idle /\ call[t].pc = "idle"
               /\ call'[t].pc = "open" /\ call'[t].pos = p /\ call'[t].data = d
               /\ call'[t].alone => WritersOf(p) = {}
               /\ \A u \in Task : u # t =>
                    /\ call'[u].pc = call[u].pc /\ call'[u].pos = call[u].pos
                    /\ call'[u].data = call[u].data
                    /\ u \notin WritersOf(p) => call'[u] = call[u]
                    /\ u \in WritersOf(p) => ~call'[u].alone
<1> DEFINE p == offset \div ChunkSize
           new == [pc |-> "open", pos |-> p, data |-> d, alone |-> WritersOf(p) = {}]
           other(u) == [call[u] EXCEPT !.alone = @ /\ u \notin WritersOf(p)]
<1>1. p \in Chunk
  BY AcceptedChunk DEF StartWrite
<1>2. p \in Nat
  BY <1>1, ChunkCount DEF Chunk
<1>3. call' = [u \in Task |-> IF u = t THEN new ELSE other(u)]
  BY DEF StartWrite
<1>4. new \in Call
  BY <1>2 DEF Call, Stage, Writing
<1>5. ASSUME NEW u \in Task
      PROVE  /\ other(u) \in Call /\ other(u).pc = call[u].pc /\ other(u).pos = call[u].pos
             /\ other(u).data = call[u].data
             /\ other(u).alone = (call[u].alone /\ u \notin WritersOf(p))
             /\ u \notin WritersOf(p) => other(u) = call[u]
  <2>1. call[u] \in Call
    BY DEF TypeOK, Call, Stage
  <2> QED
    BY <2>1 DEF Call
<1>6. call[t] = Idle /\ call[t].pc = "idle"
  BY DEF StartWrite, Idle
<1> HIDE DEF other
<1> QED
  BY <1>1, <1>2, <1>3, <1>4, <1>5, <1>6

-----------------------------------------------------------------------------
(* The parts keep their contents' type when a half of one is written.      *)
LEMMA PartType ==
    ASSUME TypeOK, NEW p \in Chunk, NEW h \in 1 .. 2, NEW d \in Data \union {None},
           part[p] # NoFile, part' = [part EXCEPT ![p][h] = d]
    PROVE  /\ part' \in [Chunk -> Content]
           /\ \A q \in Chunk : q # p => part'[q] = part[q]
           /\ part'[p] # NoFile /\ part'[p][h] = d
           /\ \A g \in 1 .. 2 : g # h => part'[p][g] = part[p][g]
<1> DEFINE c == [part[p] EXCEPT ![h] = d]
<1>1. part[p] \in [1 .. 2 -> Data \union {None}]
  BY DEF TypeOK, Content
<1>2. c \in [1 .. 2 -> Data \union {None}] /\ c[h] = d /\ \A g \in 1 .. 2 : g # h => c[g] = part[p][g]
  BY <1>1
<1>3. c # NoFile
  BY <1>2 DEF NoFile
<1>4. part' = [part EXCEPT ![p] = c] /\ part \in [Chunk -> Content]
  BY DEF TypeOK
<1> HIDE DEF c
<1> QED
  BY <1>2, <1>3, <1>4 DEF Content

(* A write past its opening has a chunk file, of its data or not yet       *)
(* written; two halves that are there are of one write, and one that is    *)
(* not will be written, unless a write failed.                             *)
PartInv ==
    /\ \A t \in Task : call[t].pc \in Writing \ {"open"} =>
          /\ part[call[t].pos] # NoFile
          /\ \A h \in 1 .. 2 : part[call[t].pos][h] \in {None, call[t].data}
    /\ \A p \in Chunk : part[p] # NoFile =>
          /\ part[p][1] # None /\ part[p][2] # None => part[p][1] = part[p][2]
          /\ leaked = 0 /\ part[p][1] = None =>
               \E t \in Task : call[t].pc = "first" /\ call[t].pos = p
          /\ leaked = 0 /\ part[p][2] = None =>
               \E t \in Task : call[t].pc \in {"first", "second"} /\ call[t].pos = p

(* A consolidation has copied whole chunks and removed what it copied.     *)
CopyInv ==
    /\ state = "Consolidating" =>
         /\ file \in [Chunk -> Content]
         /\ \A p \in Chunk : p < copied => Whole(file[p])
    /\ \A t \in Task : call[t].pc = "copy" =>
         \A p \in Chunk : p < copied => part[p] = NoFile
    /\ \A t \in Task : call[t].pc = "remove" =>
         \A p \in Chunk : p < copied - 1 => part[p] = NoFile

WriterInv == TypeOK /\ CallInv /\ CountInv /\ PartInv /\ CopyInv

(* The variables keep their types.                                         *)
LEMMA TypeStep ==
    ASSUME WriterInv, [Next]_vars
    PROVE  TypeOK'
<1> USE DEF WriterInv
<1>0. \A t \in Task : call[t] \in Call
  BY DEF TypeOK, Call, Stage
<1>a. ASSUME call' \in [Task -> Call],
             \A t \in Task : call'[t].pc \in Writing => call'[t].pos \in Chunk
      PROVE  /\ call' \in [Task -> [pc : Writing \union {"idle", "copy", "remove"},
                                    pos : Nat, data : Data \union {None}, alone : BOOLEAN]]
             /\ \A t \in Writers' : call'[t].pos \in Chunk
  BY <1>a DEF Call, Stage, Writers
<1>b. \A t \in Task : call[t].pc \in Writing => call[t].pos \in Chunk
  BY DEF TypeOK, Writers
<1>1. ASSUME NEW t \in Task, NEW offset \in Nat, NEW len, NEW d \in Data,
             StartWrite(t, offset, len, d)
      PROVE  TypeOK'
  <2>1. /\ call' \in [Task -> Call] /\ offset \div ChunkSize \in Chunk
        /\ \A u \in Task : call'[u].pc \in Writing => call'[u].pos \in Chunk
    BY <1>1, <1>b, StartWriteEffect
  <2>2. UNCHANGED <<state, part, file, copied, errors, leaked, written>>
    BY <1>1 DEF StartWrite
  <2>3. writing' \in Nat /\ writing_chunk' \in [Chunk -> BOOLEAN]
    BY <1>1, <2>1 DEF StartWrite, TypeOK
  <2> QED
    BY <1>a, <2>1, <2>2, <2>3 DEF TypeOK
<1>2. ASSUME NEW t \in Task, OpenChunk(t) PROVE TypeOK'
  <2>1. /\ call' \in [Task -> Call]
        /\ \A u \in Task : call'[u].pc \in Writing => call'[u].pos \in Chunk
        /\ call[t].pos \in Chunk
    BY <1>2, <1>b, GotoEffect DEF OpenChunk, Stage, Writing
  <2>2. UNCHANGED <<state, writing, writing_chunk, file, copied, errors, leaked>>
    BY <1>2 DEF OpenChunk
  <2>3. Empty \in Content
    BY DEF Empty, Content
  <2>4. part' \in [Chunk -> Content] /\ written' \in [Chunk -> Data \union {None}]
    BY <1>2, <2>1, <2>3 DEF OpenChunk, Unwritten, TypeOK
  <2> QED
    BY <1>a, <2>1, <2>2, <2>4 DEF TypeOK
<1>3. ASSUME NEW t \in Task, WriteFirst(t) \/ WriteSecond(t) PROVE TypeOK'
  <2>1. /\ call' \in [Task -> Call]
        /\ \A u \in Task : call'[u].pc \in Writing => call'[u].pos \in Chunk
    BY <1>3, <1>b, GotoEffect DEF WriteFirst, WriteSecond, WriteHalf, Stage, Writing
  <2>2. UNCHANGED <<state, writing, writing_chunk, file, copied, errors, leaked, written>>
    BY <1>3 DEF WriteFirst, WriteSecond, WriteHalf
  <2>3. PICK h \in 1 .. 2 : part' = [part EXCEPT ![call[t].pos][h] = call[t].data]
    BY <1>3 DEF WriteFirst, WriteSecond, WriteHalf
  <2>4. call[t].pc \in Writing \ {"open"} /\ call[t].data \in Data
    BY <1>3 DEF WriteFirst, WriteSecond, WriteHalf, Writing, CallInv
  <2>5. call[t].pos \in Chunk /\ part[call[t].pos] # NoFile
    BY <1>b, <2>4 DEF PartInv
  <2>6. part' \in [Chunk -> Content]
    BY <2>3, <2>4, <2>5, PartType
  <2> QED
    BY <1>a, <2>1, <2>2, <2>6 DEF TypeOK
<1>4. ASSUME NEW t \in Task, OpenFails(t) \/ WriteFails(t) PROVE TypeOK'
  <2>1. /\ call' \in [Task -> Call]
        /\ \A u \in Task : call'[u].pc \in Writing => call'[u].pos \in Chunk
        /\ call[t].pos \in Chunk
    BY <1>4, <1>b, ReturnEffect DEF OpenFails, WriteFails, Writing
  <2>2. UNCHANGED <<state, writing, part, file, copied, written>>
    BY <1>4 DEF OpenFails, WriteFails
  <2>3. writing_chunk' \in [Chunk -> BOOLEAN]
    BY <1>4, <2>1 DEF OpenFails, WriteFails, TypeOK
  <2>4. errors < MaxErrors /\ errors' = errors + 1 /\ leaked' = leaked + 1
    BY <1>4 DEF OpenFails, WriteFails, Fail
  <2>5. errors' \in 0 .. MaxErrors /\ leaked' \in 0 .. MaxErrors
    BY <2>4, SizeAssumption DEF TypeOK, CountInv
  <2> QED
    BY <1>a, <2>1, <2>2, <2>3, <2>5 DEF TypeOK
<1>5. ASSUME NEW t \in Task, Finish(t) PROVE TypeOK'
  <2>1. /\ call' \in [Task -> Call]
        /\ \A u \in Task : call'[u].pc \in Writing => call'[u].pos \in Chunk
        /\ call[t].pos \in Chunk
    BY <1>5, <1>b, ReturnEffect DEF Finish, Writing
  <2>2. UNCHANGED <<state, part, file, copied, errors, leaked>>
    BY <1>5 DEF Finish
  <2>3. t \in Writers /\ IsFiniteSet(Writers) /\ state = "WritingChunks"
    BY <1>5, SizeAssumption, FS_Subset DEF Finish, Writers, Writing
  <2>4. Cardinality(Writers) \in Nat /\ Cardinality(Writers) # 0
    BY <2>3, FS_CardinalityType, FS_EmptySet
  <2>5. writing' \in Nat
    BY <1>5, <2>3, <2>4 DEF Finish, Released, CountInv, TypeOK
  <2>6. writing_chunk' \in [Chunk -> BOOLEAN] /\ written' \in [Chunk -> Data \union {None}]
    BY <1>0, <1>5, <2>1 DEF Finish, TypeOK, Call
  <2> QED
    BY <1>a, <2>1, <2>2, <2>5, <2>6 DEF TypeOK
<1>6. ASSUME NEW t \in Task, StartConsolidate(t) PROVE TypeOK'
  <2>1. /\ call' \in [Task -> Call]
        /\ \A u \in Task : call'[u].pc \in Writing => call'[u].pos \in Chunk
    BY <1>6, <1>b, GotoEffect DEF StartConsolidate, Stage, Writing
  <2>2. UNCHANGED <<writing, writing_chunk, part, errors, leaked, written>>
    BY <1>6 DEF StartConsolidate
  <2>3. Empty \in Content /\ n_of_chunks \in Nat
    BY ChunkCount DEF Empty, Content
  <2>4. /\ state' = "Consolidating" /\ copied' \in 0 .. n_of_chunks
        /\ file' = NoFile \/ file' \in [Chunk -> Content]
    BY <1>6, <2>3 DEF StartConsolidate, TypeOK
  <2> QED
    BY <1>a, <2>1, <2>2, <2>4 DEF TypeOK
<1>7. ASSUME NEW t \in Task, CopyChunk(t) PROVE TypeOK'
  <2>1. /\ call' \in [Task -> Call]
        /\ \A u \in Task : call'[u].pc \in Writing => call'[u].pos \in Chunk
    BY <1>7, <1>b, GotoEffect DEF CopyChunk, Stage, Writing
  <2>2. UNCHANGED <<state, writing, writing_chunk, part, errors, leaked, written>>
    BY <1>7 DEF CopyChunk
  <2>3. copied \in Chunk /\ copied + 1 \in 0 .. n_of_chunks
    BY <1>7, ChunkCount DEF CopyChunk, TypeOK, Chunk
  <2>4. file \in [Chunk -> Content]
    BY <1>7 DEF CopyChunk, CallInv, CopyInv
  <2>5. file' \in [Chunk -> Content] /\ copied' \in 0 .. n_of_chunks
    BY <1>7, <2>3, <2>4 DEF CopyChunk, SeekPosition, TypeOK
  <2> QED
    BY <1>a, <2>1, <2>2, <2>5 DEF TypeOK
<1>8. ASSUME NEW t \in Task, RemoveChunk(t) PROVE TypeOK'
  <2>1. /\ call' \in [Task -> Call]
        /\ \A u \in Task : call'[u].pc \in Writing => call'[u].pos \in Chunk
    BY <1>8, <1>b, GotoEffect DEF RemoveChunk, Stage, Writing
  <2>2. UNCHANGED <<state, writing, writing_chunk, file, copied, errors, leaked, written>>
    BY <1>8 DEF RemoveChunk
  <2>3. part' \in [Chunk -> Content]
    BY <1>8 DEF RemoveChunk, TypeOK, Content
  <2> QED
    BY <1>a, <2>1, <2>2, <2>3 DEF TypeOK
<1>9. ASSUME NEW t \in Task, ChunkMissing(t) \/ CopyFails(t) \/ EndConsolidate(t) PROVE TypeOK'
  <2>1. /\ call' \in [Task -> Call]
        /\ \A u \in Task : call'[u].pc \in Writing => call'[u].pos \in Chunk
    BY <1>9, <1>b, ReturnEffect DEF ChunkMissing, CopyFails, EndConsolidate, Writing
  <2>2. /\ UNCHANGED <<writing_chunk, part, file, leaked>>
        /\ state' \in {"WritingChunks", "Consolidating"} /\ writing' \in Nat
        /\ copied' \in 0 .. n_of_chunks /\ errors' \in 0 .. MaxErrors
        /\ written' \in [Chunk -> Data \union {None}]
    BY <1>9, ChunkCount, SizeAssumption DEF ChunkMissing, CopyFails, EndConsolidate, Fail, TypeOK
  <2> QED
    BY <1>a, <2>1, <2>2 DEF TypeOK
<1>10. CASE UNCHANGED vars
  BY <1>10 DEF vars, TypeOK, Writers
<1> QED
  BY <1>1, <1>2, <1>3, <1>4, <1>5, <1>6, <1>7, <1>8, <1>9, <1>10
  DEF Next, Start, Step, Error

(* Writers are counted: a write that starts adds one, one that ends takes  *)
(* itself away.                                                            *)
LEMMA WritersFinite ==
    IsFiniteSet(Writers) /\ Cardinality(Writers) \in Nat
BY SizeAssumption, FS_Subset, FS_CardinalityType DEF Writers

(* When a consolidation starts nothing is being written.                   *)
LEMMA NoneWriting ==
    ASSUME TypeOK, CountInv, MayConsolidate
    PROVE  leaked = 0 /\ Writers = {} /\ NoneBeingWritten
<1>1. Cardinality(Writers) + leaked = 0 /\ leaked \in Nat
  BY SizeAssumption DEF MayConsolidate, CountInv, TypeOK
<1>2. leaked = 0 /\ Cardinality(Writers) = 0
  BY <1>1, WritersFinite
<1>3. Writers = {}
  BY <1>2, WritersFinite, FS_EmptySet
<1> QED
  BY <1>2, <1>3 DEF NoneBeingWritten, CountInv, Writers

(* The calls and the state of the writer stay in step.                     *)
LEMMA CallStep ==
    ASSUME WriterInv, [Next]_vars
    PROVE  CallInv'
<1> USE DEF WriterInv
<1>0. copied \in Nat
  BY ChunkCount DEF TypeOK
<1>1. ASSUME NEW t \in Task, NEW offset \in Nat, NEW len, NEW d \in Data,
             StartWrite(t, offset, len, d)
      PROVE  CallInv'
  <2> DEFINE p == offset \div ChunkSize
  <2>1. /\ state = "WritingChunks" /\ state' = state /\ copied' = copied
        /\ \A u \in Task : call[u].pc \in Writing /\ call[u].pos = p => call[u].data = d
    BY <1>1 DEF StartWrite, WritersOf, Writers
  <2>2. /\ call'[t].pc = "open" /\ call'[t].pos = p /\ call'[t].data = d
        /\ \A u \in Task : u # t =>
             /\ call'[u].pc = call[u].pc /\ call'[u].pos = call[u].pos
             /\ call'[u].data = call[u].data
             /\ call[u].pc = "idle" => call'[u] = call[u]
    BY <1>1, StartWriteEffect DEF WritersOf, Writers, Writing
  <2> HIDE DEF p
  <2> QED
    BY <2>1, <2>2 DEF CallInv, Writing
<1>2. ASSUME NEW t \in Task, OpenChunk(t) \/ WriteFirst(t) \/ WriteSecond(t) PROVE CallInv'
  <2>1. PICK pc \in Writing : Goto(t, pc)
    BY <1>2 DEF OpenChunk, WriteFirst, WriteSecond, WriteHalf, Writing
  <2>2. state' = state /\ copied' = copied /\ call[t].pc \in Writing
    BY <1>2 DEF OpenChunk, WriteFirst, WriteSecond, WriteHalf, Writing
  <2>3. /\ \A u \in Task : u # t => call'[u] = call[u]
        /\ call'[t].pc = pc /\ call'[t].pos = call[t].pos /\ call'[t].data = call[t].data
    BY <2>1, GotoEffect DEF Stage
  <2> QED
    BY <2>2, <2>3 DEF CallInv, Writing
<1>3. ASSUME NEW t \in Task, OpenFails(t) \/ WriteFails(t) \/ Finish(t)
                               \/ ChunkMissing(t) \/ CopyFails(t)
      PROVE  CallInv'
  <2>1. /\ state' = state /\ copied' = copied
        /\ \A u \in Task : u # t => call'[u] = call[u]
        /\ call'[t] = Idle /\ call'[t].pc = "idle"
    BY <1>3, ReturnEffect DEF OpenFails, WriteFails, Finish, ChunkMissing, CopyFails
  <2> QED
    BY <2>1 DEF CallInv, Writing
<1>4. ASSUME NEW t \in Task, StartConsolidate(t) PROVE CallInv'
  <2>1. /\ state = "WritingChunks" /\ state' = "Consolidating" /\ call[t] = Idle
        /\ Writers = {}
    BY <1>4, NoneWriting DEF StartConsolidate, MayConsolidate
  <2>2. /\ \A u \in Task : u # t => call'[u] = call[u]
        /\ call'[t].pc = "copy"
    BY <1>4, GotoEffect DEF StartConsolidate, Stage
  <2>3. \A u \in Task : u # t => call[u].pc \notin Writing /\ call[u].pc \notin {"copy", "remove"}
    BY <2>1 DEF CallInv, Writers
  <2> QED
    BY <2>1, <2>2, <2>3 DEF CallInv, Writing
<1>5. ASSUME NEW t \in Task, CopyChunk(t) \/ RemoveChunk(t) PROVE CallInv'
  <2>1. PICK pc \in {"copy", "remove"} : Goto(t, pc) /\ (pc = "remove" => copied' = copied + 1)
    BY <1>5 DEF CopyChunk, RemoveChunk
  <2>2. state' = state /\ call[t].pc \in {"copy", "remove"}
    BY <1>5 DEF CopyChunk, RemoveChunk
  <2>3. /\ \A u \in Task : u # t => call'[u] = call[u]
        /\ call'[t].pc = pc
    BY <2>1, GotoEffect DEF Stage
  <2>4. \A u \in Task : call'[u].pc = "remove" => u = t
    BY <2>2, <2>3 DEF CallInv
  <2>5. \A u \in Task : call'[u].pc = "remove" => copied' > 0
    BY <1>0, <2>1, <2>3, <2>4
  <2> QED
    BY <2>2, <2>3, <2>5 DEF CallInv, Writing
<1>6. ASSUME NEW t \in Task, EndConsolidate(t) PROVE CallInv'
  <2>1. /\ call[t].pc = "copy" /\ state' = "WritingChunks"
        /\ \A u \in Task : u # t => call'[u] = call[u]
        /\ call'[t] = Idle /\ call'[t].pc = "idle"
    BY <1>6, ReturnEffect DEF EndConsolidate
  <2>2. \A u \in Task : u # t => call[u].pc \notin {"copy", "remove"}
    BY <2>1 DEF CallInv
  <2> QED
    BY <2>1, <2>2 DEF CallInv, Writing
<1>7. CASE UNCHANGED vars
  BY <1>7 DEF vars, CallInv
<1> QED
  BY <1>1, <1>2, <1>3, <1>4, <1>5, <1>6, <1>7 DEF Next, Start, Step, Error

(* The number keeps count of the writers.                                  *)
LEMMA CountStep ==
    ASSUME WriterInv, [Next]_vars
    PROVE  CountInv'
<1> USE DEF WriterInv
<1>0. /\ leaked \in Nat /\ errors \in Nat /\ writing \in Nat
      /\ writing_chunk \in [Chunk -> BOOLEAN]
      /\ IsFiniteSet(Writers) /\ Cardinality(Writers) \in Nat
  BY WritersFinite, SizeAssumption DEF TypeOK
<1>1. ASSUME NEW t \in Task, NEW offset \in Nat, NEW len, NEW d \in Data,
             StartWrite(t, offset, len, d)
      PROVE  CountInv'
  <2> DEFINE p == offset \div ChunkSize
  <2>1. /\ state = "WritingChunks" /\ state' = state /\ writing' = writing + 1
        /\ leaked' = leaked /\ errors' = errors
        /\ writing_chunk' = [writing_chunk EXCEPT ![p] = TRUE]
    BY <1>1 DEF StartWrite
  <2>2. /\ call[t].pc = "idle" /\ call'[t].pc = "open" /\ call'[t].pos = p /\ p \in Chunk
        /\ \A u \in Task : u # t =>
             call'[u].pc = call[u].pc /\ call'[u].pos = call[u].pos
    BY <1>1, StartWriteEffect
  <2> HIDE DEF p
  <2>3. Writers' = Writers \cup {t} /\ t \notin Writers
    BY <2>2 DEF Writers, Writing
  <2>4. Cardinality(Writers') = Cardinality(Writers) + 1
    BY <1>0, <2>3, FS_AddElement
  <2>5. writing' = Cardinality(Writers') + leaked'
    BY <1>0, <2>1, <2>4 DEF CountInv
  <2>6. ASSUME NEW q \in Chunk, writing_chunk'[q]
        PROVE  leaked' > 0 \/ \E u \in Task : call'[u].pc \in Writing /\ call'[u].pos = q
    <3>1. CASE q = p
      BY <2>2, <3>1 DEF Writing
    <3>2. CASE q # p
      BY <1>0, <2>1, <2>2, <2>6, <3>2 DEF CountInv, Writing
    <3> QED
      BY <3>1, <3>2
  <2> QED
    BY <2>1, <2>5, <2>6 DEF CountInv
<1>2. ASSUME NEW t \in Task, OpenChunk(t) \/ WriteFirst(t) \/ WriteSecond(t) PROVE CountInv'
  <2>1. PICK pc \in Writing : Goto(t, pc)
    BY <1>2 DEF OpenChunk, WriteFirst, WriteSecond, WriteHalf, Writing
  <2>2. UNCHANGED <<state, writing, writing_chunk, errors, leaked>> /\ call[t].pc \in Writing
    BY <1>2 DEF OpenChunk, WriteFirst, WriteSecond, WriteHalf, Writing
  <2>3. /\ \A u \in Task : u # t => call'[u] = call[u]
        /\ call'[t].pc = pc /\ call'[t].pos = call[t].pos
    BY <2>1, GotoEffect DEF Stage
  <2>4. Writers' = Writers
    BY <2>2, <2>3 DEF Writers
  <2> QED
    BY <2>2, <2>3, <2>4 DEF CountInv
<1>3. ASSUME NEW t \in Task, OpenFails(t) \/ WriteFails(t) PROVE CountInv'
  <2>1. /\ state' = state /\ writing' = writing /\ leaked' = leaked + 1 /\ errors' = errors + 1
        /\ call[t].pc \in Writing
        /\ \A u \in Task : u # t => call'[u] = call[u]
        /\ call'[t].pc = "idle"
    BY <1>3, ReturnEffect DEF OpenFails, WriteFails, Fail, Writing
  <2>2. Writers' = Writers \ {t} /\ t \in Writers
    BY <2>1 DEF Writers, Writing
  <2>3. Cardinality(Writers') = Cardinality(Writers) - 1
    BY <1>0, <2>2, FS_RemoveElement
  <2>4. state = "WritingChunks"
    BY <2>1 DEF CallInv
  <2>5. writing' = Cardinality(Writers') + leaked' /\ leaked' > 0 /\ leaked' <= errors'
    BY <1>0, <2>1, <2>3, <2>4 DEF CountInv
  <2> QED
    BY <2>1, <2>4, <2>5 DEF CountInv
<1>4. ASSUME NEW t \in Task, Finish(t) PROVE CountInv'
  <2>1. /\ state = "WritingChunks" /\ state' = state /\ writing' = writing - 1
        /\ UNCHANGED <<leaked, errors>>
        /\ writing_chunk' = [writing_chunk EXCEPT ![call[t].pos] = FALSE]
        /\ call[t].pc \in Writing
        /\ \A u \in Task : u # t => call'[u] = call[u]
        /\ call'[t].pc = "idle"
    BY <1>4, ReturnEffect DEF Finish, Released, Writing
  <2>2. Writers' = Writers \ {t} /\ t \in Writers
    BY <2>1 DEF Writers, Writing
  <2>3. Cardinality(Writers') = Cardinality(Writers) - 1
    BY <1>0, <2>2, FS_RemoveElement
  <2>4. writing' = Cardinality(Writers') + leaked'
    BY <1>0, <2>1, <2>3 DEF CountInv
  <2>5. \A q \in Chunk : writing_chunk'[q] => writing_chunk[q] /\ q # call[t].pos
    BY <1>0, <2>1
  <2>6. \A q \in Chunk : writing_chunk'[q] =>
            leaked > 0 \/ \E u \in Task : call'[u].pc \in Writing /\ call'[u].pos = q
    BY <2>1, <2>5 DEF CountInv
  <2> QED
    BY <2>1, <2>4, <2>6 DEF CountInv
<1>5. ASSUME NEW t \in Task, StartConsolidate(t) PROVE CountInv'
  <2>1. state' = "Consolidating" /\ UNCHANGED <<writing, writing_chunk, errors, leaked>>
    BY <1>5 DEF StartConsolidate
  <2>2. writing = 0 /\ leaked = 0 /\ \A p \in Chunk : ~writing_chunk[p]
    BY <1>5, NoneWriting DEF StartConsolidate, MayConsolidate, NoneBeingWritten
  <2> QED
    BY <2>1, <2>2 DEF CountInv
<1>6. ASSUME NEW t \in Task, CopyChunk(t) \/ RemoveChunk(t) \/ ChunkMissing(t) \/ CopyFails(t)
      PROVE  CountInv'
  <2>1. /\ UNCHANGED <<state, writing, writing_chunk, leaked>>
        /\ errors' = errors \/ errors' = errors + 1
        /\ call[t].pc \in {"copy", "remove"}
    BY <1>6 DEF CopyChunk, RemoveChunk, ChunkMissing, CopyFails, Fail
  <2>2. state = "Consolidating" /\ leaked = 0 /\ writing = 0
    BY <2>1 DEF CallInv, CountInv
  <2>3. \A u \in Task : call[u].pc \notin Writing
    BY <2>2 DEF CallInv
  <2>4. \A p \in Chunk : ~writing_chunk[p]
    BY <2>2, <2>3 DEF CountInv
  <2> QED
    BY <1>0, <2>1, <2>2, <2>4 DEF CountInv
<1>7. ASSUME NEW t \in Task, EndConsolidate(t) PROVE CountInv'
  <2>1. /\ call[t].pc = "copy" /\ state' = "WritingChunks" /\ writing' = 0
        /\ UNCHANGED <<writing_chunk, errors, leaked>>
        /\ \A u \in Task : u # t => call'[u] = call[u]
        /\ call'[t].pc = "idle"
    BY <1>7, ReturnEffect DEF EndConsolidate
  <2>2. state = "Consolidating" /\ leaked = 0
    BY <2>1 DEF CallInv, CountInv
  <2>3. \A u \in Task : call[u].pc \notin Writing
    BY <2>2 DEF CallInv
  <2>4. Writers' = {} /\ \A p \in Chunk : ~writing_chunk[p]
    BY <2>1, <2>2, <2>3 DEF Writers, CountInv, Writing
  <2>5. Cardinality(Writers') = 0
    BY <2>4, FS_EmptySet
  <2> QED
    BY <1>0, <2>1, <2>2, <2>4, <2>5 DEF CountInv
<1>8. CASE UNCHANGED vars
  BY <1>8 DEF vars, CountInv, Writers
<1> QED
  BY <1>1, <1>2, <1>3, <1>4, <1>5, <1>6, <1>7, <1>8 DEF Next, Start, Step, Error

-----------------------------------------------------------------------------
(* In the chunk files no half is lost: overlapping writes write the same.  *)
LEMMA PartStep ==
    ASSUME WriterInv, [Next]_vars
    PROVE  PartInv'
<1> USE DEF WriterInv
<1>0. /\ leaked \in Nat /\ part \in [Chunk -> Content]
      /\ \A t \in Task : call[t].pc \in Writing => call[t].pos \in Chunk
  BY SizeAssumption DEF TypeOK, Writers
<1>1. ASSUME NEW t \in Task, NEW offset \in Nat, NEW len, NEW d \in Data,
             StartWrite(t, offset, len, d)
      PROVE  PartInv'
  <2>1. UNCHANGED <<part, leaked>>
    BY <1>1 DEF StartWrite
  <2>2. /\ call[t].pc = "idle" /\ call'[t].pc = "open"
        /\ \A u \in Task : u # t =>
             /\ call'[u].pc = call[u].pc /\ call'[u].pos = call[u].pos
             /\ call'[u].data = call[u].data
    BY <1>1, StartWriteEffect
  <2> QED
    BY <2>1, <2>2 DEF PartInv, Writing
<1>2. ASSUME NEW t \in Task, OpenChunk(t) PROVE PartInv'
  <2> DEFINE p == call[t].pos
  <2>1. /\ call[t].pc = "open" /\ p \in Chunk /\ leaked' = leaked
        /\ part' = [part EXCEPT ![p] = Empty]
    BY <1>0, <1>2 DEF OpenChunk, Writing
  <2>2. /\ \A u \in Task : u # t => call'[u] = call[u]
        /\ call'[t].pc = "first" /\ call'[t].pos = p /\ call'[t].data = call[t].data
    BY <1>2, GotoEffect DEF OpenChunk, Stage, Writing
  <2>3. /\ part'[p] # NoFile /\ part'[p][1] = None /\ part'[p][2] = None
        /\ \A h \in 1 .. 2 : part'[p][h] = None
        /\ \A q \in Chunk : q # p => part'[q] = part[q]
    BY <1>0, <2>1 DEF Empty, NoFile
  <2> HIDE DEF p
  <2>4. \A u \in Task : call'[u].pc \in Writing \ {"open"} =>
          /\ part'[call'[u].pos] # NoFile
          /\ \A h \in 1 .. 2 : part'[call'[u].pos][h] \in {None, call'[u].data}
    BY <1>0, <2>1, <2>2, <2>3 DEF PartInv, Writing
  <2>5. ASSUME NEW q \in Chunk, part'[q] # NoFile
        PROVE  /\ part'[q][1] # None /\ part'[q][2] # None => part'[q][1] = part'[q][2]
               /\ leaked' = 0 /\ part'[q][1] = None =>
                    \E u \in Task : call'[u].pc = "first" /\ call'[u].pos = q
               /\ leaked' = 0 /\ part'[q][2] = None =>
                    \E u \in Task : call'[u].pc \in {"first", "second"} /\ call'[u].pos = q
    <3>1. CASE q = p
      BY <2>2, <2>3, <3>1
    <3>2. CASE q # p
      <4>1. \A u \in Task : call[u].pc \in {"first", "second"} => call'[u] = call[u]
        BY <2>1, <2>2
      <4> QED
        BY <2>1, <2>3, <2>5, <3>2, <4>1 DEF PartInv
    <3> QED
      BY <3>1, <3>2
  <2> QED
    BY <2>4, <2>5 DEF PartInv
<1>3. ASSUME NEW t \in Task, WriteFirst(t) \/ WriteSecond(t) PROVE PartInv'
  <2> DEFINE p == call[t].pos
             d == call[t].data
  <2>1. PICK h \in 1 .. 2 :
          /\ part' = [part EXCEPT ![p][h] = d]
          /\ call[t].pc = IF h = 1 THEN "first" ELSE "second"
          /\ Goto(t, IF h = 1 THEN "second" ELSE "sync")
    BY <1>3 DEF WriteFirst, WriteSecond, WriteHalf
  <2>2. leaked' = leaked
    BY <1>3 DEF WriteFirst, WriteSecond, WriteHalf
  <2>3. /\ p \in Chunk /\ d \in Data /\ part[p] # NoFile /\ d # None
        /\ \A g \in 1 .. 2 : part[p][g] \in {None, d}
    BY <1>0, <2>1, SizeAssumption DEF CallInv, PartInv, Writing
  <2>4. /\ \A u \in Task : u # t => call'[u] = call[u]
        /\ call'[t].pc = (IF h = 1 THEN "second" ELSE "sync")
        /\ call'[t].pos = p /\ call'[t].data = d
    BY <2>1, GotoEffect DEF Stage, Writing
  <2> HIDE DEF p, d
  <2>5. /\ \A q \in Chunk : q # p => part'[q] = part[q]
        /\ part'[p] # NoFile /\ part'[p][h] = d
        /\ \A g \in 1 .. 2 : g # h => part'[p][g] = part[p][g]
    <3> DEFINE c == [part[p] EXCEPT ![h] = d]
    <3>1. part[p] \in [1 .. 2 -> Data \union {None}]
      BY <1>0, <2>3 DEF Content
    <3>2. c # NoFile /\ c[h] = d /\ \A g \in 1 .. 2 : g # h => c[g] = part[p][g]
      BY <3>1 DEF NoFile
    <3>3. part' = [part EXCEPT ![p] = c]
      BY <2>1
    <3> HIDE DEF c
    <3> QED
      BY <1>0, <2>3, <3>2, <3>3
  <2>6. \A u \in Task : call'[u].pc \in Writing \ {"open"} =>
          /\ part'[call'[u].pos] # NoFile
          /\ \A g \in 1 .. 2 : part'[call'[u].pos][g] \in {None, call'[u].data}
    <3>1. SUFFICES ASSUME NEW u \in Task, call'[u].pc \in Writing \ {"open"}
                   PROVE  /\ part'[call'[u].pos] # NoFile
                          /\ \A g \in 1 .. 2 : part'[call'[u].pos][g] \in {None, call'[u].data}
      OBVIOUS
    <3>2. CASE call'[u].pos = p
      <4>1. call'[u].data = d
        BY <2>1, <2>4, <3>1, <3>2 DEF CallInv, Writing, p, d
      <4> QED
        BY <2>3, <2>5, <3>2, <4>1
    <3>3. CASE call'[u].pos # p
      <4>1. u # t /\ call'[u] = call[u] /\ call[u].pos \in Chunk
        BY <1>0, <2>4, <3>1, <3>3
      <4> QED
        BY <2>5, <3>1, <3>3, <4>1 DEF PartInv
    <3> QED
      BY <3>2, <3>3
  <2>7. ASSUME NEW q \in Chunk, part'[q] # NoFile
        PROVE  /\ part'[q][1] # None /\ part'[q][2] # None => part'[q][1] = part'[q][2]
               /\ leaked' = 0 /\ part'[q][1] = None =>
                    \E u \in Task : call'[u].pc = "first" /\ call'[u].pos = q
               /\ leaked' = 0 /\ part'[q][2] = None =>
                    \E u \in Task : call'[u].pc \in {"first", "second"} /\ call'[u].pos = q
    <3>1. CASE q # p
      <4>1. part'[q] = part[q]
        BY <2>5, <3>1
      <4>2. \A u \in Task : call[u].pos = q => call'[u] = call[u]
        BY <2>4, <3>1 DEF p
      <4> QED
        BY <2>2, <2>7, <4>1, <4>2 DEF PartInv
    <3>2. CASE q = p /\ h = 1
      <4>1. part'[q][1] = d /\ part'[q][2] = part[p][2]
        BY <2>5, <3>2
      <4>2. call'[t].pc = "second" /\ call'[t].pos = q
        BY <2>4, <3>2
      <4> QED
        BY <2>3, <4>1, <4>2
    <3>3. CASE q = p /\ h = 2
      <4>1. part'[q][2] = d /\ part'[q][1] = part[p][1]
        BY <2>5, <3>3
      <4>2. \A u \in Task : call[u].pc = "first" => call'[u] = call[u]
        BY <2>1, <2>4, <3>3
      <4>3. leaked = 0 /\ part[p][1] = None =>
              \E u \in Task : call[u].pc = "first" /\ call[u].pos = p
        BY <2>3 DEF PartInv
      <4> QED
        BY <2>2, <2>3, <3>3, <4>1, <4>2, <4>3
    <3> QED
      BY <3>1, <3>2, <3>3
  <2> QED
    BY <2>6, <2>7 DEF PartInv
<1>4. ASSUME NEW t \in Task, OpenFails(t) \/ WriteFails(t) PROVE PartInv'
  <2>1. /\ part' = part /\ leaked' = leaked + 1
        /\ \A u \in Task : u # t => call'[u] = call[u]
        /\ call'[t].pc = "idle"
    BY <1>4, ReturnEffect DEF OpenFails, WriteFails
  <2>2. leaked' # 0
    BY <1>0, <2>1
  <2> QED
    BY <2>1, <2>2 DEF PartInv, Writing
<1>5. ASSUME NEW t \in Task, Finish(t) \/ ChunkMissing(t) \/ CopyFails(t) \/ EndConsolidate(t)
      PROVE  PartInv'
  <2>1. /\ part' = part /\ leaked' = leaked
        /\ call[t].pc \notin {"first", "second"}
        /\ \A u \in Task : u # t => call'[u] = call[u]
        /\ call'[t].pc = "idle"
    BY <1>5, ReturnEffect DEF Finish, ChunkMissing, CopyFails, EndConsolidate
  <2>2. \A u \in Task : call[u].pc \in {"first", "second"} => call'[u] = call[u]
    BY <2>1
  <2> QED
    BY <2>1, <2>2 DEF PartInv, Writing
<1>6. ASSUME NEW t \in Task, StartConsolidate(t) \/ CopyChunk(t) PROVE PartInv'
  <2>1. PICK pc \in {"copy", "remove"} : Goto(t, pc)
    BY <1>6 DEF StartConsolidate, CopyChunk
  <2>2. part' = part /\ leaked' = leaked /\ call[t].pc \in {"idle", "copy"}
    BY <1>6 DEF StartConsolidate, CopyChunk, Idle
  <2>3. /\ \A u \in Task : u # t => call'[u] = call[u]
        /\ call'[t].pc = pc
    BY <2>1, GotoEffect DEF Stage
  <2>4. \A u \in Task : call[u].pc \in {"first", "second"} => call'[u] = call[u]
    BY <2>2, <2>3
  <2> QED
    BY <2>2, <2>3, <2>4 DEF PartInv, Writing
<1>7. ASSUME NEW t \in Task, RemoveChunk(t) PROVE PartInv'
  <2>1. /\ part' = [part EXCEPT ![copied - 1] = NoFile] /\ leaked' = leaked
        /\ call[t].pc = "remove"
        /\ \A u \in Task : u # t => call'[u] = call[u]
        /\ call'[t].pc = "copy"
    BY <1>7, GotoEffect DEF RemoveChunk, CopiedChunk, Stage
  <2>2. \A u \in Task : call[u].pc \notin Writing /\ call'[u].pc \notin Writing
    BY <2>1 DEF CallInv, Writing
  <2>3. \A q \in Chunk : part'[q] # NoFile => part'[q] = part[q]
    BY <1>0, <2>1
  <2>4. leaked' = 0 => \A q \in Chunk : part[q] # NoFile => part[q][1] # None /\ part[q][2] # None
    BY <2>1, <2>2 DEF PartInv, Writing
  <2> QED
    BY <2>2, <2>3, <2>4, <2>1 DEF PartInv
<1>8. CASE UNCHANGED vars
  BY <1>8 DEF vars, PartInv
<1> QED
  BY <1>1, <1>2, <1>3, <1>4, <1>5, <1>6, <1>7, <1>8 DEF Next, Start, Step, Error

(* With no write under way and none failed, a chunk file is whole.         *)
LEMMA ChunksWhole ==
    ASSUME WriterInv, state = "Consolidating", NEW p \in Chunk, part[p] # NoFile
    PROVE  Whole(part[p])
<1>1. leaked = 0 /\ \A t \in Task : call[t].pc \notin Writing
  BY DEF WriterInv, CallInv, CountInv
<1> QED
  BY <1>1 DEF WriterInv, PartInv, Whole, Writing

(* What a consolidation has copied is whole, and removed behind it.        *)
LEMMA CopyStep ==
    ASSUME WriterInv, [Next]_vars
    PROVE  CopyInv'
<1> USE DEF WriterInv
<1>0. copied \in Nat /\ part \in [Chunk -> Content] /\ n_of_chunks \in Nat
      /\ \A p \in Chunk : p \in Nat
  BY ChunkCount DEF TypeOK, Chunk
<1>1. ASSUME NEW t \in Task, NEW offset \in Nat, NEW len, NEW d \in Data,
             StartWrite(t, offset, len, d)
      PROVE  CopyInv'
  <2>1. state = "WritingChunks" /\ state' = state
    BY <1>1 DEF StartWrite
  <2>2. \A u \in Task : call'[u].pc \notin {"copy", "remove"}
    BY <1>1, <2>1, StartWriteEffect DEF CallInv
  <2> QED
    BY <2>1, <2>2 DEF CopyInv
<1>2. ASSUME NEW t \in Task, OpenChunk(t) \/ WriteFirst(t) \/ WriteSecond(t) PROVE CopyInv'
  <2>1. PICK pc \in Writing : Goto(t, pc)
    BY <1>2 DEF OpenChunk, WriteFirst, WriteSecond, WriteHalf, Writing
  <2>2. state' = state /\ call[t].pc \in Writing
    BY <1>2 DEF OpenChunk, WriteFirst, WriteSecond, WriteHalf, Writing
  <2>3. state = "WritingChunks" /\ \A u \in Task : call'[u].pc \notin {"copy", "remove"}
    BY <2>1, <2>2, GotoEffect DEF CallInv, Stage, Writing
  <2> QED
    BY <2>2, <2>3 DEF CopyInv
<1>3. ASSUME NEW t \in Task, OpenFails(t) \/ WriteFails(t) \/ Finish(t)
                               \/ ChunkMissing(t) \/ CopyFails(t)
      PROVE  CopyInv'
  <2>1. /\ UNCHANGED <<state, part, file, copied>>
        /\ \A u \in Task : u # t => call'[u] = call[u]
        /\ call'[t].pc = "idle"
    BY <1>3, ReturnEffect DEF OpenFails, WriteFails, Finish, ChunkMissing, CopyFails
  <2> QED
    BY <2>1 DEF CopyInv
<1>4. ASSUME NEW t \in Task, StartConsolidate(t) PROVE CopyInv'
  <2>1. /\ part' = part /\ copied' = 0 /\ file' = [p \in Chunk |-> Empty]
        /\ state = "WritingChunks"
    BY <1>4, NoneWriting DEF StartConsolidate, MayConsolidate
  <2>2. Empty \in Content
    BY DEF Empty, Content
  <2>3. \A p \in Chunk : ~(p < copied') /\ ~(p < copied' - 1)
    BY <1>0, <2>1
  <2> QED
    BY <2>1, <2>2, <2>3 DEF CopyInv
<1>5. ASSUME NEW t \in Task, CopyChunk(t) PROVE CopyInv'
  <2>1. /\ call[t].pc = "copy" /\ copied < n_of_chunks /\ part[copied] # NoFile
        /\ file' = [file EXCEPT ![copied] = part[copied]] /\ copied' = copied + 1
        /\ part' = part /\ state' = state
        /\ \A u \in Task : u # t => call'[u] = call[u]
        /\ call'[t].pc = "remove"
    BY <1>5, GotoEffect DEF CopyChunk, SeekPosition, Stage
  <2>2. /\ state = "Consolidating" /\ copied \in Chunk
        /\ \A u \in Task : u # t => call[u].pc \notin {"copy", "remove"}
    BY <1>0, <2>1 DEF CallInv, Chunk
  <2>3. /\ file \in [Chunk -> Content] /\ part[copied] \in Content /\ Whole(part[copied])
        /\ \A p \in Chunk : p < copied => Whole(file[p]) /\ part[p] = NoFile
    BY <1>0, <2>1, <2>2, ChunksWhole DEF CopyInv
  <2>4. \A p \in Chunk : p < copied' => Whole(file'[p])
    <3>1. SUFFICES ASSUME NEW p \in Chunk, p < copied' PROVE Whole(file'[p])
      OBVIOUS
    <3>2. CASE p = copied
      <4>1. file'[p] = part[copied]
        BY <2>1, <2>3, <3>2
      <4> QED
        BY <2>3, <4>1
    <3>3. CASE p # copied
      <4>1. file'[p] = file[p] /\ p < copied
        BY <1>0, <2>1, <2>3, <3>1, <3>3
      <4> QED
        BY <2>3, <4>1
    <3> QED
      BY <3>2, <3>3
  <2>5. \A p \in Chunk : p < copied' - 1 => part'[p] = NoFile
    BY <1>0, <2>1, <2>3
  <2>6. file' \in [Chunk -> Content]
    BY <2>1, <2>3
  <2> QED
    BY <2>1, <2>2, <2>4, <2>5, <2>6 DEF CopyInv
<1>6. ASSUME NEW t \in Task, RemoveChunk(t) PROVE CopyInv'
  <2>1. /\ call[t].pc = "remove" /\ UNCHANGED <<state, file, copied>>
        /\ part' = [part EXCEPT ![copied - 1] = NoFile]
        /\ \A u \in Task : u # t => call'[u] = call[u]
        /\ call'[t].pc = "copy"
    BY <1>6, GotoEffect DEF RemoveChunk, CopiedChunk, Stage
  <2>2. \A u \in Task : u # t => call[u].pc \notin {"copy", "remove"}
    BY <2>1 DEF CallInv
  <2>3. \A p \in Chunk : p < copied => part'[p] = NoFile
    BY <1>0, <2>1 DEF CopyInv
  <2> QED
    BY <2>1, <2>2, <2>3 DEF CopyInv
<1>7. ASSUME NEW t \in Task, EndConsolidate(t) PROVE CopyInv'
  <2>1. /\ call[t].pc = "copy" /\ state' = "WritingChunks"
        /\ \A u \in Task : u # t => call'[u] = call[u]
        /\ call'[t].pc = "idle"
    BY <1>7, ReturnEffect DEF EndConsolidate
  <2>2. \A u \in Task : u # t => call[u].pc \notin {"copy", "remove"}
    BY <2>1 DEF CallInv
  <2> QED
    BY <2>1, <2>2 DEF CopyInv
<1>8. CASE UNCHANGED vars
  BY <1>8 DEF vars, CopyInv
<1> QED
  BY <1>1, <1>2, <1>3, <1>4, <1>5, <1>6, <1>7, <1>8 DEF Next, Start, Step, Error

-----------------------------------------------------------------------------
(* A write that no other has overlapped is the only one of its chunk and   *)
(* finds there what it has written so far; while the data of a finished    *)
(* write counts, nobody has opened its chunk.                              *)
AloneInv ==
    /\ \A t, u \in Task :
          call[t].pc \in Writing /\ call[u].pc \in Writing /\ call[t].pos = call[u].pos
            /\ call[t].alone => t = u
    /\ \A t \in Task : call[t].alone =>
          /\ call[t].pc \in {"second", "sync"} => part[call[t].pos][1] = call[t].data
          /\ call[t].pc = "sync" => part[call[t].pos][2] = call[t].data
    /\ \A p \in Chunk : written[p] # None =>
          \A t \in Task : call[t].pc \in Writing /\ call[t].pos = p => call[t].pc = "open"

KeptInv == OkIsKept /\ AloneInv

(* The data of a write that returned Ok is kept by every step.             *)
LEMMA KeptStep ==
    ASSUME WriterInv, KeptInv, [Next]_vars
    PROVE  KeptInv'
<1> USE DEF WriterInv, KeptInv
<1>0. /\ part \in [Chunk -> Content] /\ written \in [Chunk -> Data \union {None}]
      /\ copied \in Nat /\ \A p \in Chunk : p \in Nat
      /\ \A t \in Task : call[t].pc \in Writing => call[t].pos \in Chunk
      /\ \A t \in Task : call[t].pc \in Writing => state = "WritingChunks"
  BY ChunkCount DEF TypeOK, Chunk, Writers, CallInv
<1>1. ASSUME NEW t \in Task, NEW offset \in Nat, NEW len, NEW d \in Data,
             StartWrite(t, offset, len, d)
      PROVE  KeptInv'
  <2> DEFINE p == offset \div ChunkSize
  <2>1. UNCHANGED <<state, part, file, copied, written>>
    BY <1>1 DEF StartWrite
  <2>2. /\ call'[t].pc = "open" /\ call'[t].pos = p /\ call[t].pc = "idle"
        /\ call'[t].alone => \A u \in Task : ~(call[u].pc \in Writing /\ call[u].pos = p)
        /\ \A u \in Task : u # t =>
             /\ call'[u].pc = call[u].pc /\ call'[u].pos = call[u].pos
             /\ call'[u].data = call[u].data
             /\ ~(call[u].pc \in Writing /\ call[u].pos = p) => call'[u] = call[u]
             /\ call[u].pc \in Writing /\ call[u].pos = p => ~call'[u].alone
    BY <1>1, StartWriteEffect DEF WritersOf, Writers
  <2> HIDE DEF p
  <2>3. OkIsKept'
    BY <2>1 DEF OkIsKept
  <2>4. AloneInv'
    BY <2>1, <2>2 DEF AloneInv, Writing
  <2> QED
    BY <2>3, <2>4
<1>2. ASSUME NEW t \in Task, OpenChunk(t) PROVE KeptInv'
  <2> DEFINE p == call[t].pos
  <2>1. /\ call[t].pc = "open" /\ p \in Chunk /\ state = "WritingChunks"
        /\ UNCHANGED <<state, file, copied>>
        /\ part' = [part EXCEPT ![p] = Empty] /\ written' = [written EXCEPT ![p] = None]
    BY <1>0, <1>2 DEF OpenChunk, Unwritten, Writing
  <2>2. /\ \A u \in Task : u # t => call'[u] = call[u]
        /\ call'[t].pc = "first" /\ call'[t].pos = p /\ call'[t].alone = call[t].alone
    BY <1>2, GotoEffect DEF OpenChunk, Stage, Writing
  <2> HIDE DEF p
  <2>3. /\ \A q \in Chunk : q # p => part'[q] = part[q] /\ written'[q] = written[q]
        /\ written'[p] = None
    BY <1>0, <2>1
  <2>4. OkIsKept'
    BY <2>1, <2>3 DEF OkIsKept
  <2>5. \A u \in Task : u # t /\ call[u].pc \in Writing /\ call[u].alone => call[u].pos # p
    BY <2>1 DEF AloneInv, Writing, p
  <2>6. AloneInv'
    <3>1. \A u \in Task : call'[u].alone =>
            /\ call'[u].pc \in {"second", "sync"} => part'[call'[u].pos][1] = call'[u].data
            /\ call'[u].pc = "sync" => part'[call'[u].pos][2] = call'[u].data
      BY <1>0, <2>2, <2>3, <2>5 DEF AloneInv, Writing
    <3>2. \A v, u \in Task :
            call'[v].pc \in Writing /\ call'[u].pc \in Writing /\ call'[v].pos = call'[u].pos
              /\ call'[v].alone => v = u
      BY <2>1, <2>2 DEF AloneInv, Writing, p
    <3>3. \A q \in Chunk : written'[q] # None =>
            \A u \in Task : call'[u].pc \in Writing /\ call'[u].pos = q => call'[u].pc = "open"
      BY <2>2, <2>3 DEF AloneInv
    <3> QED
      BY <3>1, <3>2, <3>3 DEF AloneInv
  <2> QED
    BY <2>4, <2>6
<1>3. ASSUME NEW t \in Task, WriteFirst(t) \/ WriteSecond(t) PROVE KeptInv'
  <2> DEFINE p == call[t].pos
             d == call[t].data
  <2>1. PICK h \in 1 .. 2 :
          /\ part' = [part EXCEPT ![p][h] = d]
          /\ call[t].pc = IF h = 1 THEN "first" ELSE "second"
          /\ Goto(t, IF h = 1 THEN "second" ELSE "sync")
    BY <1>3 DEF WriteFirst, WriteSecond, WriteHalf
  <2>2. UNCHANGED <<state, file, copied, written>>
    BY <1>3 DEF WriteFirst, WriteSecond, WriteHalf
  <2>3. p \in Chunk /\ part[p] # NoFile /\ state = "WritingChunks" /\ written[p] = None
    BY <1>0, <2>1 DEF PartInv, AloneInv, Writing
  <2>4. /\ \A u \in Task : u # t => call'[u] = call[u]
        /\ call'[t].pc = (IF h = 1 THEN "second" ELSE "sync")
        /\ call'[t].pos = p /\ call'[t].data = d /\ call'[t].alone = call[t].alone
    BY <2>1, GotoEffect DEF Stage, Writing
  <2>5. /\ \A q \in Chunk : q # p => part'[q] = part[q]
        /\ part'[p][h] = d
        /\ \A g \in 1 .. 2 : g # h => part'[p][g] = part[p][g]
    <3> DEFINE c == [part[p] EXCEPT ![h] = d]
    <3>1. part[p] \in [1 .. 2 -> Data \union {None}]
      BY <1>0, <2>3 DEF Content
    <3>2. c[h] = d /\ \A g \in 1 .. 2 : g # h => c[g] = part[p][g]
      BY <3>1
    <3>3. part' = [part EXCEPT ![p] = c]
      BY <2>1
    <3> HIDE DEF c
    <3> QED
      BY <1>0, <2>3, <3>2, <3>3
  <2> HIDE DEF p, d
  <2>6. OkIsKept'
    BY <2>2, <2>3, <2>5 DEF OkIsKept
  <2>7. \A u \in Task : u # t /\ call[u].pc \in Writing /\ call[u].alone => call[u].pos # p
    BY <2>1 DEF AloneInv, Writing, p
  <2>8. AloneInv'
    <3>1. ASSUME NEW u \in Task, call'[u].alone
          PROVE  /\ call'[u].pc \in {"second", "sync"} => part'[call'[u].pos][1] = call'[u].data
                 /\ call'[u].pc = "sync" => part'[call'[u].pos][2] = call'[u].data
      <4>1. CASE u # t
        BY <1>0, <2>4, <2>5, <2>7, <3>1, <4>1 DEF AloneInv, Writing
      <4>2. CASE u = t /\ h = 1
        BY <2>4, <2>5, <4>2
      <4>3. CASE u = t /\ h = 2
        <5>1. part[p][1] = d
          BY <2>1, <2>4, <3>1, <4>3 DEF AloneInv, p, d
        <5> QED
          BY <2>4, <2>5, <4>3, <5>1
      <4> QED
        BY <4>1, <4>2, <4>3
    <3>2. \A v, u \in Task :
            call'[v].pc \in Writing /\ call'[u].pc \in Writing /\ call'[v].pos = call'[u].pos
              /\ call'[v].alone => v = u
      BY <2>1, <2>4 DEF AloneInv, Writing, p
    <3>3. \A q \in Chunk : written'[q] # None =>
            \A u \in Task : call'[u].pc \in Writing /\ call'[u].pos = q => call'[u].pc = "open"
      BY <2>2, <2>3, <2>4 DEF AloneInv
    <3> QED
      BY <3>1, <3>2, <3>3 DEF AloneInv
  <2> QED
    BY <2>6, <2>8
<1>4. ASSUME NEW t \in Task, OpenFails(t) \/ WriteFails(t) \/ ChunkMissing(t) \/ CopyFails(t)
      PROVE  KeptInv'
  <2>1. /\ UNCHANGED <<state, part, file, copied, written>>
        /\ \A u \in Task : u # t => call'[u] = call[u]
        /\ call'[t].pc = "idle"
    BY <1>4, ReturnEffect DEF OpenFails, WriteFails, ChunkMissing, CopyFails
  <2> QED
    BY <2>1 DEF OkIsKept, AloneInv, Writing
<1>5. ASSUME NEW t \in Task, Finish(t) PROVE KeptInv'
  <2> DEFINE p == call[t].pos
             d == call[t].data
  <2>1. /\ call[t].pc = "sync" /\ UNCHANGED <<state, part, file, copied>>
        /\ written' = [written EXCEPT ![p] = IF call[t].alone THEN d ELSE @]
        /\ \A u \in Task : u # t => call'[u] = call[u]
        /\ call'[t].pc = "idle"
    BY <1>5, ReturnEffect DEF Finish
  <2>2. p \in Chunk /\ state = "WritingChunks" /\ d \in Data /\ d # None /\ written[p] = None
    BY <1>0, <2>1, SizeAssumption DEF CallInv, AloneInv, Writing
  <2>3. call[t].alone => part[p] # NoFile /\ part[p][1] = d /\ part[p][2] = d
    BY <2>1 DEF AloneInv, PartInv, Writing
  <2>4. \A u \in Task : u # t /\ call[u].pc \in Writing /\ call[u].pos = p => ~call[t].alone
    BY <2>1 DEF AloneInv, Writing
  <2> HIDE DEF p, d
  <2>5. /\ \A q \in Chunk : q # p => written'[q] = written[q]
        /\ written'[p] = IF call[t].alone THEN d ELSE None
    BY <1>0, <2>1, <2>2
  <2>6. OkIsKept'
    BY <2>1, <2>2, <2>3, <2>5 DEF OkIsKept, Whole
  <2>7. \A q \in Chunk : written'[q] # None =>
          \A u \in Task : call'[u].pc \in Writing /\ call'[u].pos = q => call'[u].pc = "open"
    BY <2>1, <2>4, <2>5 DEF AloneInv, Writing
  <2>8. AloneInv'
    BY <2>1, <2>7 DEF AloneInv, Writing
  <2> QED
    BY <2>6, <2>8
<1>6. ASSUME NEW t \in Task, StartConsolidate(t) PROVE KeptInv'
  <2>1. /\ state = "WritingChunks" /\ part' = part /\ written' = written /\ copied' = 0
        /\ \A u \in Task : u # t => call'[u] = call[u]
        /\ call'[t].pc = "copy"
    BY <1>6, NoneWriting, GotoEffect DEF StartConsolidate, MayConsolidate, Stage
  <2>2. \A p \in Chunk : ~(p < copied')
    BY <1>0, <2>1
  <2> QED
    BY <2>1, <2>2 DEF OkIsKept, AloneInv, Writing
<1>7. ASSUME NEW t \in Task, CopyChunk(t) PROVE KeptInv'
  <2>1. /\ call[t].pc = "copy" /\ copied < n_of_chunks
        /\ file' = [file EXCEPT ![copied] = part[copied]] /\ copied' = copied + 1
        /\ part' = part /\ state' = state /\ written' = written
        /\ \A u \in Task : u # t => call'[u] = call[u]
        /\ call'[t].pc = "remove"
    BY <1>7, GotoEffect DEF CopyChunk, SeekPosition, Stage
  <2>2. state = "Consolidating" /\ copied \in Chunk /\ file \in [Chunk -> Content]
    BY <1>0, <2>1, ChunkCount DEF CallInv, CopyInv, Chunk
  <2>3. /\ \A p \in Chunk : p # copied => file'[p] = file[p]
        /\ file'[copied] = part[copied]
    <3> HIDE DEF KeptInv
    <3> QED
      BY <2>1, <2>2
  <2>4. /\ \A p \in Chunk : p < copied' <=> p < copied \/ p = copied
        /\ ~(copied < copied)
    <3>1. copied \in Int /\ Chunk \subseteq Int /\ copied' = copied + 1
      BY <1>0, <2>1, <2>2 DEF Chunk
    <3> QED
      BY <3>1
  <2>5. OkIsKept'
    BY <2>1, <2>2, <2>3, <2>4 DEF OkIsKept
  <2>6. AloneInv'
    BY <2>1 DEF AloneInv, Writing
  <2> QED
    BY <2>5, <2>6
<1>8. ASSUME NEW t \in Task, RemoveChunk(t) PROVE KeptInv'
  <2>1. /\ call[t].pc = "remove" /\ UNCHANGED <<state, file, copied, written>>
        /\ part' = [part EXCEPT ![copied - 1] = NoFile]
        /\ \A u \in Task : u # t => call'[u] = call[u]
        /\ call'[t].pc = "copy"
    BY <1>8, GotoEffect DEF RemoveChunk, CopiedChunk, Stage
  <2>2. state = "Consolidating" /\ \A u \in Task : call'[u].pc \notin Writing
    BY <2>1 DEF CallInv, Writing
  <2>3. \A p \in Chunk : ~(p < copied) => part'[p] = part[p]
    BY <1>0, <2>1
  <2> QED
    BY <2>1, <2>2, <2>3 DEF OkIsKept, AloneInv, Writing
<1>9. ASSUME NEW t \in Task, EndConsolidate(t) PROVE KeptInv'
  <2>1. /\ part' = part /\ \A p \in Chunk : written'[p] = None
        /\ \A u \in Task : u # t => call'[u] = call[u]
        /\ call'[t].pc = "idle"
    BY <1>9, ReturnEffect DEF EndConsolidate
  <2> QED
    BY <2>1 DEF OkIsKept, AloneInv, Writing
<1>10. CASE UNCHANGED vars
  BY <1>10 DEF vars, OkIsKept, AloneInv
<1> QED
  BY <1>1, <1>2, <1>3, <1>4, <1>5, <1>6, <1>7, <1>8, <1>9, <1>10 DEF Next, Start, Step, Error

-----------------------------------------------------------------------------
(* The inductive invariant holds initially and in every behaviour.         *)
THEOREM WriterInvariant == Spec => [](WriterInv /\ KeptInv)
<1>1. Init => WriterInv /\ KeptInv
  <2> SUFFICES ASSUME Init PROVE WriterInv /\ KeptInv
    OBVIOUS
  <2>1. Writers = {} /\ Cardinality(Writers) = 0
    BY FS_EmptySet DEF Init, Writers, Idle, Writing
  <2>2. TypeOK
    <3>1. Idle \in Call
      BY DEF Idle, Call, Stage
    <3>2. call \in [Task -> [pc : Writing \union {"idle", "copy", "remove"},
                              pos : Nat, data : Data \union {None}, alone : BOOLEAN]]
      BY <3>1 DEF Init, Call, Stage
    <3>3. part \in [Chunk -> Content]
      BY DEF Init, Content
    <3>4. copied \in 0 .. n_of_chunks /\ errors \in 0 .. MaxErrors /\ leaked \in 0 .. MaxErrors
      BY ChunkCount, SizeAssumption DEF Init
    <3>5. writing_chunk \in [Chunk -> BOOLEAN] /\ written \in [Chunk -> Data \union {None}]
      BY DEF Init
    <3> QED
      BY <2>1, <3>2, <3>3, <3>4, <3>5 DEF Init, TypeOK
  <2>3. CallInv /\ CountInv
    BY <2>1 DEF Init, CallInv, CountInv, Idle, Writing
  <2>4. PartInv /\ CopyInv /\ KeptInv
    BY DEF Init, PartInv, CopyInv, KeptInv, OkIsKept, AloneInv, Idle, Writing
  <2> QED
    BY <2>2, <2>3, <2>4 DEF WriterInv
<1>2. WriterInv /\ KeptInv /\ [Next]_vars => (WriterInv /\ KeptInv)'
  BY TypeStep, CallStep, CountStep, PartStep, CopyStep, KeptStep DEF WriterInv
<1> QED
  BY <1>1, <1>2, PTL DEF Spec

-----------------------------------------------------------------------------
(* The variables have their types in every reachable state, and no index   *)
(* into writing_chunk is out of bounds.                                    *)
THEOREM WriterTypeCorrect == Spec => []TypeOK
<1>1. WriterInv /\ KeptInv => TypeOK
  BY DEF WriterInv
<1> QED
  BY <1>1, WriterInvariant, PTL

(* No write is under way during a consolidation, nor a second              *)
(* consolidation: the number in WritingChunks keeps both out.              *)
THEOREM ConsolidationAlone == Spec => []ConsolidatesAlone
<1>1. WriterInv /\ KeptInv => ConsolidatesAlone
  <2> SUFFICES ASSUME WriterInv, state = "Consolidating"
               PROVE  /\ Writers = {}
                      /\ \A t, u \in Task : call[t] # Idle /\ call[u] # Idle => t = u
    BY DEF ConsolidatesAlone
  <2>1. \A t \in Task : call[t].pc \notin Writing
    BY DEF WriterInv, CallInv
  <2>2. \A t \in Task : call[t].pc \in Writing \union {"idle", "copy", "remove"}
    BY DEF WriterInv, TypeOK
  <2>3. \A t \in Task : call[t] # Idle => call[t].pc \in {"copy", "remove"}
    BY <2>1, <2>2 DEF WriterInv, CallInv
  <2> QED
    BY <2>1, <2>3 DEF WriterInv, CallInv, Writers
<1> QED
  BY <1>1, WriterInvariant, PTL

(* The number is that of the writes under way and of the leaked ones, so   *)
(* that counting down never underflows, and a flag never outlives it.      *)
THEOREM NumberOfWriters == Spec => []WritersCounted
<1>1. WriterInv /\ KeptInv => WritersCounted
  <2> SUFFICES ASSUME WriterInv PROVE WritersCounted
    OBVIOUS
  <2>1. leaked \in Nat /\ state \in {"WritingChunks", "Consolidating"}
    BY SizeAssumption DEF WriterInv, TypeOK
  <2>2. ASSUME NEW p \in Chunk, writing_chunk[p] PROVE writing > 0
    <3>1. leaked > 0 \/ Writers # {}
      BY <2>2 DEF WriterInv, CountInv, Writers
    <3>2. state = "WritingChunks"
      BY <2>1, <2>2 DEF WriterInv, CountInv, CallInv, Writers
    <3>3. Writers # {} => Cardinality(Writers) # 0
      BY WritersFinite, FS_EmptySet
    <3>4. writing = Cardinality(Writers) + leaked
      BY <3>2 DEF WriterInv, CountInv
    <3> QED
      BY <2>1, <3>1, <3>3, <3>4, WritersFinite
  <2> QED
    BY <2>2 DEF WritersCounted, WriterInv, CountInv
<1> QED
  BY <1>1, WriterInvariant, PTL

(* What a lone write returned Ok for is in its chunk or, once copied, in   *)
(* the file until the chunk is rewritten or the file is complete.          *)
THEOREM WrittenIsKept == Spec => []OkIsKept
<1>1. WriterInv /\ KeptInv => OkIsKept
  BY DEF KeptInv
<1> QED
  BY <1>1, WriterInvariant, PTL

-----------------------------------------------------------------------------
(* The refinement mapping: the parts and the file that ChunkedFile sees.   *)
InFile(p) == state = "Consolidating" /\ p < copied
PartsSeen == [p \in Chunk |-> IF InFile(p) THEN Value(file[p]) ELSE Value(part[p])]
FileSeen == IF state = "Consolidating" \/ file = NoFile THEN None
            ELSE [p \in Chunk |-> Value(file[p])]

(* A step that changes one chunk file is a write or a loss of that part.   *)
LEMMA PartSeen ==
    ASSUME NEW p \in Chunk, state = "WritingChunks", UNCHANGED <<state, file>>,
           part'[p] \in Content, \A q \in Chunk : q # p => part'[q] = part[q]
    PROVE  [Promise!ChunkNext]_<<PartsSeen, FileSeen>>
<1> DEFINE v == Value(part'[p])
<1>1. v \in Data \union {None}
  BY DEF Value, Whole, Content
<1>2. PartsSeen' = [PartsSeen EXCEPT ![p] = v] /\ FileSeen' = FileSeen
  BY DEF PartsSeen, FileSeen, InFile
<1> HIDE DEF v
<1>3. CASE v = None
  <2>1. Promise!Lose(p)
    BY <1>2, <1>3 DEF Promise!Lose, PartsSeen, FileSeen, InFile
  <2> QED
    BY <2>1 DEF Promise!ChunkNext
<1>4. CASE v \in Data
  <2>1. PICK d \in Data : d = v
    BY <1>4
  <2>2. Promise!Write(p, d)
    BY <1>2, <2>1 DEF Promise!Write, PartsSeen, FileSeen, InFile
  <2> QED
    BY <2>2 DEF Promise!ChunkNext
<1> QED
  BY <1>1, <1>3, <1>4

(* A step that leaves what both sides hold is a stutter.                   *)
LEMMA NothingSeen ==
    ASSUME UNCHANGED <<state, file>>,
           \A p \in Chunk : InFile(p)' = InFile(p) /\ (~InFile(p) => part'[p] = part[p])
    PROVE  UNCHANGED <<PartsSeen, FileSeen>>
BY DEF PartsSeen, FileSeen

(* Every step of the file writer is a step of ChunkedFile or a stutter.    *)
LEMMA PromiseStep ==
    ASSUME WriterInv, [Next]_vars
    PROVE  [Promise!ChunkNext]_<<PartsSeen, FileSeen>>
<1> USE DEF WriterInv
<1>0. /\ part \in [Chunk -> Content] /\ copied \in Nat
      /\ \A p \in Chunk : p \in Nat
      /\ \A t \in Task : call[t].pc \in Writing => call[t].pos \in Chunk
      /\ \A t \in Task : call[t].pc \in Writing => state = "WritingChunks"
  BY ChunkCount DEF TypeOK, Chunk, Writers, CallInv
<1>1. CASE UNCHANGED <<state, part, file, copied>>
  BY <1>1, NothingSeen DEF InFile
<1>2. ASSUME NEW t \in Task, OpenChunk(t) PROVE [Promise!ChunkNext]_<<PartsSeen, FileSeen>>
  <2>1. call[t].pos \in Chunk /\ state = "WritingChunks" /\ UNCHANGED <<state, file>>
    BY <1>0, <1>2 DEF OpenChunk, Writing
  <2>2. Empty \in Content
    BY DEF Empty, Content
  <2>3. part'[call[t].pos] \in Content /\ \A q \in Chunk : q # call[t].pos => part'[q] = part[q]
    BY <1>0, <1>2, <2>1, <2>2 DEF OpenChunk
  <2> QED
    BY <2>1, <2>3, PartSeen
<1>3. ASSUME NEW t \in Task, WriteFirst(t) \/ WriteSecond(t)
      PROVE  [Promise!ChunkNext]_<<PartsSeen, FileSeen>>
  <2>1. /\ call[t].pc \in Writing \ {"open"} /\ UNCHANGED <<state, file>>
        /\ \E h \in 1 .. 2 : part' = [part EXCEPT ![call[t].pos][h] = call[t].data]
    BY <1>3 DEF WriteFirst, WriteSecond, WriteHalf, Writing
  <2>2. call[t].pos \in Chunk /\ state = "WritingChunks" /\ part[call[t].pos] # NoFile
    BY <1>0, <2>1 DEF PartInv
  <2>3. call[t].data \in Data \union {None}
    BY DEF TypeOK
  <2>4. part'[call[t].pos] \in Content /\ \A q \in Chunk : q # call[t].pos => part'[q] = part[q]
    BY <2>1, <2>2, <2>3, PartType
  <2> QED
    BY <2>1, <2>2, <2>4, PartSeen
<1>4. ASSUME NEW t \in Task, StartConsolidate(t)
      PROVE  [Promise!ChunkNext]_<<PartsSeen, FileSeen>>
  <2>1. state = "WritingChunks" /\ state' = "Consolidating" /\ part' = part /\ copied' = 0
    BY <1>4, NoneWriting DEF StartConsolidate, MayConsolidate
  <2>2. \A p \in Chunk : ~InFile(p) /\ ~InFile(p)'
    BY <1>0, <2>1 DEF InFile
  <2>3. PartsSeen' = PartsSeen
    BY <2>1, <2>2 DEF PartsSeen
  <2>4. FileSeen' = None
    BY <2>1 DEF FileSeen
  <2>5. Promise!Discard
    BY <2>3, <2>4 DEF Promise!Discard, PartsSeen, FileSeen, InFile
  <2> QED
    BY <2>5 DEF Promise!ChunkNext
<1>5. ASSUME NEW t \in Task, CopyChunk(t) PROVE [Promise!ChunkNext]_<<PartsSeen, FileSeen>>
  <2>1. /\ state = "Consolidating" /\ UNCHANGED <<state, part>> /\ copied < n_of_chunks
        /\ file' = [file EXCEPT ![copied] = part[copied]] /\ copied' = copied + 1
    BY <1>5 DEF CopyChunk, SeekPosition, CallInv
  <2>2. copied \in Chunk /\ file \in [Chunk -> Content]
    BY <1>0, <2>1, ChunkCount DEF Chunk, CopyInv
  <2>3. file'[copied] = part[copied] /\ \A p \in Chunk : p # copied => file'[p] = file[p]
    BY <2>1, <2>2
  <2>4. \A p \in Chunk : (p < copied' <=> p < copied \/ p = copied)
    BY <1>0, <2>1
  <2>5. ~(copied < copied)
    BY <1>0
  <2>6. PartsSeen' = PartsSeen
    BY <2>1, <2>3, <2>4, <2>5 DEF PartsSeen, InFile
  <2>7. FileSeen' = FileSeen
    BY <2>1 DEF FileSeen
  <2> QED
    BY <2>6, <2>7
<1>6. ASSUME NEW t \in Task, RemoveChunk(t) PROVE [Promise!ChunkNext]_<<PartsSeen, FileSeen>>
  <2>1. /\ state = "Consolidating" /\ UNCHANGED <<state, file, copied>> /\ copied > 0
        /\ part' = [part EXCEPT ![copied - 1] = NoFile]
    BY <1>6 DEF RemoveChunk, CopiedChunk, CallInv
  <2>2. copied - 1 < copied
    BY <1>0
  <2>3. \A p \in Chunk : ~(p < copied) => part'[p] = part[p]
    BY <1>0, <2>1, <2>2
  <2> QED
    BY <2>1, <2>3, NothingSeen DEF InFile
<1>7. ASSUME NEW t \in Task, EndConsolidate(t)
      PROVE  [Promise!ChunkNext]_<<PartsSeen, FileSeen>>
  <2>1. /\ call[t].pc = "copy" /\ state = "Consolidating" /\ copied = n_of_chunks
        /\ state' = "WritingChunks" /\ UNCHANGED <<part, file>>
    BY <1>7 DEF EndConsolidate, CallInv
  <2>2. \A p \in Chunk : p < copied
    BY <2>1, ChunkCount DEF Chunk
  <2>3. \A p \in Chunk : InFile(p) /\ ~InFile(p)' /\ Whole(file[p]) /\ part[p] = NoFile
    BY <2>1, <2>2 DEF CopyInv, InFile
  <2>4. /\ \A p \in Chunk : Value(file[p]) # None /\ Value(part'[p]) = None
        /\ file \in [Chunk -> Content]
    BY <2>1, <2>3 DEF Value, Whole, CopyInv
  <2>5. /\ PartsSeen = [p \in Chunk |-> Value(file[p])]
        /\ PartsSeen' = [p \in Chunk |-> None] /\ FileSeen = None
    BY <2>1, <2>3, <2>4 DEF PartsSeen, FileSeen
  <2>6. CASE file = NoFile
    <3>1. Chunk = {}
      <4>1. DOMAIN file = {}
        BY <2>6 DEF NoFile
      <4> QED
        BY <2>4, <4>1
    <3>2. FileSeen' = None
      BY <2>1, <2>6 DEF FileSeen
    <3>3. PartsSeen' = PartsSeen
      BY <2>5, <3>1
    <3> QED
      BY <2>5, <3>2, <3>3
  <2>7. CASE file # NoFile
    <3>1. FileSeen' = PartsSeen
      BY <2>1, <2>5, <2>7 DEF FileSeen
    <3>2. \A p \in Chunk : PartsSeen[p] # None
      BY <2>4, <2>5
    <3>3. Promise!Publish
      BY <2>5, <3>1, <3>2 DEF Promise!Publish, Promise!NoParts, PartsSeen, FileSeen, InFile
    <3> QED
      BY <3>3 DEF Promise!ChunkNext
  <2> QED
    BY <2>6, <2>7
<1>8. ASSUME NEW t \in Task,
             \/ Finish(t) \/ OpenFails(t) \/ WriteFails(t) \/ ChunkMissing(t) \/ CopyFails(t)
             \/ \E offset, len, d : StartWrite(t, offset, len, d)
      PROVE  UNCHANGED <<state, part, file, copied>>
  BY <1>8 DEF Finish, OpenFails, WriteFails, ChunkMissing, CopyFails, StartWrite
<1>9. UNCHANGED vars => UNCHANGED <<state, part, file, copied>>
  BY DEF vars
<1> QED
  BY <1>1, <1>2, <1>3, <1>4, <1>5, <1>6, <1>7, <1>8, <1>9 DEF Next, Start, Step, Error

(* A file writer implements ChunkedFile: whatever calls overlap or fail,   *)
(* the file appears only as the assembly of parts that were all there,     *)
(* each of one write's data, and a part is never lost except to a write.   *)
THEOREM WriterImplementsPromise == Spec => ImplementsPromise
<1>1. Init => Promise!ChunkInit
  <2>1. Init => \A p \in Chunk : Value(part[p]) = None
    BY DEF Init, Value, Whole
  <2> QED
    BY <2>1 DEF Init, Promise!ChunkInit, Promise!NoParts
<1>2. WriterInv /\ KeptInv /\ [Next]_vars => [Promise!ChunkNext]_<<PartsSeen, FileSeen>>
  BY PromiseStep
<1> QED
  BY <1>1, <1>2, WriterInvariant, PTL DEF Spec, ImplementsPromise, Promise!ChunkSpec, PartsSeen, FileSeen, InFile
=============================================================================
