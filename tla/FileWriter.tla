----------------------------- MODULE FileWriter -----------------------------
(***************************************************************************)
(* One FileWriter (src/file_writer.rs) under any number of concurrent      *)
(* calls of write_chunk and consolidate, down to the two parts in which a  *)
(* chunk reaches the disk, with an error possible at every operation on a  *)
(* file. A call is one task; its steps are the stretches between awaits.   *)
(* Overlapping writes of one chunk carry the same data (two answers to the *)
(* same request), which is what StorageManager's lock leaves possible.     *)
(***************************************************************************)
EXTENDS Integers, FiniteSets

CONSTANTS
    Task, Data, None,
    FileSize, ChunkSize,
    MaxErrors          \* bound on failing operations

ASSUME SizeAssumption ==
    /\ IsFiniteSet(Task)
    /\ FileSize \in Nat /\ ChunkSize \in Nat \ {0} /\ MaxErrors \in Nat
    /\ None \notin Data

(* FileWriter::new, the positions of the chunks and the size of each.      *)
\* Mutant: the division is not rounded up.
n_of_chunks_down == FileSize \div ChunkSize
n_of_chunks == (FileSize + ChunkSize - 1) \div ChunkSize
Chunk == 0 .. n_of_chunks - 1

(* The checks at the start of write_chunk.                                 *)
last_offset == (FileSize \div ChunkSize) * ChunkSize
Accepted(offset, len) ==
    /\ offset % ChunkSize = 0
    /\ offset < FileSize
    /\ len = ChunkSize \/ (len < ChunkSize /\ offset = last_offset)

(* The content of a chunk: the data of its first and of its second half.   *)
NoFile == <<>>
Empty == <<None, None>>
Content == {NoFile} \union [1 .. 2 -> Data \union {None}]
Whole(c) == c # NoFile /\ c[1] = c[2] /\ c[1] # None

Idle == [pc |-> "idle", pos |-> 0, data |-> None, alone |-> TRUE]

VARIABLES
    state,          \* WritingChunks or Consolidating
    writing,        \* the number in WritingChunks
    writing_chunk,  \* the flag of each chunk
    part,           \* the chunk files
    file,           \* the file, chunk by chunk; NoFile when it does not exist
    copied,         \* chunks that the consolidation has copied
    call,           \* task -> where its call is, and whether no other write of
                    \* the same chunk has overlapped it
    errors,         \* operations that failed
    leaked,         \* writes that failed and never decrement the number
    written         \* chunk -> data of a write that returned Ok and was alone,
                    \* until the chunk is opened again

vars == <<state, writing, writing_chunk, part, file, copied, call, errors, leaked, written>>

Writing == {"open", "first", "second", "sync"}
Writers == {t \in Task : call[t].pc \in Writing}
WritersOf(p) == {t \in Writers : call[t].pos = p}
Goto(t, pc) == call' = [call EXCEPT ![t].pc = pc]
Return(t) == call' = [call EXCEPT ![t] = Idle]
Fail == errors < MaxErrors /\ errors' = errors + 1

-----------------------------------------------------------------------------
(* write_chunk: the state is counted up and the flag set. The exchange     *)
(* never yields Ok(true), so a chunk being written is not refused.         *)
StartWrite(t, offset, len, d) ==
    /\ call[t] = Idle /\ Accepted(offset, len)
    /\ \A u \in WritersOf(offset \div ChunkSize) : call[u].data = d
    /\ state = "WritingChunks" /\ writing' = writing + 1
    /\ LET p == offset \div ChunkSize
       IN call' = [u \in Task |->
            IF u = t THEN [pc |-> "open", pos |-> p, data |-> d, alone |-> WritersOf(p) = {}]
            ELSE [call[u] EXCEPT !.alone = @ /\ u \notin WritersOf(p)]]
    /\ writing_chunk' = [writing_chunk EXCEPT ![offset \div ChunkSize] = TRUE]
    /\ UNCHANGED <<state, part, file, copied, errors, leaked, written>>

Unwritten(p) == written' = [written EXCEPT ![p] = None]

OpenChunk(t) ==
    /\ call[t].pc = "open" /\ Goto(t, "first")
    /\ part' = [part EXCEPT ![call[t].pos] = Empty]
    /\ Unwritten(call[t].pos)
    /\ UNCHANGED <<state, writing, writing_chunk, file, copied, errors, leaked>>

(* The open fails: the flag is cleared, the number stays.                  *)
OpenFails(t) ==
    /\ call[t].pc = "open" /\ Fail /\ Return(t)
    /\ leaked' = leaked + 1
    /\ writing_chunk' = [writing_chunk EXCEPT ![call[t].pos] = FALSE]
    /\ UNCHANGED <<state, writing, part, file, copied, written>>

WriteHalf(t, h, pc, next) ==
    /\ call[t].pc = pc /\ Goto(t, next)
    /\ part' = [part EXCEPT ![call[t].pos][h] = call[t].data]
    /\ UNCHANGED <<state, writing, writing_chunk, file, copied, errors, leaked, written>>
WriteFirst(t) == WriteHalf(t, 1, "first", "second")
WriteSecond(t) == WriteHalf(t, 2, "second", "sync")

(* An error of set_len, write_all or sync_all: flag and number stay.       *)
WriteFails(t) ==
    /\ call[t].pc \in Writing \ {"open"} /\ Fail /\ Return(t)
    /\ leaked' = leaked + 1
    /\ UNCHANGED <<state, writing, writing_chunk, part, file, copied, written>>

\* Mutant: the number is not counted down.
NotReleased == writing
Released == writing - 1

Finish(t) ==
    /\ call[t].pc = "sync" /\ Return(t)
    /\ writing_chunk' = [writing_chunk EXCEPT ![call[t].pos] = FALSE]
    /\ state = "WritingChunks" /\ writing' = Released
    /\ written' = [written EXCEPT ![call[t].pos] =
                     IF call[t].alone THEN call[t].data ELSE @]
    /\ UNCHANGED <<state, part, file, copied, errors, leaked>>

-----------------------------------------------------------------------------
\* Mutant: any number is taken for 0.
MayConsolidateWriting == state = "WritingChunks"
MayConsolidate == state = "WritingChunks" /\ writing = 0

NoneBeingWritten == \A p \in Chunk : ~writing_chunk[p]

(* consolidate: with a flag set the whole loop would be skipped.           *)
StartConsolidate(t) ==
    /\ call[t] = Idle /\ MayConsolidate
    /\ state' = "Consolidating"
    /\ Goto(t, "copy")
    /\ file' = IF NoneBeingWritten THEN [p \in Chunk |-> Empty] ELSE file
    /\ copied' = IF NoneBeingWritten THEN 0 ELSE n_of_chunks
    /\ UNCHANGED <<writing, writing_chunk, part, errors, leaked, written>>

\* Mutant: no seek, every chunk is written at the start of the file.
StartOfFile == 0
SeekPosition == copied

CopyChunk(t) ==
    /\ call[t].pc = "copy" /\ copied < n_of_chunks /\ part[copied] # NoFile
    /\ file' = [file EXCEPT ![SeekPosition] = part[copied]]
    /\ copied' = copied + 1 /\ Goto(t, "remove")
    /\ UNCHANGED <<state, writing, writing_chunk, part, errors, leaked, written>>

\* Mutant: the index was advanced before the removal.
NextChunk == copied
CopiedChunk == copied - 1

RemoveChunk(t) ==
    /\ call[t].pc = "remove" /\ Goto(t, "copy")
    /\ part' = [part EXCEPT ![CopiedChunk] = NoFile]
    /\ UNCHANGED <<state, writing, writing_chunk, file, copied, errors, leaked, written>>

(* An error in the loop leaves the writer in the state Consolidating.      *)
ChunkMissing(t) ==
    /\ call[t].pc = "copy" /\ copied < n_of_chunks /\ part[copied] = NoFile
    /\ Return(t)
    /\ UNCHANGED <<state, writing, writing_chunk, part, file, copied, errors, leaked, written>>
CopyFails(t) ==
    /\ call[t].pc \in {"copy", "remove"} /\ Fail /\ Return(t)
    /\ UNCHANGED <<state, writing, writing_chunk, part, file, copied, leaked, written>>

\* Mutant: Consolidating is not left.
EndConsolidateStuck(t) ==
    /\ call[t].pc = "copy" /\ copied = n_of_chunks
    /\ Return(t) /\ copied' = 0 /\ written' = [p \in Chunk |-> None]
    /\ UNCHANGED <<state, writing, writing_chunk, part, file, errors, leaked>>
EndConsolidate(t) ==
    /\ call[t].pc = "copy" /\ copied = n_of_chunks
    /\ Return(t) /\ copied' = 0 /\ written' = [p \in Chunk |-> None]
    /\ state' = "WritingChunks" /\ writing' = 0
    /\ UNCHANGED <<writing_chunk, part, file, errors, leaked>>

-----------------------------------------------------------------------------
Init ==
    /\ state = "WritingChunks" /\ writing = 0
    /\ writing_chunk = [p \in Chunk |-> FALSE]
    /\ part = [p \in Chunk |-> NoFile] /\ file = NoFile /\ copied = 0
    /\ call = [t \in Task |-> Idle] /\ errors = 0 /\ leaked = 0
    /\ written = [p \in Chunk |-> None]

Step(t) == OpenChunk(t) \/ WriteFirst(t) \/ WriteSecond(t) \/ Finish(t)
             \/ CopyChunk(t) \/ RemoveChunk(t) \/ ChunkMissing(t) \/ EndConsolidate(t)
Error(t) == OpenFails(t) \/ WriteFails(t) \/ CopyFails(t)
Start(t) ==
    \/ \E offset \in 0 .. FileSize + 1, len \in 0 .. ChunkSize + 1, d \in Data :
         StartWrite(t, offset, len, d)
    \/ StartConsolidate(t)

Next == \E t \in Task : Start(t) \/ Step(t) \/ Error(t)

(* A call that has started is polled until it returns.                     *)
Spec == Init /\ [][Next]_vars /\ \A t \in Task : WF_vars(Step(t))

-----------------------------------------------------------------------------
(* Every variable has its type, and a call is about a chunk that exists:   *)
(* the index into writing_chunk is never out of bounds.                    *)
TypeOK ==
    /\ state \in {"WritingChunks", "Consolidating"} /\ writing \in Nat
    /\ writing_chunk \in [Chunk -> BOOLEAN]
    /\ part \in [Chunk -> Content]
    /\ file = NoFile \/ file \in [Chunk -> Content]
    /\ copied \in 0 .. n_of_chunks
    /\ call \in [Task -> [pc : Writing \union {"idle", "copy", "remove"},
                          pos : Nat, data : Data \union {None}, alone : BOOLEAN]]
    /\ \A t \in Writers : call[t].pos \in Chunk
    /\ errors \in 0 .. MaxErrors /\ leaked \in 0 .. MaxErrors
    /\ written \in [Chunk -> Data \union {None}]

(* A consolidation has the chunks for itself, whatever writes ended, failed*)
(* or were refused before: "there should not be any writing happening".    *)
ConsolidatesAlone ==
    state = "Consolidating" =>
      /\ Writers = {}
      /\ \A t, u \in Task : call[t] # Idle /\ call[u] # Idle => t = u

(* The number in WritingChunks is that of the writes under way and of the  *)
(* failed ones, so that x - 1 does not underflow and a flag that is set    *)
(* keeps consolidate out by the number already.                            *)
WritersCounted ==
    /\ state = "WritingChunks" => writing = Cardinality(Writers) + leaked
    /\ \A p \in Chunk : writing_chunk[p] => writing > 0

(* The data of a write that returned Ok stays until the chunk is rewritten *)
(* or the file is complete, in the chunk or, once copied, in the file,     *)
(* unless another write of the chunk overlapped: the flag that should have *)
(* refused it does not, and its truncation takes the data of the first.    *)
OkIsKept ==
    \A p \in Chunk : written[p] # None =>
      LET c == IF state = "Consolidating" /\ p < copied THEN file[p] ELSE part[p]
      IN Whole(c) /\ c[1] = written[p]

(* What consolidate and write_chunk leave is at every step a state of the  *)
(* abstract file: chunks copied count as parts until the file is complete. *)
Value(c) == IF Whole(c) THEN c[1] ELSE None
Promise == INSTANCE ChunkedFile WITH
    parts <- [p \in Chunk |-> IF state = "Consolidating" /\ p < copied
                              THEN Value(file[p]) ELSE Value(part[p])],
    file <- IF state = "Consolidating" \/ file = NoFile THEN None
            ELSE [p \in Chunk |-> Value(file[p])]
ImplementsPromise == Promise!ChunkSpec

(* A consolidation with all its chunks there ends and lets writes in again,*)
(* unless an operation on a file fails.                                    *)
ConsolidationEnds ==
    state = "Consolidating" /\ (\A p \in Chunk : p >= copied => part[p] # NoFile)
      ~> state = "WritingChunks" \/ errors > 0
=============================================================================
