---------------------------- MODULE ChunkedFile ----------------------------
(***************************************************************************)
(* What a file writer (src/file_writer.rs) promises its callers: the parts *)
(* of a file are collected one by one, and the file appears only as the    *)
(* assembly of parts that were all there, each with the data of one write. *)
(***************************************************************************)
EXTENDS Naturals

CONSTANTS Chunk, Data, None

VARIABLES
    parts,  \* chunk -> the data of its last write, None when there is none
    file    \* chunk -> data, None when the file is missing or incomplete

NoParts == [p \in Chunk |-> None]

ChunkInit == parts = NoParts /\ file = None

Write(p, d) == parts' = [parts EXCEPT ![p] = d] /\ UNCHANGED file

(* A write begins: what was there is gone, also when it fails later.       *)
Lose(p) == parts' = [parts EXCEPT ![p] = None] /\ UNCHANGED file

(* A consolidation begins, or is tried without all the parts.              *)
Discard == file' = None /\ UNCHANGED parts

Publish ==
    /\ file = None
    /\ \A p \in Chunk : parts[p] # None
    /\ file' = parts /\ parts' = NoParts

ChunkNext ==
    \/ \E p \in Chunk : Lose(p) \/ \E d \in Data : Write(p, d)
    \/ Discard \/ Publish

ChunkSpec == ChunkInit /\ [][ChunkNext]_<<parts, file>>
=============================================================================
