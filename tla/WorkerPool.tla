----------------------------- MODULE WorkerPool -----------------------------
(***************************************************************************)
(* The tasks that store the blocks of one file, on the worker threads of   *)
(* the tokio runtime (#[tokio::main] in main.rs). The entry of             *)
(* file_writers is a lock of a DashMap shard: it is held across the awaits *)
(* of write_chunk and consolidate (src/storage.rs), and a task that finds  *)
(* it taken blocks its thread instead of giving it back to the runtime.    *)
(***************************************************************************)
EXTENDS FiniteSets

CONSTANTS Worker, Task, Nobody

VARIABLES
    thread,  \* worker -> the task it runs, or Nobody
    pc,      \* task -> arriving, entry, io, resumed or done
    op,      \* task -> the operation under way: write, consolidate
    entry    \* the task that holds the entry, or Nobody

vars == <<thread, pc, op, entry>>

Running(t) == \E w \in Worker : thread[w] = t
Runnable(t) == pc[t] \in {"entry", "resumed"} /\ ~Running(t)

(* The reader task spawns a task for a response.                           *)
Spawn(t) ==
    /\ pc[t] = "arriving" /\ pc' = [pc EXCEPT ![t] = "entry"]
    /\ UNCHANGED <<thread, op, entry>>

(* An idle worker takes a task that can run.                               *)
Schedule(w, t) ==
    /\ thread[w] = Nobody /\ Runnable(t)
    /\ thread' = [thread EXCEPT ![w] = t]
    /\ UNCHANGED <<pc, op, entry>>

(* entry(..).or_insert(..), and then the first operation on a file, which  *)
(* is awaited: the worker is free again and the entry is not. While        *)
(* another task holds the entry there is no such step and w stays taken.   *)
TakeEntry(w, t) ==
    /\ thread[w] = t /\ pc[t] = "entry" /\ entry = Nobody
    /\ entry' = t
    /\ pc' = [pc EXCEPT ![t] = "io"]
    /\ thread' = [thread EXCEPT ![w] = Nobody]
    /\ UNCHANGED op

(* The blocking pool ends an operation of tokio::fs and wakes the task.    *)
WakeUp(t) ==
    /\ pc[t] = "io" /\ pc' = [pc EXCEPT ![t] = "resumed"]
    /\ UNCHANGED <<thread, op, entry>>

(* The call returns and the entry is dropped; the task that marks the last *)
(* block goes on to conclude_block_storage.                                *)
ReleaseEntry(w, t) ==
    /\ thread[w] = t /\ pc[t] = "resumed"
    /\ entry' = Nobody
    /\ IF op[t] = "write" /\ \A u \in Task \ {t} : pc[u] = "done"
       THEN /\ op' = [op EXCEPT ![t] = "consolidate"]
            /\ pc' = [pc EXCEPT ![t] = "entry"]
            /\ UNCHANGED thread
       ELSE /\ pc' = [pc EXCEPT ![t] = "done"]
            /\ thread' = [thread EXCEPT ![w] = Nobody]
            /\ UNCHANGED op

Init ==
    /\ thread = [w \in Worker |-> Nobody]
    /\ pc = [t \in Task |-> "arriving"] /\ op = [t \in Task |-> "write"]
    /\ entry = Nobody

Run(t) == \E w \in Worker : Schedule(w, t) \/ TakeEntry(w, t) \/ ReleaseEntry(w, t)

Next == \E t \in Task : Spawn(t) \/ WakeUp(t) \/ Run(t)

(* Responses arrive, operations on files end, and the runtime and the lock *)
(* are fair to every task.                                                 *)
Spec == Init /\ [][Next]_vars
          /\ \A t \in Task : WF_vars(Spawn(t)) /\ WF_vars(WakeUp(t)) /\ SF_vars(Run(t))

(* Every block is written in the end and the file consolidated: the        *)
(* message "Stored whole file" that the integration test waits for comes.  *)
AllWritten == <>(\A t \in Task : pc[t] = "done")
=============================================================================
