------------------------------ MODULE EngineCalls ------------------------------
(***************************************************************************)
(* Concurrent calls on one StorageBackend (crates/aresadb-core/src/        *)
(* memory.rs, crates/aresadb-engine-redb, crates/aresadb-engine-lsm).  A   *)
(* call first checks that the backend is open (ensure_open, or a clone of  *)
(* the handle), then does its work on a blocking thread: close may fall    *)
(* between the two.  redb writes in one transaction and memory under its   *)
(* lock; the LSM engine looks up the keys of a range delete before it      *)
(* commits the batch, a step apart.                                        *)
(*                                                                         *)
(* The bound 0 is KeyRange's empty byte string: no bound.                  *)
(***************************************************************************)
EXTENDS StorageBatches

CONSTANTS EngineThreads, CallBatches, CallRanges, MaxBatchCalls

ASSUME EngineConstants ==
    CallBatches \subseteq Seq(WriteOps) /\ CallRanges \subseteq [start : Nat, end : Nat]

VARIABLES
    kind,           \* the engine
    content,        \* what the backend holds
    opened,         \* ~closed, or the handle is Some
    task,           \* task[t]: the call of a thread
    batches,        \* write calls so far
    serial,         \* the batches executed one by one in commit order
    raced           \* another batch committed while this one was staged

engineVars == <<kind, content, opened, task, batches, serial, raced>>

NoTask == [pc |-> "idle"]

EngineInit ==
    /\ kind \in Engines
    /\ content = EmptyStore /\ serial = EmptyStore
    /\ opened = TRUE /\ batches = 0 /\ raced = FALSE
    /\ task = [t \in EngineThreads |-> NoTask]

(* KeyRange::contains. *)
RangeContains(r, k) == r.start <= k /\ (r.end = 0 \/ k < r.end)

(* The keys a scan walks: a filter in memory, the four forms of a slice range
   in the other two. *)
ScanKeys(e, r) ==
    IF e = "memory" THEN {k \in Keys : RangeContains(r, k)}
    ELSE CASE r.start = 0 /\ r.end = 0 -> Keys
           [] r.start # 0 /\ r.end = 0 -> {k \in Keys : r.start <= k}
           [] r.start = 0 /\ r.end # 0 -> {k \in Keys : k < r.end}
           [] OTHER -> {k \in Keys : r.start <= k /\ k < r.end}

Rows(s, K) == [k \in {j \in K : s[j] # Absent} |-> s[k]]

-------------------------------------------------------------------------------
(* get, scan, snapshot, write_batch and flush with their arguments. *)
Calls == [op : {"scan"}, range : CallRanges] \cup [op : {"get"}, key : Keys]
         \cup [op : {"snapshot", "flush"}] \cup [op : {"write"}, ops : CallBatches]

(* The open check of each. *)
BeginCall(t) ==
    /\ task[t].pc \in {"idle", "done", "refused"}
    /\ \E call \in Calls :
          /\ call.op = "write" => batches < MaxBatchCalls
          /\ batches' = batches + (IF call.op = "write" THEN 1 ELSE 0)
          /\ task' = [task EXCEPT ![t] =
                         IF opened THEN [pc |-> "run", call |-> call, base |-> content]
                         ELSE [pc |-> "refused", call |-> call]]
    /\ UNCHANGED <<kind, content, opened, serial, raced>>

(* A read returns rows; "state" is what the batches so far leave in order. *)
TaskAnswers(t, op, rows) ==
    /\ task[t].pc = "run" /\ task[t].call.op = op
    /\ task' = [task EXCEPT ![t] = [pc |-> "done", call |-> @.call, state |-> serial,
                                    clean |-> ~raced, rows |-> rows]]
    /\ UNCHANGED <<kind, content, opened, batches, serial, raced>>

GetTask(t) == TaskAnswers(t, "get", Rows(content, {task[t].call.key}))

(* The range is copied out in one read transaction. *)
ScanTask(t) == TaskAnswers(t, "scan", Rows(content, ScanKeys(kind, task[t].call.range)))

(* So is the whole keyspace. *)
SnapshotTask(t) == TaskAnswers(t, "snapshot", Rows(content, Keys))

(* Every batch was made durable when it was written. *)
FlushTask(t) == TaskAnswers(t, "flush", Rows(content, {}))

(* MVCC copies: a snapshot's rows stay what they were. *)
SnapshotScan(t, r) == {k \in DOMAIN task[t].rows : RangeContains(r, k)}

(* apply_ops_and_persist reads the ranges it deletes. *)
StageBatch(t) ==
    /\ kind = "lsm" /\ task[t].pc = "run" /\ task[t].call.op = "write"
    /\ task' = [task EXCEPT ![t] = [pc |-> "staged", call |-> @.call, base |-> content]]
    /\ UNCHANGED <<kind, content, opened, batches, serial, raced>>

(* A mutant: redb reads and writes in separate transactions. *)
WrittenBy_TwoTx(t) ==
    LET from == task[t].base IN
    [k \in Keys |-> IF \E i \in DOMAIN task[t].call.ops : Reaches(kind, from, task[t].call.ops[i], k)
                    THEN WriteBatch(kind, from, task[t].call.ops)[k]
                    ELSE from[k]]

(* The rows a batch leaves.  Staged removes and puts land on what is there at
   the commit; the removes of a range are those of the staging. *)
WrittenBy(t) ==
    LET from == IF kind = "lsm" THEN task[t].base ELSE content IN
    [k \in Keys |-> IF \E i \in DOMAIN task[t].call.ops : Reaches(kind, from, task[t].call.ops[i], k)
                    THEN WriteBatch(kind, from, task[t].call.ops)[k]
                    ELSE content[k]]

CommitBatch(t) ==
    /\ task[t].call.op = "write"
    /\ task[t].pc = (IF kind = "lsm" THEN "staged" ELSE "run")
    /\ content' = WrittenBy(t)
    /\ serial' = InOrder(serial, task[t].call.ops)
    /\ raced' = (raced \/ (kind = "lsm" /\ task[t].base # content
                             /\ \E i \in DOMAIN task[t].call.ops : task[t].call.ops[i].op = "DeleteRange"))
    /\ task' = [task EXCEPT ![t] = [pc |-> "done", call |-> @.call, state |-> serial',
                                    clean |-> ~raced', rows |-> Rows(content', {})]]
    /\ UNCHANGED <<kind, opened, batches>>

(* close does not wait for the calls under way. *)
CloseBackend ==
    /\ opened
    /\ opened' = FALSE
    /\ UNCHANGED <<kind, content, task, batches, serial, raced>>

(* open of the same path finds what was committed.  It fails while a call
   still holds the old handle, which has the file locked. *)
OpenBackend ==
    /\ ~opened /\ kind # "memory"
    /\ \A t \in EngineThreads : task[t].pc \notin {"run", "staged"}
    /\ opened' = TRUE
    /\ UNCHANGED <<kind, content, task, batches, serial, raced>>

EngineSteps ==
    \/ \E t \in EngineThreads :
          \/ BeginCall(t)
          \/ task[t].pc = "run" /\ (GetTask(t) \/ ScanTask(t) \/ SnapshotTask(t) \/ FlushTask(t))
          \/ StageBatch(t)
          \/ task[t].pc \in {"run", "staged"} /\ CommitBatch(t)
    \/ CloseBackend \/ OpenBackend

EngineSpec == EngineInit /\ [][EngineSteps]_engineVars

-------------------------------------------------------------------------------
(* Concurrent batches leave what running them one after the other leaves, and
   every read sees such a state, in each of the engines, also when close falls
   between a call's start and its work.  The exception is the LSM engine: a
   range delete misses rows that another batch commits after the staging. *)
BatchesSerial ==
    /\ raced \/ content = serial
    /\ \A t \in EngineThreads : task[t].pc = "done" /\ task[t].clean =>
          /\ task[t].call.op = "scan" =>
                task[t].rows = Rows(task[t].state, {k \in Keys : RangeContains(task[t].call.range, k)})
          /\ task[t].call.op = "get" => task[t].rows = Rows(task[t].state, {task[t].call.key})
          /\ task[t].call.op = "snapshot" =>
                \A r \in CallRanges : SnapshotScan(t, r) = DOMAIN Rows(task[t].state, ScanKeys(kind, r))
================================================================================
