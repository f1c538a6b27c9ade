---------------------------- MODULE StorageEngine ----------------------------
(***************************************************************************)
(* WriteBatch and the three StorageBackend engines                         *)
(* (crates/aresadb-core/src/write_batch.rs, memory.rs,                     *)
(* crates/aresadb-engine-redb, crates/aresadb-engine-lsm).                 *)
(*                                                                         *)
(* A store maps every key to its value or to Absent, keys are 1 .. KeyCount  *)
(* in byte order, and a range delete names the half-open [start, end).     *)
(***************************************************************************)
EXTENDS Integers, Sequences, FiniteSetsExt

CONSTANTS KeyCount, Values, Absent

ASSUME StoreConstants == KeyCount \in Nat \ {0} /\ Absent \notin Values

Keys == 1 .. KeyCount

Stores == [Keys -> Values \cup {Absent}]

EmptyStore == [k \in Keys |-> Absent]

WriteOps ==
    [op : {"Put"}, key : Keys, value : Values]
    \cup [op : {"Delete"}, key : Keys]
    \cup {o \in [op : {"DeleteRange"}, start : Keys, end : 1 .. KeyCount + 1] :
             o.start <= o.end}

Engines == {"memory", "redb", "lsm"}

(* The keys an op names. *)
Names(op, k) ==
    IF op.op = "DeleteRange" THEN op.start <= k /\ k < op.end ELSE op.key = k

(* The value it leaves there. *)
Outcome(op) == IF op.op = "Put" THEN op.value ELSE Absent

(* fjall has no range delete: apply_ops_and_persist stages one remove per key
   the keyspace held BEFORE the batch, so a range delete reaches no key that
   the batch itself created.  memory and redb read their own writes.       *)
Reaches(engine, base, op, k) ==
    /\ Names(op, k)
    /\ engine = "lsm" /\ op.op = "DeleteRange" => base[k] # Absent

(* Mutant: an earlier op on a key shadows the later ones. *)
WriteBatch_FirstWins(engine, base, ops) ==
    [k \in Keys |->
        LET hits == {i \in DOMAIN ops : Reaches(engine, base, ops[i], k)}
        IN  IF hits = {} THEN base[k]
            ELSE Outcome(ops[Min(hits)])]

(* write_batch: every op in order, atomically; on each key the last op that
   reaches it decides.                                                     *)
WriteBatch(engine, base, ops) ==
    [k \in Keys |->
        LET hits == {i \in DOMAIN ops : Reaches(engine, base, ops[i], k)}
        IN  IF hits = {} THEN base[k]
            ELSE Outcome(ops[Max(hits)])]

(* What every caller in the repository writes: delete_range, then puts. *)
RangeDeletesFirst(ops) ==
    \A i, j \in DOMAIN ops :
        i < j /\ ops[j].op = "DeleteRange" => ops[i].op = "DeleteRange"
==============================================================================
