---------------------------- MODULE StorageBatches ----------------------------
(***************************************************************************)
(* The same batches written to one store of each engine.  The reference is *)
(* the MemoryBackend, "what should this do?" in memory.rs: it runs the ops *)
(* of a batch one after the other under its write lock.                    *)
(***************************************************************************)
EXTENDS StorageEngine, SequencesExt

CONSTANTS MaxOps,          \* bound on the ops of a batch
          RangesFirst      \* TRUE: only batches whose range deletes come first

ASSUME BatchConstants == MaxOps \in Nat /\ RangesFirst \in BOOLEAN

VARIABLES store,    \* store[e]: the contents of engine e's store
          base,     \* the reference store before the last batch
          batch     \* the last batch

batchVars == <<store, base, batch>>

WriteBatches == {ops \in UNION {[1 .. n -> WriteOps] : n \in 0 .. MaxOps} :
               RangesFirst => RangeDeletesFirst(ops)}

(* One op on a map, as MemoryBackend and RedbBackend execute it. *)
Execute(s, op) ==
    [k \in Keys |-> IF Names(op, k) THEN Outcome(op) ELSE s[k]]

InOrder(s, ops) == FoldLeft(Execute, s, ops)

BatchInit == /\ store = [e \in Engines |-> EmptyStore]
        /\ base = EmptyStore
        /\ batch = <<>>

Write(ops) ==
    /\ store' = [e \in Engines |-> WriteBatch(e, store[e], ops)]
    /\ base' = store["memory"]
    /\ batch' = ops

BatchNext == \E ops \in WriteBatches : Write(ops)

BatchSpec == BatchInit /\ [][BatchNext]_batchVars
------------------------------------------------------------------------------
(* trait_.rs: "The ordering within the batch matters: later ops shadow earlier
   ones on the same key."  On every engine the batch leaves what running its
   ops one by one would leave.                                             *)
BatchInOrder == \A e \in Engines : store[e] = InOrder(base, batch)

(* Every engine is the same map: no batch can be told apart by the engine
   that took it, which is what lets a group mix engines.                   *)
EnginesAgree == \A e, f \in Engines : store[e] = store[f]
==============================================================================
