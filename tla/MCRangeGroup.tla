----------------------------- MODULE MCRangeGroup -----------------------------
(* Small logs for the runs of RangeGroup. *)
EXTENDS RangeGroup

CONSTANTS v1, v2, r1, r2

Batch(ops) == [op |-> "WriteBatch", ops |-> ops]
Put(k, v) == [op |-> "Put", key |-> k, value |-> v]
Del(k) == [op |-> "Delete", key |-> k]
DelRange(a, b) == [op |-> "DeleteRange", start |-> a, end |-> b]

First == Batch(<<Put(1, v2), Put(2, v1)>>)

Entries == {Batch(<<Put(1, v1)>>), Batch(<<DelRange(1, 3), Put(2, v2)>>),
            [op |-> "Membership"]}

(* Logs that start with a write and go on with any two of these entries, and two
   with a delete and with entries without ops.                             *)
MixedLogs == {<<First>> \o t : t \in [1 .. 2 -> Entries]}
             \cup {<<First, Batch(<<Del(1)>>), [op |-> "Noop"]>>,
                   <<First, [op |-> "Blank"], Batch(<<Put(1, v1)>>)>>}

MixedEngines == [r \in Replicas |-> IF r = r1 THEN "redb" ELSE "lsm"]
==============================================================================
