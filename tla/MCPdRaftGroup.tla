---------------------------- MODULE MCPdRaftGroup ----------------------------
(* Small command sets for the runs of PdRaftGroup. *)
EXTENDS PdRaftGroup

CONSTANTS ra, rb, l1, n1, a1

Desc(id, start, end, replicas) ==
    [range_id |-> id, start_key |-> start, end_key |-> end,
     replicas |-> replicas, raft_group_id |-> id, epoch |-> 0,
     generation |-> 0, lease |-> None]

CreateAll == [op |-> "CreateRange", desc |-> Desc(1, 0, 0, ra)]
SplitAt(id, k) == [op |-> "SplitRange", parent |-> id, key |-> k]
Merge(l, r) == [op |-> "MergeRanges", left |-> l, right |-> r]
Lease(id) == [op |-> "UpdateLease", id |-> id, lease |-> l1]
Move(id) == [op |-> "UpdateMembership", id |-> id, replicas |-> rb, epoch |-> 1]
Register(a) == [op |-> "RegisterNode", node |-> n1, address |-> a, seen |-> 0]
Beat(t) == [op |-> "HeartbeatNode", node |-> n1, seen |-> t]

Blank == [op |-> "Blank"]
Membership == [op |-> "Membership"]

(* Logs that create the genesis range and go on with any n of cmds. *)
LogsOf(cmds, n) == {<<CreateAll>> \o t : t \in [1 .. n -> cmds]}

(* No merge: the ids on disk determine the id counter. *)
GrowLogs == LogsOf({SplitAt(1, 2), Register(a1), Membership}, 2)
            \cup {<<CreateAll, SplitAt(1, 2), SplitAt(2, 3)>>,
                  <<CreateAll, Register(a1), Beat(1)>>,
                  <<CreateAll, Lease(1), SplitAt(1, 2)>>,
                  <<CreateAll, SplitAt(1, 2), Move(1)>>}

(* Merges too, so that the counter runs ahead of the ids in use. *)
MergeLogs == LogsOf({SplitAt(1, 1), SplitAt(1, 2), Merge(1, 2)}, 3)
             \cup {<<CreateAll, SplitAt(1, 1), Blank, Merge(1, 2)>>}

(* A split, the merge that undoes it, and another split. *)
RegrowLogs == {<<CreateAll, SplitAt(1, 2), Merge(1, 2), SplitAt(1, 1)>>}

SetupsOf(logs, f, b) == [log : logs, faults : {f}, builds : {b}]

(* Faults on logs that grow, merges with none, and everything at once. *)
AllSetups == SetupsOf(GrowLogs, 1, 1)
             \cup SetupsOf({<<CreateAll, SplitAt(1, 2), Membership>>}, 2, 1)
             \cup SetupsOf(MergeLogs, 0, 1)
             \cup SetupsOf(RegrowLogs, 1, 1)

(* One restart on a log with a merge. *)
RestartSetups == SetupsOf(RegrowLogs, 1, 0)

(* One builder beside the apply loop, and no fault. *)
SpawnedSetups == SetupsOf(RegrowLogs, 0, 1)
==============================================================================
