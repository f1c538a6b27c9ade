------------------------------- MODULE MCCluster -------------------------------
(***************************************************************************)
(* The cluster's storage and control plane, one scenario per question.     *)
(* A behaviour picks a scenario and moves only the components in it; the   *)
(* others stay in their initial state, so the state space is the sum of    *)
(* the scenarios' and not their product.                                   *)
(***************************************************************************)
EXTENDS EngineCalls, RaftLogStore, KeyEncoding, PdAccess, PdAdmin, RaftTransport, RangeReads

VARIABLE scenario

Scenarios == {"batches", "engine", "log", "keys", "apply", "beat", "admin", "transport", "reads"}

-------------------------------------------------------------------------------
(* Values of the constants. *)
OpPut(k, v) == [op |-> "Put", key |-> k, value |-> v]
OpDelete(k) == [op |-> "Delete", key |-> k]
OpDeleteRange(a, b) == [op |-> "DeleteRange", start |-> a, end |-> b]

MCBatches == {<<OpPut(1, "v")>>, <<OpPut(1, "v"), OpPut(2, "v")>>,
              <<OpDeleteRange(1, 3), OpPut(2, "w")>>, <<OpDelete(2)>>}
MCRanges == [start : {0, 2}, end : {0, 2}]

Strings(n, S) == UNION {[1 .. k -> S] : k \in 0 .. n}
KeysOf(k, S) == {[kind |-> k, segs |-> s] : s \in [1 .. Heads(k) + 1 -> S]}
MCKeys == KeysOf("EdgeFrom", Strings(2, {0, 1, 255}))
            \cup KeysOf("VectorIndex", {<<>>, <<0>>, <<1>>})
            \cup KeysOf("FulltextIndex", {<<>>})
            \cup UNION {KeysOf(k, {<<>>, <<0>>}) :
                          k \in {x \in Kinds : Heads(x) = 0} \cup {"EdgeTo", "PropertyIndex"}}
MCBytes == {Prefix[k] \o s : k \in {"Node", "EdgeTo", "VectorIndex"}, s \in Strings(4, {0, 1, 2, 255})}
             \cup {<<>>, <<47>>, <<47, 101>>, <<47, 101, 102>>, <<47, 122, 47>>, <<255>>, <<255, 255>>}

Described(i, s, e) == [range_id |-> i, start_key |-> s, end_key |-> e, replicas |-> {1},
                       raft_group_id |-> i, epoch |-> 0, generation |-> 0, lease |-> None]
MCRequests ==
    {[op |-> "RegisterNode", node |-> 1, address |-> a, seen |-> 0] : a \in {"a", ""}}
    \cup {[op |-> "HeartbeatNode", node |-> 1, seen |-> 1],
          [op |-> "CreateRange", desc |-> Described(1, 0, 0)],
          [op |-> "SplitRange", parent |-> 1, key |-> 2], [op |-> "SplitRange", parent |-> 1, key |-> 0],
          [op |-> "MergeRanges", left |-> 1, right |-> 2],
          [op |-> "UpdateMembership", id |-> 1, replicas |-> {1, 2}, epoch |-> 1],
          [op |-> "UpdateMembership", id |-> 1, replicas |-> {}, epoch |-> 1],
          [op |-> "CreateRange", desc |-> [Described(1, 0, 0) EXCEPT !.replicas = {1, None}]],
          [op |-> "UpdateLease", id |-> 1, lease |-> 7, clear |-> FALSE],
          [op |-> "UpdateLease", id |-> 1, lease |-> 7, clear |-> TRUE],
          [op |-> "GetRange", id |-> 1], [op |-> "GetRangeByKey", key |-> 3],
          [op |-> "GetRangeByKey", key |-> 1], [op |-> "ListRanges"],
          [op |-> "GetNode", node |-> 1], [op |-> "ListNodes"], [op |-> "Status"]}
-------------------------------------------------------------------------------
Init ==
    /\ scenario \in Scenarios
    /\ BatchInit /\ EngineInit /\ LogInit /\ KeyInit /\ AccessInit /\ AdminInit
    /\ TransportInit /\ ReadsInit
    /\ scenario # "engine" => kind = "memory"
    /\ scenario # "transport" => home[Target] = ""
    /\ IF scenario = "beat" THEN beat.pc \in {"spawn", "dial"}
       ELSE beat.pc = "stopped" /\ ~supervised /\ resolver /\ beat.endpoint = 1

BatchScenario ==
    /\ scenario = "batches" /\ Len(batch) <= 1 /\ BatchNext
    /\ UNCHANGED <<scenario, engineVars, logVars, keyVars, accessVars, adminVars, transportVars, readVars>>

(* Thread 2 writes; thread 1 makes every call. *)
EngineScenario ==
    /\ scenario = "engine" /\ EngineSteps
    /\ task'[2] # NoTask => task'[2].call.op = "write"
    /\ UNCHANGED <<scenario, batchVars, logVars, keyVars, accessVars, adminVars, transportVars, readVars>>

LogScenario ==
    /\ scenario = "log" /\ LogSteps
    /\ UNCHANGED <<scenario, batchVars, engineVars, keyVars, accessVars, adminVars, transportVars, readVars>>

KeyScenario ==
    /\ scenario = "keys" /\ KeySteps
    /\ UNCHANGED <<scenario, batchVars, engineVars, logVars, accessVars, adminVars, transportVars, readVars>>

(* Member 1 is cut off from nobody, from member 2, or from both. *)
Cuts == {{}, {<<1, 2>>, <<2, 1>>}, {<<1, 2>>, <<2, 1>>, <<1, 3>>, <<3, 1>>}}

TermsUpTo(t) == \A m \in PdMembers : view'[m].term <= t

(* PdCluster::apply; faults cut member 1 off, or stop its core. *)
ApplyScenario ==
    /\ scenario = "apply" /\ ApplySteps
    /\ isolated' \in Cuts \cup {{<<1, 2>>}}
    /\ isolated' = {<<1, 2>>} \/ restarts' = 1 => TermsUpTo(2)
    /\ stopped' \subseteq {1}
    /\ UNCHANGED <<scenario, batchVars, engineVars, logVars, keyVars, adminVars, transportVars, readVars>>

(* The heartbeat loop; member 1 is cut off or restarted, member 3 follows. *)
BeatScenario ==
    /\ scenario = "beat" /\ BeatSteps
    /\ isolated' \in Cuts /\ TermsUpTo(2)
    /\ stopped' \subseteq {1} /\ (stopped' # {} => isolated' = {})
    /\ durable' = <<>> /\ attached' \in {PdMembers, PdMembers \ {1}} /\ view'[3].leader # 3
    /\ UNCHANGED <<scenario, batchVars, engineVars, logVars, keyVars, adminVars, transportVars, readVars>>

(* Every call goes to member 1, leader or not; an entry left behind splits the
   range. *)
AdminScenario ==
    /\ scenario = "admin" /\ AdminSteps
    /\ admin'.at # 2 /\ caughtUp'[2] = 1
    /\ adrift' \in [1 .. MaxAdrift -> {None} \cup {req \in AdminRequests : req.op = "SplitRange"}]
    /\ UNCHANGED <<scenario, batchVars, engineVars, logVars, keyVars, accessVars, transportVars, readVars>>

TransportScenario ==
    /\ scenario = "transport" /\ TransportSteps
    /\ UNCHANGED <<scenario, batchVars, engineVars, logVars, keyVars, accessVars, adminVars, readVars>>

(* Every read is made at member 1, leader or not; member 3 is a voter that
   lags.  Only the reader's metrics matter. *)
ReadScenario ==
    /\ scenario = "reads" /\ ReadsSteps
    /\ reader'.at \in {0, 1} /\ reader'.mode # "Unspecified" /\ writer'.at # 3 /\ trueLeader' # 3
    /\ appliedTo'[3] = 0 /\ metric'[2] = 0 /\ {2, 3} \subseteq hosted'
    /\ UNCHANGED <<scenario, batchVars, engineVars, logVars, keyVars, accessVars, adminVars, transportVars>>

Next ==
    \/ BatchScenario \/ EngineScenario \/ LogScenario \/ KeyScenario \/ ApplyScenario
    \/ BeatScenario \/ AdminScenario \/ TransportScenario \/ ReadScenario

vars == <<scenario, batchVars, engineVars, logVars, keyVars, accessVars, adminVars, transportVars, readVars>>

Spec == Init /\ [][Next]_vars /\ BeatFairness /\ TransportFairness
================================================================================
