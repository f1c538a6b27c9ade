------------------------------- MODULE ShardSet -------------------------------
(***************************************************************************)
(* Sharded v1 storage (src/distributed/shard.rs, bloom.rs).  A consistent  *)
(* hash ring gives every id a shard; a shard keeps node and edge rows and, *)
(* in memory, a bloom filter that get_node asks before it reads a row.  A  *)
(* call takes one step per filter access or storage transaction.  The      *)
(* manager may be closed and opened with another number of shards, for     *)
(* which directories exist: shards.len() is numShards.                     *)
(*                                                                         *)
(* Hashes are constants: RingHash of an id and RingPoints of a shard's     *)
(* virtual nodes (xxh3), SipHash of an id (the pair h1, h2).               *)
(***************************************************************************)
EXTENDS Integers, Sequences, FiniteSets, FiniteSetsExt, Functions

CONSTANTS
    ShardIds,       \* node and edge ids: the keys of the ring
    ShardEdges,     \* the ids that name edges; ids of nodes otherwise
    MaxShards,      \* directories shard_0000 .. that exist
    RingHash,       \* id -> position
    RingPoints,     \* shard -> positions of its virtual nodes
    SipHash,        \* id -> <<h1, h2>>
    HashSpace,      \* 2^64 in the code
    NumBits, NumHashes,
    CounterMax,     \* 15 in the code
    ShardCalls,     \* calls in flight
    MaxOpens        \* how often the manager is opened again

ASSUME ShardConstants ==
    /\ ShardEdges \subseteq ShardIds
    /\ \A n \in {MaxShards, NumBits, NumHashes, HashSpace, CounterMax} : n \in Nat \ {0}
    /\ RingHash \in [ShardIds -> Nat]
    /\ RingPoints \in [0 .. MaxShards - 1 -> SUBSET Nat]
    /\ SipHash \in [ShardIds -> (0 .. HashSpace - 1) \X (0 .. HashSpace - 1)]

VARIABLES
    numShards,      \* shards of the open manager
    rows,           \* shard -> ids of its rows, on disk
    bloom,          \* shard -> set bits, in memory
    scall,          \* ShardCalls -> the call it runs
    counters,       \* a CountingBloomFilter: counter -> 0 .. CounterMax
    opens,
    homes,          \* history: id -> <<shard, numShards>> of its last insert
    added,          \* history: ids put in a filter since the last open
    items,          \* history: id -> inserts minus removes, counting filter
    muddied         \* history: a counter saturated or a false positive was removed

shardVars == <<numShards, rows, bloom, scall, counters, opens, homes, added, items, muddied>>

-------------------------------------------------------------------------------
(* ConsistentHashRing.  add_node runs for shard 0, 1, ..: the last shard to
   claim a position owns it.                                               *)

RingOf(k) ==
    [p \in UNION {RingPoints[i] : i \in 0 .. k - 1} |->
        Max({i \in 0 .. k - 1 : p \in RingPoints[i]})]

(* get_node: the first point at or after the key's hash, else the first. *)
RingNode(ring, id) ==
    LET after == {p \in DOMAIN ring : p >= RingHash[id]}
    IN  IF DOMAIN ring = {} THEN 0
        ELSE ring[IF after # {} THEN Min(after) ELSE Min(DOMAIN ring)]

(* Mutant: the static helper's hash % num_shards. *)
GetShard_Modulo(id, k) == RingHash[id] % k

GetShard(id, k) == RingNode(RingOf(k), id)

-------------------------------------------------------------------------------
(* BloomFilter and CountingBloomFilter: double hashing with wrap-around. *)

BitIndex(id, i) == ((SipHash[id][1] + i * SipHash[id][2]) % HashSpace) % NumBits

BitsOf(id) == {BitIndex(id, i) : i \in 0 .. NumHashes - 1}

MayContain(bits, id) == BitsOf(id) \subseteq bits

BloomInsert(bits, id) == bits \cup BitsOf(id)

(* Counters move once per hash function, two of which may meet. *)
Hits(id, b) == Cardinality({i \in 0 .. NumHashes - 1 : BitIndex(id, i) = b})

CountingInsert(id) ==
    [b \in DOMAIN counters |-> Min({CounterMax, counters[b] + Hits(id, b)})]

CountingRemove(id) ==
    [b \in DOMAIN counters |-> Max({0, counters[b] - Hits(id, b)})]

CountingMayContain(id) == \A b \in BitsOf(id) : counters[b] > 0

-------------------------------------------------------------------------------
NoCall == [op |-> "none"]

ShardInit ==
    /\ numShards = MaxShards
    /\ rows = [s \in 0 .. MaxShards - 1 |-> {}]
    /\ bloom = [s \in 0 .. MaxShards - 1 |-> {}]
    /\ scall = [c \in ShardCalls |-> NoCall]
    /\ counters = [b \in 0 .. NumBits - 1 |-> 0]
    /\ opens = 0
    /\ homes = <<>>
    /\ added = {}
    /\ items = [id \in ShardIds |-> 0]
    /\ muddied = FALSE

countingVars == <<counters, items, muddied>>

(* insert_node, and insert_edge under its source's shard: the filter first,
   the row after it.                                                       *)
InsertFilter(c) == \E id \in ShardIds :
    \E src \in (IF id \in ShardEdges THEN ShardIds \ ShardEdges ELSE {id}) :
        LET s == GetShard(src, numShards) IN
        /\ scall[c] = NoCall
        /\ bloom' = [bloom EXCEPT ![s] = BloomInsert(@, id)]
        /\ added' = added \cup {id}
        /\ scall' = [scall EXCEPT ![c] = [op |-> "insert", id |-> id, shard |-> s]]
        /\ UNCHANGED <<numShards, rows, opens, homes, countingVars>>

InsertRow(c) ==
    LET id == scall[c].id  s == scall[c].shard IN
    /\ scall[c].op = "insert"
    /\ rows' = [rows EXCEPT ![s] = @ \cup {id}]
    /\ homes' = [i \in DOMAIN homes \cup {id} |->
                    IF i = id THEN <<s, numShards>> ELSE homes[i]]
    /\ scall' = [scall EXCEPT ![c] = NoCall]
    /\ UNCHANGED <<numShards, bloom, opens, added, countingVars>>

(* get_node: None without a read when the filter says no. *)
GetFilter(c) == \E id \in ShardIds \ ShardEdges :
    LET s == GetShard(id, numShards) IN
    /\ scall[c] = NoCall
    /\ MayContain(bloom[s], id)
    /\ scall' = [scall EXCEPT ![c] = [op |-> "get", id |-> id, shard |-> s]]
    /\ UNCHANGED <<numShards, rows, bloom, opens, homes, added, countingVars>>

GetRow(c) ==
    /\ scall[c].op = "get"
    /\ scall' = [scall EXCEPT ![c] = NoCall]
    /\ UNCHANGED <<numShards, rows, bloom, opens, homes, added, countingVars>>

(* delete_node never touches the filter. *)
DeleteRow(c) == \E id \in ShardIds \ ShardEdges :
    LET s == GetShard(id, numShards) IN
    /\ scall[c] = NoCall
    /\ rows' = [rows EXCEPT ![s] = @ \ {id}]
    /\ UNCHANGED <<numShards, bloom, scall, opens, homes, added, countingVars>>

(* get_nodes_by_type with a limit: how many rows it takes from each shard, of
   the k that are open; the filters are not asked.                         *)
PerShard(limit, k) == Max({limit \div k, 1})

Listed(limit, k) ==
    Min({limit, SumFunction([s \in 0 .. k - 1 |->
                   Min({Cardinality(rows[s] \ ShardEdges), PerShard(limit, k)})])})

(* ShardManager::open after a stop, clean or not: empty filters. *)
OpenShards == \E k \in 1 .. MaxShards :
    /\ opens < MaxOpens
    /\ numShards' = k
    /\ bloom' = [s \in 0 .. MaxShards - 1 |-> {}]
    /\ scall' = [c \in ShardCalls |-> NoCall]
    /\ opens' = opens + 1
    /\ added' = {}
    /\ UNCHANGED <<rows, homes, countingVars>>

(* The counting filter on its own. *)
CountInsert == \E id \in ShardIds :
    /\ items[id] < CounterMax
    /\ counters' = CountingInsert(id)
    /\ items' = [items EXCEPT ![id] = @ + 1]
    /\ muddied' = (muddied \/ \E b \in BitsOf(id) : counters[b] + Hits(id, b) > CounterMax)
    /\ UNCHANGED <<numShards, rows, bloom, scall, opens, homes, added>>

CountRemove == \E id \in ShardIds :
    /\ CountingMayContain(id)
    /\ counters' = CountingRemove(id)
    /\ items' = [items EXCEPT ![id] = IF @ > 0 THEN @ - 1 ELSE 0]
    /\ muddied' = (muddied \/ items[id] = 0)
    /\ UNCHANGED <<numShards, rows, bloom, scall, opens, homes, added>>

ShardSteps ==
    \/ \E c \in ShardCalls :
          InsertFilter(c) \/ InsertRow(c) \/ GetFilter(c) \/ GetRow(c) \/ DeleteRow(c)
    \/ OpenShards

CountingSteps == CountInsert \/ CountRemove

ShardNext == ShardSteps \/ CountingSteps

ShardSpec == ShardInit /\ [][ShardNext]_shardVars

-------------------------------------------------------------------------------
(* A filter never hides what it was given: a node row written since the last
   open passes its shard's filter in every interleaving of the two steps of
   insert_node with reads, and the counting filter answers yes for every item
   inserted more often than removed, until a counter has saturated or a false
   positive has been removed.  Rows of an earlier open are hidden.         *)
NoFalseNegatives ==
    /\ \A id \in added \ ShardEdges : \A s \in 0 .. numShards - 1 :
          id \in rows[s] /\ s = GetShard(id, numShards) => MayContain(bloom[s], id)
    /\ ~muddied => \A id \in ShardIds : items[id] > 0 => CountingMayContain(id)

(* Consistent hashing: opening with fewer shards moves no id whose shard is
   still there, and with more shards moves an id only to a shard that was not
   there when its row was written.                                         *)
RowsReachable ==
    \A id \in DOMAIN homes \ ShardEdges :
        LET now == GetShard(id, numShards) IN
        homes[id][1] < numShards => now = homes[id][1] \/ now >= homes[id][2]

(* A page of get_nodes_by_type is never longer than its limit, and there is a
   row on it, one for each shard that has some while the limit lasts, although
   a shard may hold back rows for which there was room.                    *)
PagesFilled ==
    \A limit \in 0 .. Cardinality(ShardIds) :
        LET full == {s \in 0 .. numShards - 1 : rows[s] \ ShardEdges # {}} IN
        /\ Listed(limit, numShards) <= limit
        /\ Listed(limit, numShards) >= Min({limit, Cardinality(full)})

(* A node is found where a lookup goes: neither its shard's filter nor a
   change of the number of shards hides it, as far as the first two parts
   say; and a page shows some of the nodes.                                *)
RowsFound == NoFalseNegatives /\ RowsReachable /\ PagesFilled
===============================================================================
