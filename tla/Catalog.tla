------------------------------- MODULE Catalog -------------------------------
(***************************************************************************)
(* The placement driver's catalog as a value: the pure logic of            *)
(* crates/aresadb-pd/src/catalog.rs.  A catalog is a record with the       *)
(* fields of `struct Catalog`; every mutator is a pair of operators, a     *)
(* guard (the early returns) and an effect (the assignments), and `Apply`  *)
(* dispatches a PdCommand.                                                 *)
(*                                                                         *)
(* Keys are byte strings ordered lexicographically, the empty string       *)
(* first.  Only the order and the empty string matter, so a key is a       *)
(* natural number and 0 is the empty string: as a start_key it is the      *)
(* least key, as an end_key it means +infinity, as in the code.            *)
(* Replica lists are compared as multisets only, so they are sets here.    *)
(***************************************************************************)
EXTENDS Integers, FiniteSetsExt

CONSTANTS
    IdLimit,   \* 2^w for the width w of RangeId and of the counters (u64)
    None       \* Option::None, a value that is neither an id nor a lease

ASSUME IdLimitAssumption == IdLimit \in Nat /\ IdLimit > 1

RangeIds == 0 .. (IdLimit - 1)

(* Maps (BTreeMap) are functions; insert and remove change the domain. *)
Put(f, k, v) == [x \in DOMAIN f \cup {k} |-> IF x = k THEN v ELSE f[x]]

Del(f, k) == [x \in DOMAIN f \ {k} |-> f[x]]
Empty == [x \in {} |-> x]

(* u64 increment as the release profile compiles it: it wraps. *)
Succ(n) == IF n + 1 < IdLimit THEN n + 1 ELSE 0

Larger(m, n) == IF m < n THEN n ELSE m
------------------------------------------------------------------------------
(* Descriptors and reads. *)

ContainsKey(d, key) == d.start_key <= key /\ (d.end_key = 0 \/ key < d.end_key)

(* struct RangeDescriptor, of any replicas and lease. *)
DescriptorFields == {"range_id", "start_key", "end_key", "replicas", "raft_group_id",
                     "epoch", "generation", "lease"}

IsDescriptor(d) ==
    /\ d = [field \in DescriptorFields |-> d[field]]
    /\ {d.range_id, d.raft_group_id} \subseteq RangeIds
    /\ {d.start_key, d.end_key} \subseteq Nat

HasNonEmptySpan(d) == d.end_key = 0 \/ d.start_key < d.end_key

(* Spans a and b share no key: one ends before the other begins. *)
Disjoint(a, b) ==
    \/ a.end_key # 0 /\ a.end_key <= b.start_key
    \/ b.end_key # 0 /\ b.end_key <= a.start_key

NewCatalog == [ranges |-> Empty, by_start |-> Empty, by_group |-> Empty,
               nodes |-> Empty, next_range_id |-> 1]

(* Mutant: the lookup scans ..key instead of ..=key. *)
StartsUpTo_Exclusive(c, key) == {s \in DOMAIN c.by_start : s < key}
StartsUpTo(c, key) == {s \in DOMAIN c.by_start : s <= key}
StartsAfter(c, key) == {s \in DOMAIN c.by_start : key < s}

(* The range that contains key, found through the predecessor in by_start. *)
FindRangeForKey(c, key) ==
    IF StartsUpTo(c, key) = {} THEN None
    ELSE LET id == c.by_start[Max(StartsUpTo(c, key))]
         IN  IF id \in DOMAIN c.ranges /\ ContainsKey(c.ranges[id], key)
             THEN id ELSE None

(* find_overlap(..).is_some(): only the neighbours in by_start are looked at. *)
FindOverlap(c, start, end) ==
    \/ /\ StartsUpTo(c, start) # {}
       /\ LET pred == c.ranges[c.by_start[Max(StartsUpTo(c, start))]]
          IN  pred.end_key = 0 \/ start < pred.end_key
    \/ /\ StartsAfter(c, start) # {}
       /\ end = 0 \/ Min(StartsAfter(c, start)) < end
------------------------------------------------------------------------------
(* Mutators: a Can... guard for the early returns, then the effect. *)

RegisterNode(c, node, address, seen) ==
    [c EXCEPT !.nodes = Put(@, node,
        [address |-> address,
         heartbeat |-> IF node \in DOMAIN @ THEN @[node].heartbeat ELSE seen])]

CanHeartbeat(c, node) == node \in DOMAIN c.nodes
HeartbeatNode(c, node, seen) ==
    [c EXCEPT !.nodes[node].heartbeat = Larger(seen, @)]

CanCreate(c, d) ==
    /\ HasNonEmptySpan(d)
    /\ d.range_id \notin DOMAIN c.ranges
    /\ d.raft_group_id \in DOMAIN c.by_group
           => c.by_group[d.raft_group_id] = d.range_id
    /\ ~FindOverlap(c, d.start_key, d.end_key)

CreateRange(c, d) ==
    [c EXCEPT !.by_start = Put(@, d.start_key, d.range_id),
              !.by_group = Put(@, d.raft_group_id, d.range_id),
              !.next_range_id = Larger(@, Succ(d.range_id)),
              !.ranges = Put(@, d.range_id, d)]

CanSplit(c, parent, key) ==
    /\ parent \in DOMAIN c.ranges
    /\ c.ranges[parent].start_key < key
    /\ c.ranges[parent].end_key = 0 \/ key < c.ranges[parent].end_key
SplitRhs(c, parent, key) ==
    [c.ranges[parent] EXCEPT !.range_id = c.next_range_id,
                             !.raft_group_id = c.next_range_id,
                             !.start_key = key,
                             !.generation = Succ(@),
                             !.lease = None]

SplitLhs(c, parent, key) ==
    [c.ranges[parent] EXCEPT !.end_key = key,
                             !.generation = Succ(@),
                             !.lease = None]

SplitRange(c, parent, key) ==
    [c EXCEPT !.by_start = Put(@, key, c.next_range_id),
              !.by_group = Put(@, c.next_range_id, c.next_range_id),
              !.next_range_id = Succ(@),
              !.ranges = Put(Put(@, parent, SplitLhs(c, parent, key)),
                             c.next_range_id, SplitRhs(c, parent, key))]

(* Mutant: the replica sets are not compared. *)
CanMerge_AnyReplicas(c, left, right) ==
    /\ left \in DOMAIN c.ranges
    /\ right \in DOMAIN c.ranges
    /\ c.ranges[left].end_key = c.ranges[right].start_key
    /\ c.ranges[left].end_key # 0

CanMerge(c, left, right) ==
    /\ left \in DOMAIN c.ranges
    /\ right \in DOMAIN c.ranges
    /\ c.ranges[left].end_key = c.ranges[right].start_key
    /\ c.ranges[left].end_key # 0
    /\ c.ranges[left].replicas = c.ranges[right].replicas

(* Mutant: the left range does not take over the right end. *)
Merged_KeepsEnd(c, left, right) ==
    [c.ranges[left] EXCEPT
        !.generation = Succ(Larger(@, c.ranges[right].generation)),
        !.lease = None]

Merged(c, left, right) ==
    [c.ranges[left] EXCEPT
        !.end_key = c.ranges[right].end_key,
        !.generation = Succ(Larger(@, c.ranges[right].generation)),
        !.lease = None]

(* Mutant: the start key of the dissolved range stays indexed. *)
MergeRanges_KeepsStart(c, left, right) ==
    [c EXCEPT !.by_group = Del(@, c.ranges[right].raft_group_id),
              !.ranges = Put(Del(@, right), left, Merged(c, left, right))]

(* Mutant: a merge gives the id of the dissolved range back. *)
MergeRanges_FreesId(c, left, right) ==
    [c EXCEPT !.by_start = Del(@, c.ranges[right].start_key),
              !.by_group = Del(@, c.ranges[right].raft_group_id),
              !.next_range_id = IF Succ(right) = @ THEN right ELSE @,
              !.ranges = Put(Del(@, right), left, Merged(c, left, right))]

MergeRanges(c, left, right) ==
    [c EXCEPT !.by_start = Del(@, c.ranges[right].start_key),
              !.by_group = Del(@, c.ranges[right].raft_group_id),
              !.ranges = Put(Del(@, right), left, Merged(c, left, right))]

CanUpdateMembership(c, id, epoch) ==
    id \in DOMAIN c.ranges /\ c.ranges[id].epoch < epoch
UpdateMembership(c, id, replicas, epoch) ==
    [c EXCEPT !.ranges[id].replicas = replicas, !.ranges[id].epoch = epoch]

CanUpdateLease(c, id) == id \in DOMAIN c.ranges
UpdateLease(c, id, lease) == [c EXCEPT !.ranges[id].lease = lease]
------------------------------------------------------------------------------
(* Command dispatch.  A command is a record tagged by op. *)

(* A PdCommand, of any ids, replicas, nodes and times. *)
IsPdCommand(cmd) ==
    /\ cmd.op \in {"RegisterNode", "HeartbeatNode", "CreateRange", "SplitRange",
                   "MergeRanges", "UpdateMembership", "UpdateLease"}
    /\ cmd.op = "CreateRange" => IsDescriptor(cmd.desc)
    /\ cmd.op = "SplitRange" => cmd.key \in Nat

Accepts(c, cmd) ==
    CASE cmd.op = "RegisterNode" -> TRUE
      [] cmd.op = "HeartbeatNode" -> CanHeartbeat(c, cmd.node)
      [] cmd.op = "CreateRange" -> CanCreate(c, cmd.desc)
      [] cmd.op = "SplitRange" -> CanSplit(c, cmd.parent, cmd.key)
      [] cmd.op = "MergeRanges" -> CanMerge(c, cmd.left, cmd.right)
      [] cmd.op = "UpdateMembership" ->
             CanUpdateMembership(c, cmd.id, cmd.epoch)
      [] cmd.op = "UpdateLease" -> CanUpdateLease(c, cmd.id)

Effect(c, cmd) ==
    CASE cmd.op = "RegisterNode" -> RegisterNode(c, cmd.node, cmd.address, cmd.seen)
      [] cmd.op = "HeartbeatNode" -> HeartbeatNode(c, cmd.node, cmd.seen)
      [] cmd.op = "CreateRange" -> CreateRange(c, cmd.desc)
      [] cmd.op = "SplitRange" -> SplitRange(c, cmd.parent, cmd.key)
      [] cmd.op = "MergeRanges" -> MergeRanges(c, cmd.left, cmd.right)
      [] cmd.op = "UpdateMembership" ->
             UpdateMembership(c, cmd.id, cmd.replicas, cmd.epoch)
      [] cmd.op = "UpdateLease" -> UpdateLease(c, cmd.id, cmd.lease)

(* Catalog::apply: a rejected command leaves the catalog as it was. *)
Apply(c, cmd) == IF Accepts(c, cmd) THEN Effect(c, cmd) ELSE c

(* The PdResponse of a command: Error, the new descriptor, or Ok. *)
Response(c, cmd) ==
    CASE ~Accepts(c, cmd) -> [kind |-> "Error", range |-> None]
      [] Accepts(c, cmd) /\ cmd.op = "CreateRange" ->
             [kind |-> "Range", range |-> cmd.desc]
      [] Accepts(c, cmd) /\ cmd.op = "SplitRange" ->
             [kind |-> "Range", range |-> SplitRhs(c, cmd.parent, cmd.key)]
      [] OTHER -> [kind |-> "Ok", range |-> None]

(* Catalog::load: indices rebuilt from rows inserted in the order `rank`
   gives (a later row takes over a raft_group_id an earlier one had).      *)
Load(ranges, nodes, hint, rank) ==
    LET ids == DOMAIN ranges
        owners(g) == {i \in ids : ranges[i].raft_group_id = g}
        last(S) == CHOOSE i \in S : \A j \in S : rank[j] <= rank[i]
    IN  [ranges |-> ranges,
         nodes |-> nodes,
         by_start |-> [s \in {ranges[i].start_key : i \in ids} |->
                          last({i \in ids : ranges[i].start_key = s})],
         by_group |-> [g \in {ranges[i].raft_group_id : i \in ids} |->
                          last(owners(g))],
         next_range_id |-> Max({1, hint} \cup {Succ(i) : i \in ids})]
==============================================================================
