------------------------------ MODULE PdCatalog ------------------------------
(***************************************************************************)
(* One placement-driver catalog driven by commands: the state is the       *)
(* catalog of module Catalog, every action is one accepted PdCommand.      *)
(* Rejected commands leave the catalog alone and are stuttering steps.     *)
(***************************************************************************)
EXTENDS Catalog

CONSTANTS
    MaxKey,        \* keys are 0 .. MaxKey
    MaxRangeId,    \* bound: SplitRange is not tried once the counter is past it
    MaxEpoch,      \* bound on the epochs callers ask for
    MaxTime,       \* bound on heartbeat timestamps
    CreateIds,     \* ids operators give to CreateRange
    AnyGroup,      \* TRUE: CreateRange may carry any raft_group_id;
                   \* FALSE: it carries its range_id, as RangeDescriptor::new
    ReplicaSets,   \* replica placements callers ask for
    Leases,        \* leases callers install
    Nodes,         \* node ids
    Addresses      \* node addresses

ASSUME CatalogConstants ==
    /\ MaxKey \in Nat /\ MaxRangeId \in Nat /\ MaxEpoch \in Nat
    /\ MaxTime \in Nat
    /\ CreateIds \subseteq RangeIds
    /\ MaxRangeId < IdLimit
    /\ AnyGroup \in BOOLEAN
    /\ None \notin Leases /\ None \notin RangeIds

VARIABLE cat

Keys == 0 .. MaxKey
Epochs == 0 .. MaxEpoch

Descriptors == [range_id : RangeIds, start_key : Keys, end_key : Keys,
                replicas : ReplicaSets, raft_group_id : RangeIds,
                epoch : Epochs, generation : RangeIds,
                lease : Leases \cup {None}]

(* What CreateRange may carry: the RPC accepts any descriptor; callers
   that use RangeDescriptor::new start at generation 0.                    *)
NewDescriptors ==
    {d \in [range_id : CreateIds, start_key : Keys, end_key : Keys,
            replicas : ReplicaSets, raft_group_id : CreateIds,
            epoch : {0}, generation : {0}, lease : {None}] :
        AnyGroup \/ d.raft_group_id = d.range_id}

AskedIds == 0 .. MaxRangeId

Commands ==
    [op : {"RegisterNode"}, node : Nodes, address : Addresses, seen : 0 .. MaxTime]
      \cup [op : {"HeartbeatNode"}, node : Nodes, seen : 0 .. MaxTime]
      \cup [op : {"CreateRange"}, desc : NewDescriptors]
      \cup [op : {"SplitRange"}, parent : AskedIds, key : Keys]
      \cup [op : {"MergeRanges"}, left : AskedIds, right : AskedIds]
      \cup [op : {"UpdateMembership"}, id : AskedIds,
            replicas : ReplicaSets, epoch : Epochs]
      \cup [op : {"UpdateLease"}, id : AskedIds, lease : Leases \cup {None}]
------------------------------------------------------------------------------
Init == cat = NewCatalog

DoRegisterNode ==
    \E n \in Nodes, a \in Addresses, t \in 0 .. MaxTime :
        cat' = RegisterNode(cat, n, a, t)

DoHeartbeatNode ==
    \E n \in Nodes, t \in 0 .. MaxTime :
        CanHeartbeat(cat, n) /\ cat' = HeartbeatNode(cat, n, t)

DoCreateRange ==
    \E d \in NewDescriptors : CanCreate(cat, d) /\ cat' = CreateRange(cat, d)

DoSplitRange ==
    /\ cat.next_range_id <= MaxRangeId
    /\ \E p \in DOMAIN cat.ranges, k \in Keys :
        CanSplit(cat, p, k) /\ cat' = SplitRange(cat, p, k)

DoMergeRanges ==
    \E l, r \in DOMAIN cat.ranges :
        CanMerge(cat, l, r) /\ cat' = MergeRanges(cat, l, r)

DoUpdateMembership ==
    \E i \in DOMAIN cat.ranges, rs \in ReplicaSets, e \in Epochs :
        /\ CanUpdateMembership(cat, i, e)
        /\ cat' = UpdateMembership(cat, i, rs, e)

DoUpdateLease ==
    \E i \in DOMAIN cat.ranges, l \in Leases \cup {None} :
        CanUpdateLease(cat, i) /\ cat' = UpdateLease(cat, i, l)

Next == \/ DoRegisterNode \/ DoHeartbeatNode \/ DoCreateRange \/ DoSplitRange
        \/ DoMergeRanges \/ DoUpdateMembership \/ DoUpdateLease

Spec == Init /\ [][Next]_cat
------------------------------------------------------------------------------
(* Properties. *)

(* f is a map from a part of D to R. *)
PartialMap(f, D, R) ==
    /\ f = [x \in DOMAIN f |-> f[x]]
    /\ DOMAIN f \subseteq D
    /\ \A x \in DOMAIN f : f[x] \in R

(* Every field of struct Catalog holds a map or counter of its Rust type. *)
TypeOK ==
    /\ cat = [ranges |-> cat.ranges, by_start |-> cat.by_start,
              by_group |-> cat.by_group, nodes |-> cat.nodes,
              next_range_id |-> cat.next_range_id]
    /\ PartialMap(cat.ranges, RangeIds, Descriptors)
    /\ PartialMap(cat.by_start, Keys, RangeIds)
    /\ PartialMap(cat.by_group, RangeIds, RangeIds)
    /\ PartialMap(cat.nodes, Nodes, [address : Addresses, heartbeat : 0 .. MaxTime])
    /\ cat.next_range_id \in RangeIds

Ids == DOMAIN cat.ranges
Covers(i, k) == ContainsKey(cat.ranges[i], k)
Covered == {k \in Keys : \E i \in Ids : Covers(i, k)}
Owner(k) == CHOOSE i \in Ids : Covers(i, k)

(* catalog.rs invariant 1: the spans of two ranges never overlap, whatever
   sequence of creates, splits and merges led here.                        *)
NoOverlap ==
    \A i, j \in Ids : i # j => Disjoint(cat.ranges[i], cat.ranges[j])

(* by_start is exactly the index of the start keys, every descriptor sits
   under its own id, and no range is empty: create, split and merge keep
   the primary map and the index in step.                                  *)
StartIndexExact ==
    /\ DOMAIN cat.by_start = {cat.ranges[i].start_key : i \in Ids}
    /\ \A i \in Ids : /\ cat.by_start[cat.ranges[i].start_key] = i
                      /\ cat.ranges[i].range_id = i
                      /\ HasNonEmptySpan(cat.ranges[i])

(* find_range_for_key, which looks at one predecessor only, answers with
   the range that contains the key, and None exactly for a gap.            *)
LookupExact ==
    \A k \in Keys :
        LET r == FindRangeForKey(cat, k)
        IN  IF k \in Covered THEN r \in Ids /\ Covers(r, k) ELSE r = None

(* find_overlap, which looks at two neighbours only, rejects exactly the
   spans that share a key with some range.                                 *)
OverlapCheckExact ==
    \A s, e \in Keys :
        e = 0 \/ s < e =>
            (FindOverlap(cat, s, e) <=>
                \E i \in Ids :
                    ~Disjoint(cat.ranges[i], [start_key |-> s, end_key |-> e]))

(* The two searches that look at one or two neighbours of a key only give the
   answer a look at every range would give: no key is routed to the wrong
   range, and no create is wrongly let in or turned away.                  *)
LookupsExact == LookupExact /\ OverlapCheckExact

(* catalog.rs invariant 2: two ranges never share a raft group, and by_group
   finds the owner of every group.                                         *)
GroupIdsUnique ==
    \A i \in Ids : /\ cat.ranges[i].raft_group_id \in DOMAIN cat.by_group
                   /\ cat.by_group[cat.ranges[i].raft_group_id] = i

(* The next id split_range allocates lies past every id in use, and past 0. *)
FreshIds == 1 <= cat.next_range_id /\ \A i \in Ids : i < cat.next_range_id

(* The inductive invariant behind the four: an operation relies on the index
   being exact, the spans disjoint and the next id unused all at once.     *)
CatalogInv == TypeOK /\ StartIndexExact /\ NoOverlap /\ FreshIds

(* No id reaches the end of u64, so no increment wraps. *)
NoWrap == /\ MaxRangeId + 1 < IdLimit
          /\ \A i \in CreateIds : i + 1 < IdLimit

(* command.rs: replaying an accepted command changes nothing more, it is a
   no-op or a controlled error (a split or merge finds its work done).     *)
ReplayIsIdempotent ==
    \A cmd \in Commands :
        LET once == Apply(cat, cmd) IN Apply(once, cmd) = once

(* What a recovering replica relies on when it applies a command again: no
   group is shared by two ranges, and the second time changes nothing.     *)
ReplayKeepsGroups == GroupIdsUnique /\ ReplayIsIdempotent

(* catalog.rs invariant 6, of the ids split_range allocates: the counter,
   which lies past every id in use (FreshIds), never goes back, not by a merge
   that dissolves the last range either; and a range that appears over keys
   that were covered before, as the right half of a split does, has an id no
   range had in any earlier catalog.                                       *)
SplitIdsFresh ==
    [][/\ cat.next_range_id <= cat'.next_range_id
       /\ \A i \in Ids' \ Ids :
              cat'.ranges[i].start_key \in Covered => cat.next_range_id <= i]_cat

(* A split hands out an id once, of all the ids any range ever had; a group
   belongs to one range at a time; and a command applied again hands out nothing
   more.  (A create takes its id from the caller, who may name a dissolved range
   again, so "never re-used" of invariant 6 is claimed of splits alone.)   *)
IdsHandedOutOnce == SplitIdsFresh /\ []ReplayKeepsGroups

(* catalog.rs invariant 4, over any step: a key that belongs to a range
   never falls into a gap; splits and merges keep all they covered.        *)
CoverageNeverShrinks == [][Covered \subseteq Covered']_cat

(* catalog.rs invariants 3 and 5, seen from a key: the replicas that hold
   the key change only by a membership update of its range, with a larger
   epoch; a split or a merge never moves a key to other replicas.          *)
PlacementMovesByEpoch ==
    [][\A k \in Covered \cap Covered' :
          cat.ranges[Owner(k)].replicas # (cat.ranges[Owner(k)].replicas)' =>
              /\ Owner(k) = Owner(k)'
              /\ cat.ranges[Owner(k)].epoch < (cat.ranges[Owner(k)].epoch)']_cat

(* types.rs: the generation is what lets a leader detect a stale reconfig,
   so whenever the span around a key changes the generation of its owner
   grows, through every split and merge.                                   *)
GenerationTracksSpan ==
    [][\A k \in Covered \cap Covered' :
          LET old == cat.ranges[Owner(k)]
              new == cat'.ranges[Owner(k)']
          IN  IF <<old.range_id, old.start_key, old.end_key>>
                   = <<new.range_id, new.start_key, new.end_key>>
              THEN new.generation = old.generation
              ELSE new.generation > old.generation]_cat

(* What a client that cached the descriptor of a key may rely on: it detects
   every move of the key by a larger epoch and every change of the span around
   it by a larger generation.                                              *)
CachesDetectChange == PlacementMovesByEpoch /\ GenerationTracksSpan
==============================================================================
