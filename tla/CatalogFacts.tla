----------------------------- MODULE CatalogFacts -----------------------------
(***************************************************************************)
(* What the commands of module Catalog do to any catalog: the lemmas that  *)
(* the proofs about one catalog (PdCatalogProofs) and about the replicated *)
(* one (PdRaftGroupProofs) share.                                          *)
(*                                                                         *)
(* Tidy is what every command keeps, whatever its arguments.  Sound adds   *)
(* what create_range and split_range rely on: an exact start index,        *)
(* disjoint spans and an unused next id.  It is kept as long as no id      *)
(* reaches the end of u64.                                                 *)
(***************************************************************************)
EXTENDS Catalog, NaturalSets

(* f is a function, whatever its domain. *)
IsMap(f) == f = [x \in DOMAIN f |-> f[x]]

(* Descriptors under ids, no span empty. *)
TidyRanges(ranges) ==
    /\ IsMap(ranges) /\ DOMAIN ranges \subseteq RangeIds
    /\ \A i \in DOMAIN ranges : IsDescriptor(ranges[i]) /\ HasNonEmptySpan(ranges[i])

TidyNodes(nodes) ==
    /\ IsMap(nodes)
    /\ \A n \in DOMAIN nodes :
          nodes[n] = [address |-> nodes[n].address, heartbeat |-> nodes[n].heartbeat]

Tidy(c) ==
    /\ c = [ranges |-> c.ranges, by_start |-> c.by_start, by_group |-> c.by_group,
            nodes |-> c.nodes, next_range_id |-> c.next_range_id]
    /\ TidyRanges(c.ranges) /\ TidyNodes(c.nodes)
    /\ IsMap(c.by_start) /\ IsMap(c.by_group)
    /\ c.next_range_id \in RangeIds

(* by_start leads from every start key to its range, and nowhere else. *)
Indexed(c) ==
    /\ DOMAIN c.by_start = {c.ranges[i].start_key : i \in DOMAIN c.ranges}
    /\ \A i \in DOMAIN c.ranges : /\ c.by_start[c.ranges[i].start_key] = i
                                  /\ c.ranges[i].range_id = i

(* No two spans overlap. *)
Apart(c) ==
    \A i, j \in DOMAIN c.ranges : i # j => Disjoint(c.ranges[i], c.ranges[j])

(* The next id is past every id in use. *)
Fresh(c) == 1 <= c.next_range_id /\ \A i \in DOMAIN c.ranges : i < c.next_range_id

Sound(c) == Tidy(c) /\ Indexed(c) /\ Apart(c) /\ Fresh(c)

(* The ids the command hands out leave room for the next one. *)
IdsLeft(c, cmd) ==
    /\ cmd.op = "CreateRange" => cmd.desc.range_id + 1 < IdLimit
    /\ cmd.op = "SplitRange" => c.next_range_id + 1 < IdLimit
-------------------------------------------------------------------------------
(* The wrapping increment stays within the width, and so does the larger of
   two ids.                                                                *)
LEMMA IdTypes ==
    \A m, n \in RangeIds : Succ(n) \in RangeIds /\ Larger(m, n) \in RangeIds
BY IdLimitAssumption DEF RangeIds, Succ, Larger

(* insert and remove make maps. *)
LEMMA PutDelMaps ==
    \A f, k, v : IsMap(Put(f, k, v)) /\ IsMap(Del(f, k))
BY DEF IsMap, Put, Del

(* One row of a tidy map of ranges may be replaced, added or removed. *)
LEMMA TidyPut ==
    ASSUME NEW rs, TidyRanges(rs), NEW k \in RangeIds, NEW d, IsDescriptor(d),
           HasNonEmptySpan(d)
    PROVE  TidyRanges(Put(rs, k, d)) /\ TidyRanges([rs EXCEPT ![k] = d])
BY DEF TidyRanges, IsMap, Put

(* remove keeps the rows tidy. *)
LEMMA TidyDel ==
    ASSUME NEW rs, TidyRanges(rs), NEW k
    PROVE  TidyRanges(Del(rs, k))
BY DEF TidyRanges, IsMap, Del

(* Both halves of a split are descriptors of spans that are not empty. *)
LEMMA SplitDescriptors ==
    ASSUME NEW c, Tidy(c), NEW p, NEW k \in Nat, CanSplit(c, p, k)
    PROVE  /\ IsDescriptor(SplitLhs(c, p, k)) /\ IsDescriptor(SplitRhs(c, p, k))
           /\ HasNonEmptySpan(SplitLhs(c, p, k)) /\ HasNonEmptySpan(SplitRhs(c, p, k))
           /\ SplitLhs(c, p, k).start_key = c.ranges[p].start_key
           /\ SplitLhs(c, p, k).end_key = k
           /\ SplitLhs(c, p, k).range_id = c.ranges[p].range_id
           /\ SplitLhs(c, p, k).raft_group_id = c.ranges[p].raft_group_id
           /\ SplitRhs(c, p, k).start_key = k
           /\ SplitRhs(c, p, k).end_key = c.ranges[p].end_key
           /\ SplitRhs(c, p, k).range_id = c.next_range_id
           /\ SplitRhs(c, p, k).raft_group_id = c.next_range_id
<1>1. /\ IsDescriptor(c.ranges[p]) /\ c.next_range_id \in RangeIds
      /\ c.ranges[p].start_key < k
      /\ c.ranges[p].end_key = 0 \/ k < c.ranges[p].end_key
  BY DEF CanSplit, Tidy, TidyRanges
<1>2. /\ IsMap(SplitLhs(c, p, k)) /\ DOMAIN SplitLhs(c, p, k) = DescriptorFields
      /\ IsMap(SplitRhs(c, p, k)) /\ DOMAIN SplitRhs(c, p, k) = DescriptorFields
  BY <1>1 DEF IsDescriptor, SplitLhs, SplitRhs, IsMap
<1>3. /\ SplitLhs(c, p, k).start_key = c.ranges[p].start_key
      /\ SplitLhs(c, p, k).end_key = k
      /\ SplitLhs(c, p, k).range_id = c.ranges[p].range_id
      /\ SplitLhs(c, p, k).raft_group_id = c.ranges[p].raft_group_id
      /\ SplitRhs(c, p, k).start_key = k
      /\ SplitRhs(c, p, k).end_key = c.ranges[p].end_key
      /\ SplitRhs(c, p, k).range_id = c.next_range_id
      /\ SplitRhs(c, p, k).raft_group_id = c.next_range_id
  BY <1>1 DEF IsDescriptor, SplitLhs, SplitRhs, DescriptorFields
<1>4. k # 0
  BY <1>1 DEF IsDescriptor
<1> QED
  BY <1>1, <1>2, <1>3, <1>4 DEF IsDescriptor, HasNonEmptySpan, IsMap

(* The range a merge leaves, and that it merges two ranges. *)
LEMMA MergedDescriptor ==
    ASSUME NEW c, Tidy(c), NEW l, NEW r, CanMerge(c, l, r)
    PROVE  /\ IsDescriptor(Merged(c, l, r)) /\ HasNonEmptySpan(Merged(c, l, r))
           /\ Merged(c, l, r).start_key = c.ranges[l].start_key
           /\ Merged(c, l, r).end_key = c.ranges[r].end_key
           /\ Merged(c, l, r).range_id = c.ranges[l].range_id
           /\ Merged(c, l, r).raft_group_id = c.ranges[l].raft_group_id
           /\ c.ranges[l].start_key < c.ranges[l].end_key
           /\ c.ranges[l].end_key = c.ranges[r].start_key
           /\ c.ranges[r].end_key = 0 \/ c.ranges[r].start_key < c.ranges[r].end_key
           /\ l # r
<1>1. /\ IsDescriptor(c.ranges[l]) /\ IsDescriptor(c.ranges[r])
      /\ c.ranges[l].end_key = c.ranges[r].start_key /\ c.ranges[l].end_key # 0
      /\ c.ranges[l].end_key = 0 \/ c.ranges[l].start_key < c.ranges[l].end_key
      /\ c.ranges[r].end_key = 0 \/ c.ranges[r].start_key < c.ranges[r].end_key
  BY DEF CanMerge, Tidy, TidyRanges, HasNonEmptySpan
<1>2. /\ c.ranges[l].start_key \in Nat /\ c.ranges[l].end_key \in Nat
      /\ c.ranges[r].start_key \in Nat /\ c.ranges[r].end_key \in Nat
  BY <1>1 DEF IsDescriptor
<1>3. /\ IsMap(Merged(c, l, r)) /\ DOMAIN Merged(c, l, r) = DescriptorFields
      /\ Merged(c, l, r).start_key = c.ranges[l].start_key
      /\ Merged(c, l, r).end_key = c.ranges[r].end_key
      /\ Merged(c, l, r).range_id = c.ranges[l].range_id
      /\ Merged(c, l, r).raft_group_id = c.ranges[l].raft_group_id
  BY <1>1 DEF IsDescriptor, Merged, IsMap, DescriptorFields
<1>4. l # r
  BY <1>1, <1>2
<1> QED
  BY <1>1, <1>2, <1>3, <1>4 DEF IsDescriptor, HasNonEmptySpan, IsMap
-------------------------------------------------------------------------------
(* Searching the start index. *)

(* What the index says of a range of the catalog. *)
LEMMA RangeFacts ==
    ASSUME NEW c, Tidy(c), Indexed(c), NEW i \in DOMAIN c.ranges
    PROVE  /\ c.ranges[i].start_key \in Nat /\ c.ranges[i].end_key \in Nat
           /\ c.ranges[i].start_key \in DOMAIN c.by_start
           /\ c.by_start[c.ranges[i].start_key] = i
           /\ c.ranges[i].range_id = i /\ i \in RangeIds /\ i \in Nat
           /\ \/ c.ranges[i].end_key = 0
              \/ c.ranges[i].start_key < c.ranges[i].end_key
<1>1. /\ IsDescriptor(c.ranges[i]) /\ HasNonEmptySpan(c.ranges[i]) /\ i \in RangeIds
  BY DEF Tidy, TidyRanges
<1> QED
  BY <1>1 DEF Indexed, IsDescriptor, HasNonEmptySpan, RangeIds

(* An entry of by_start leads to the range that starts there. *)
LEMMA IndexFacts ==
    ASSUME NEW c, Tidy(c), Indexed(c), NEW s \in DOMAIN c.by_start
    PROVE  /\ c.by_start[s] \in DOMAIN c.ranges
           /\ c.ranges[c.by_start[s]].start_key = s
           /\ s \in Nat
<1>1. PICK i \in DOMAIN c.ranges : s = c.ranges[i].start_key
  BY DEF Indexed
<1> QED
  BY <1>1, RangeFacts

(* The predecessor of a key in by_start: the only range that could hold it. *)
LEMMA Predecessor ==
    ASSUME NEW c, Tidy(c), Indexed(c), NEW key \in Nat, StartsUpTo(c, key) # {}
    PROVE  LET p == Max(StartsUpTo(c, key))
           IN  /\ p \in DOMAIN c.by_start /\ p <= key
               /\ \A s \in DOMAIN c.by_start : s <= key => s <= p
<1>1. DOMAIN c.by_start \subseteq Nat
  BY IndexFacts
<1>2. StartsUpTo(c, key) \in SUBSET (0 .. key)
  BY <1>1 DEF StartsUpTo
<1> QED
  BY <1>2, MaxNat DEF StartsUpTo

(* The next start key after a key, and the range that starts there. *)
LEMMA Successor ==
    ASSUME NEW c, Tidy(c), Indexed(c), NEW key \in Nat, StartsAfter(c, key) # {}
    PROVE  LET q == Min(StartsAfter(c, key))
           IN  /\ q \in DOMAIN c.by_start /\ key < q
               /\ \A s \in DOMAIN c.by_start : key < s => q <= s
<1>1. StartsAfter(c, key) \in SUBSET Nat
  BY IndexFacts DEF StartsAfter
<1> QED
  BY <1>1, MinNat DEF StartsAfter

(* A range that starts at or before a key and is not the predecessor ends
   at or before the predecessor's start.                                   *)
LEMMA OnlyPredecessor ==
    ASSUME NEW c, Tidy(c), Indexed(c), Apart(c), NEW key \in Nat,
           NEW i \in DOMAIN c.ranges, c.ranges[i].start_key <= key
    PROVE  /\ StartsUpTo(c, key) # {}
           /\ LET p == Max(StartsUpTo(c, key))
                  j == c.by_start[p]
              IN  /\ j \in DOMAIN c.ranges /\ p <= key /\ p \in Nat
                  /\ c.ranges[j].start_key = p
                  /\ \/ i = j
                     \/ c.ranges[i].end_key # 0 /\ c.ranges[i].end_key <= p
<1>1. c.ranges[i].start_key \in StartsUpTo(c, key)
  BY RangeFacts DEF StartsUpTo
<1> DEFINE p == Max(StartsUpTo(c, key))
           j == c.by_start[p]
<1>2. /\ p \in DOMAIN c.by_start /\ p <= key
      /\ c.ranges[i].start_key <= p
  BY <1>1, Predecessor, RangeFacts
<1> HIDE DEF p
<1>3. j \in DOMAIN c.ranges /\ c.ranges[j].start_key = p /\ p \in Nat
  BY <1>2, IndexFacts
<1>4. i # j => Disjoint(c.ranges[i], c.ranges[j])
  BY <1>3 DEF Apart
<1>5. /\ c.ranges[i].start_key \in Nat /\ c.ranges[i].end_key \in Nat
      /\ c.ranges[j].end_key \in Nat
      /\ \/ c.ranges[j].end_key = 0
         \/ p < c.ranges[j].end_key
  BY <1>3, RangeFacts
<1>6. i # j => c.ranges[i].end_key # 0 /\ c.ranges[i].end_key <= p
  BY <1>2, <1>3, <1>4, <1>5 DEF Disjoint
<1> QED
  BY <1>1, <1>2, <1>3, <1>6 DEF p

(* find_overlap rejects exactly the spans that meet a range. *)
LEMMA OverlapExact ==
    ASSUME NEW c, Tidy(c), Indexed(c), Apart(c),
           NEW s \in Nat, NEW e \in Nat, e = 0 \/ s < e
    PROVE  FindOverlap(c, s, e) <=>
               \E i \in DOMAIN c.ranges :
                   ~Disjoint(c.ranges[i], [start_key |-> s, end_key |-> e])
<1>1. ASSUME FindOverlap(c, s, e)
      PROVE  \E i \in DOMAIN c.ranges :
               ~Disjoint(c.ranges[i], [start_key |-> s, end_key |-> e])
  <2>1. CASE /\ StartsUpTo(c, s) # {}
             /\ LET pred == c.ranges[c.by_start[Max(StartsUpTo(c, s))]]
                IN  pred.end_key = 0 \/ s < pred.end_key
    <3> DEFINE p == Max(StartsUpTo(c, s))
    <3>1. p \in DOMAIN c.by_start /\ p <= s
      BY <2>1, Predecessor
    <3>2. /\ c.by_start[p] \in DOMAIN c.ranges /\ p \in Nat
          /\ c.ranges[c.by_start[p]].start_key = p
      BY <3>1, IndexFacts
    <3>3. c.ranges[c.by_start[p]].end_key \in Nat
      BY <3>2, RangeFacts
    <3> HIDE DEF p
    <3>4. \/ c.ranges[c.by_start[p]].end_key = 0
          \/ s < c.ranges[c.by_start[p]].end_key
      BY <2>1 DEF p
    <3>5. ~Disjoint(c.ranges[c.by_start[p]], [start_key |-> s, end_key |-> e])
      BY <3>1, <3>2, <3>3, <3>4 DEF Disjoint
    <3> QED
      BY <3>2, <3>5
  <2>2. CASE /\ StartsAfter(c, s) # {}
             /\ e = 0 \/ Min(StartsAfter(c, s)) < e
    <3> DEFINE q == Min(StartsAfter(c, s))
    <3>1. q \in DOMAIN c.by_start /\ s < q
      BY <2>2, Successor
    <3>2. /\ c.by_start[q] \in DOMAIN c.ranges /\ q \in Nat
          /\ c.ranges[c.by_start[q]].start_key = q
      BY <3>1, IndexFacts
    <3>3. /\ c.ranges[c.by_start[q]].end_key \in Nat
          /\ \/ c.ranges[c.by_start[q]].end_key = 0
             \/ q < c.ranges[c.by_start[q]].end_key
      BY <3>2, RangeFacts
    <3>4. e = 0 \/ q < e
      BY <2>2
    <3> HIDE DEF q
    <3>5. ~Disjoint(c.ranges[c.by_start[q]], [start_key |-> s, end_key |-> e])
      BY <3>1, <3>2, <3>3, <3>4 DEF Disjoint
    <3> QED
      BY <3>2, <3>5
  <2> QED
    BY <1>1, <2>1, <2>2 DEF FindOverlap
<1>2. ASSUME NEW i \in DOMAIN c.ranges,
             ~Disjoint(c.ranges[i], [start_key |-> s, end_key |-> e])
      PROVE  FindOverlap(c, s, e)
  <2>0. /\ c.ranges[i].start_key \in Nat /\ c.ranges[i].end_key \in Nat
        /\ c.ranges[i].end_key = 0 \/ s < c.ranges[i].end_key
        /\ e = 0 \/ c.ranges[i].start_key < e
    BY <1>2, RangeFacts DEF Disjoint
  <2>1. CASE c.ranges[i].start_key <= s
    <3>1. /\ StartsUpTo(c, s) # {}
          /\ i = c.by_start[Max(StartsUpTo(c, s))]
      BY <2>0, <2>1, OnlyPredecessor
    <3> QED
      BY <2>0, <3>1 DEF FindOverlap
  <2>2. CASE s < c.ranges[i].start_key
    <3>1. c.ranges[i].start_key \in StartsAfter(c, s)
      BY <2>2, RangeFacts DEF StartsAfter
    <3> DEFINE q == Min(StartsAfter(c, s))
    <3>2. q <= c.ranges[i].start_key /\ q \in Nat
      BY <2>2, <3>1, Successor, RangeFacts, IndexFacts
    <3> HIDE DEF q
    <3>3. e = 0 \/ q < e
      BY <2>0, <3>2
    <3> QED
      BY <3>1, <3>3 DEF FindOverlap, q
  <2> QED
    BY <2>0, <2>1, <2>2
<1> QED
  BY <1>1, <1>2
(* find_range_for_key finds the range of a key exactly when there is one. *)
LEMMA FindExact ==
    ASSUME NEW c, Tidy(c), Indexed(c), Apart(c), NEW k \in Nat
    PROVE  LET r == FindRangeForKey(c, k)
           IN  IF \E i \in DOMAIN c.ranges : ContainsKey(c.ranges[i], k)
               THEN r \in DOMAIN c.ranges /\ ContainsKey(c.ranges[r], k)
               ELSE r = None
<1>1. ASSUME NEW i \in DOMAIN c.ranges, ContainsKey(c.ranges[i], k)
      PROVE  FindRangeForKey(c, k) = i
  <2>1. /\ c.ranges[i].start_key <= k
        /\ c.ranges[i].end_key = 0 \/ k < c.ranges[i].end_key
        /\ c.ranges[i].end_key \in Nat
    BY <1>1, RangeFacts DEF ContainsKey
  <2> DEFINE p == Max(StartsUpTo(c, k))
  <2>2. /\ StartsUpTo(c, k) # {} /\ p <= k /\ p \in Nat
        /\ \/ i = c.by_start[p]
           \/ c.ranges[i].end_key # 0 /\ c.ranges[i].end_key <= p
    BY <2>1, OnlyPredecessor
  <2> HIDE DEF p
  <2>3. i = c.by_start[p]
    BY <2>1, <2>2
  <2> QED
    BY <1>1, <2>2, <2>3 DEF FindRangeForKey, p
<1>2. ASSUME \A i \in DOMAIN c.ranges : ~ContainsKey(c.ranges[i], k)
      PROVE  FindRangeForKey(c, k) = None
  BY <1>2 DEF FindRangeForKey
<1> QED
  BY <1>1, <1>2
-------------------------------------------------------------------------------
(* The fields each command leaves.  A command on ranges is described by the
   rows it puts; the nodes commands touch the nodes only.                  *)
LEMMA CreateFields ==
    ASSUME NEW c, Tidy(c), NEW d, NEW c2, c2 = CreateRange(c, d)
    PROVE  c2 =
               [ranges |-> Put(c.ranges, d.range_id, d),
                by_start |-> Put(c.by_start, d.start_key, d.range_id),
                by_group |-> Put(c.by_group, d.raft_group_id, d.range_id),
                nodes |-> c.nodes,
                next_range_id |-> Larger(c.next_range_id, Succ(d.range_id))]
<1>1. c = [ranges |-> c.ranges, by_start |-> c.by_start, by_group |-> c.by_group,
           nodes |-> c.nodes, next_range_id |-> c.next_range_id]
  BY DEF Tidy
<1> QED
  BY <1>1 DEF CreateRange

(* split_range: two rows, one new start key, one new group. *)
LEMMA SplitFields ==
    ASSUME NEW c, Tidy(c), NEW p, NEW k, NEW c2, c2 = SplitRange(c, p, k)
    PROVE  c2 =
               [ranges |-> Put(Put(c.ranges, p, SplitLhs(c, p, k)),
                               c.next_range_id, SplitRhs(c, p, k)),
                by_start |-> Put(c.by_start, k, c.next_range_id),
                by_group |-> Put(c.by_group, c.next_range_id, c.next_range_id),
                nodes |-> c.nodes,
                next_range_id |-> Succ(c.next_range_id)]
<1>1. c = [ranges |-> c.ranges, by_start |-> c.by_start, by_group |-> c.by_group,
           nodes |-> c.nodes, next_range_id |-> c.next_range_id]
  BY DEF Tidy
<1> QED
  BY <1>1 DEF SplitRange

(* merge_ranges: one row, one start key and one group less. *)
LEMMA MergeFields ==
    ASSUME NEW c, Tidy(c), NEW l, NEW r, NEW c2, c2 = MergeRanges(c, l, r)
    PROVE  c2 =
               [ranges |-> Put(Del(c.ranges, r), l, Merged(c, l, r)),
                by_start |-> Del(c.by_start, c.ranges[r].start_key),
                by_group |-> Del(c.by_group, c.ranges[r].raft_group_id),
                nodes |-> c.nodes,
                next_range_id |-> c.next_range_id]
<1>1. c = [ranges |-> c.ranges, by_start |-> c.by_start, by_group |-> c.by_group,
           nodes |-> c.nodes, next_range_id |-> c.next_range_id]
  BY DEF Tidy
<1> QED
  BY <1>1 DEF MergeRanges

(* c2 is c after an accepted update of range i, or of node n. *)
RowUpdated(c, i, c2) == \/ \E rs, e : c2 = UpdateMembership(c, i, rs, e)
                        \/ \E x : c2 = UpdateLease(c, i, x)

NodeUpdated(c, n, c2) ==
    \/ \E a, t : c2 = RegisterNode(c, n, a, t)
    \/ CanHeartbeat(c, n) /\ \E t : c2 = HeartbeatNode(c, n, t)

(* c2 is c with d as row i, and d has the ids and the span the row had. *)
RowBecomes(c, i, d, c2) ==
    /\ c2 = [ranges |-> [c.ranges EXCEPT ![i] = d],
             by_start |-> c.by_start, by_group |-> c.by_group,
             nodes |-> c.nodes, next_range_id |-> c.next_range_id]
    /\ IsDescriptor(d)
    /\ d.range_id = c.ranges[i].range_id
    /\ d.raft_group_id = c.ranges[i].raft_group_id
    /\ d.start_key = c.ranges[i].start_key
    /\ d.end_key = c.ranges[i].end_key

(* c2 is c with the given row for node n. *)
NodeBecomes(c, n, row, c2) ==
    /\ c2 = [ranges |-> c.ranges, by_start |-> c.by_start, by_group |-> c.by_group,
             nodes |-> Put(c.nodes, n, row), next_range_id |-> c.next_range_id]
    /\ row = [address |-> row.address, heartbeat |-> row.heartbeat]

(* update_membership and update_lease replace one row, by one that differs in
   its replicas, epoch or lease only.                                      *)
LEMMA UpdateFields ==
    ASSUME NEW c, Tidy(c), NEW i \in DOMAIN c.ranges, NEW c2,
           RowUpdated(c, i, c2)
    PROVE  \E d : RowBecomes(c, i, d, c2)
<1>1. /\ c = [ranges |-> c.ranges, by_start |-> c.by_start, by_group |-> c.by_group,
              nodes |-> c.nodes, next_range_id |-> c.next_range_id]
      /\ IsMap(c.ranges) /\ IsDescriptor(c.ranges[i])
  BY DEF Tidy, TidyRanges
<1>2. CASE \E rs, e : c2 = UpdateMembership(c, i, rs, e)
  <2>1. PICK rs, e : c2 = UpdateMembership(c, i, rs, e)
    BY <1>2
  <2> DEFINE d == [c.ranges[i] EXCEPT !.replicas = rs, !.epoch = e]
  <2>2. /\ IsMap(d) /\ DOMAIN d = DescriptorFields
        /\ d.range_id = c.ranges[i].range_id
        /\ d.raft_group_id = c.ranges[i].raft_group_id
        /\ d.start_key = c.ranges[i].start_key /\ d.end_key = c.ranges[i].end_key
    BY <1>1 DEF IsDescriptor, IsMap, DescriptorFields
  <2>3. c2 = [ranges |-> [c.ranges EXCEPT ![i] = d],
              by_start |-> c.by_start, by_group |-> c.by_group,
              nodes |-> c.nodes, next_range_id |-> c.next_range_id]
    <3>1. [c.ranges EXCEPT ![i].replicas = rs, ![i].epoch = e]
              = [c.ranges EXCEPT ![i] = d]
      BY <1>1 DEF IsMap
    <3> QED
      BY <1>1, <2>1, <3>1 DEF UpdateMembership
  <2> HIDE DEF d
  <2>4. IsDescriptor(d)
    BY <1>1, <2>2 DEF IsDescriptor, IsMap
  <2> QED
    BY <2>2, <2>3, <2>4 DEF RowBecomes
<1>3. CASE \E x : c2 = UpdateLease(c, i, x)
  <2>1. PICK x : c2 = UpdateLease(c, i, x)
    BY <1>3
  <2> DEFINE d == [c.ranges[i] EXCEPT !.lease = x]
  <2>2. /\ IsMap(d) /\ DOMAIN d = DescriptorFields
        /\ d.range_id = c.ranges[i].range_id
        /\ d.raft_group_id = c.ranges[i].raft_group_id
        /\ d.start_key = c.ranges[i].start_key /\ d.end_key = c.ranges[i].end_key
    BY <1>1 DEF IsDescriptor, IsMap, DescriptorFields
  <2>3. c2 = [ranges |-> [c.ranges EXCEPT ![i] = d],
              by_start |-> c.by_start, by_group |-> c.by_group,
              nodes |-> c.nodes, next_range_id |-> c.next_range_id]
    BY <1>1, <2>1 DEF UpdateLease, IsMap
  <2> HIDE DEF d
  <2>4. IsDescriptor(d)
    BY <1>1, <2>2 DEF IsDescriptor, IsMap
  <2> QED
    BY <2>2, <2>3, <2>4 DEF RowBecomes
<1> QED
  BY <1>2, <1>3 DEF RowUpdated

(* register_node and heartbeat_node: the row they leave for one node. *)
LEMMA NodeFields ==
    ASSUME NEW c, Tidy(c), NEW n, NEW c2, NodeUpdated(c, n, c2)
    PROVE  \E row : NodeBecomes(c, n, row, c2)
<1>1. /\ c = [ranges |-> c.ranges, by_start |-> c.by_start, by_group |-> c.by_group,
              nodes |-> c.nodes, next_range_id |-> c.next_range_id]
      /\ IsMap(c.nodes)
      /\ \A m \in DOMAIN c.nodes :
            c.nodes[m] = [address |-> c.nodes[m].address,
                          heartbeat |-> c.nodes[m].heartbeat]
  BY DEF Tidy, TidyNodes
<1>2. CASE \E a, t : c2 = RegisterNode(c, n, a, t)
  <2>1. PICK a, t : c2 = RegisterNode(c, n, a, t)
    BY <1>2
  <2> DEFINE row == [address |-> a, heartbeat |-> IF n \in DOMAIN c.nodes
                                                  THEN c.nodes[n].heartbeat ELSE t]
  <2>2. c2 = [ranges |-> c.ranges, by_start |-> c.by_start,
              by_group |-> c.by_group, nodes |-> Put(c.nodes, n, row),
              next_range_id |-> c.next_range_id]
    BY <1>1, <2>1 DEF RegisterNode
  <2>3. row = [address |-> row.address, heartbeat |-> row.heartbeat]
    OBVIOUS
  <2> HIDE DEF row
  <2> QED
    BY <2>2, <2>3 DEF NodeBecomes
<1>3. CASE CanHeartbeat(c, n) /\ \E t : c2 = HeartbeatNode(c, n, t)
  <2>1. PICK t : c2 = HeartbeatNode(c, n, t)
    BY <1>3
  <2> DEFINE row == [c.nodes[n] EXCEPT !.heartbeat = Larger(t, @)]
  <2>0. n \in DOMAIN c.nodes
    BY <1>3 DEF CanHeartbeat
  <2>2. row = [address |-> row.address, heartbeat |-> row.heartbeat]
    BY <1>1, <2>0
  <2>3. c2 = [ranges |-> c.ranges, by_start |-> c.by_start,
              by_group |-> c.by_group, nodes |-> [c.nodes EXCEPT ![n] = row],
              next_range_id |-> c.next_range_id]
    BY <1>1, <2>1 DEF HeartbeatNode
  <2> HIDE DEF row
  <2>4. [c.nodes EXCEPT ![n] = row] = Put(c.nodes, n, row)
    BY <1>1, <2>0 DEF IsMap, Put
  <2> QED
    BY <2>2, <2>3, <2>4 DEF NodeBecomes
<1> QED
  BY <1>2, <1>3 DEF NodeUpdated
-------------------------------------------------------------------------------
(* Every command keeps a tidy catalog tidy. *)

(* Replacing, adding or removing rows, whatever the indices become. *)
LEMMA TidyFrom ==
    ASSUME NEW c, NEW ranges, NEW by_start, NEW by_group, NEW nodes, NEW next \in RangeIds,
           c = [ranges |-> ranges, by_start |-> by_start, by_group |-> by_group,
                nodes |-> nodes, next_range_id |-> next],
           TidyRanges(ranges), TidyNodes(nodes), IsMap(by_start), IsMap(by_group)
    PROVE  Tidy(c)
BY DEF Tidy

(* Catalog::apply keeps every row a descriptor of a span that is not empty. *)
LEMMA ApplyTidy ==
    ASSUME NEW c, Tidy(c), NEW cmd, IsPdCommand(cmd)
    PROVE  Tidy(Apply(c, cmd))
<1> DEFINE c2 == Apply(c, cmd)
<1>0. /\ TidyRanges(c.ranges) /\ TidyNodes(c.nodes)
      /\ IsMap(c.by_start) /\ IsMap(c.by_group) /\ c.next_range_id \in RangeIds
      /\ DOMAIN c.ranges \subseteq RangeIds
  BY DEF Tidy, TidyRanges
<1> SUFFICES ASSUME Accepts(c, cmd) PROVE Tidy(c2)
  BY DEF Apply
<1>a. c2 = Effect(c, cmd)
  BY DEF Apply
<1> HIDE DEF c2
<1>1. CASE cmd.op \in {"RegisterNode", "HeartbeatNode"}
  <2>1. NodeUpdated(c, cmd.node, c2)
    BY <1>a, <1>1 DEF Effect, Accepts, NodeUpdated
  <2>2. PICK row : NodeBecomes(c, cmd.node, row, c2)
    BY <2>1, NodeFields
  <2>3. TidyNodes(Put(c.nodes, cmd.node, row))
    BY <1>0, <2>2 DEF TidyNodes, Put, IsMap, NodeBecomes
  <2> QED
    BY <1>0, <2>2, <2>3, TidyFrom DEF NodeBecomes
<1>2. CASE cmd.op = "CreateRange"
  <2> DEFINE d == cmd.desc
  <2>1. c2 = CreateRange(c, d) /\ CanCreate(c, d)
    BY <1>a, <1>2 DEF Effect, Accepts
  <2>2. IsDescriptor(d) /\ HasNonEmptySpan(d)
    BY <1>2, <2>1 DEF IsPdCommand, CanCreate
  <2>3. d.range_id \in RangeIds
    BY <2>2 DEF IsDescriptor
  <2>4. Larger(c.next_range_id, Succ(d.range_id)) \in RangeIds
    BY <1>0, <2>3, IdTypes
  <2> HIDE DEF d
  <2>5. TidyRanges(Put(c.ranges, d.range_id, d))
    BY <1>0, <2>2, <2>3, TidyPut
  <2> QED
    BY <1>0, <2>1, <2>4, <2>5, CreateFields, PutDelMaps, TidyFrom
<1>3. CASE cmd.op = "SplitRange"
  <2> DEFINE p == cmd.parent
             k == cmd.key
             lhs == SplitLhs(c, p, k)
             rhs == SplitRhs(c, p, k)
  <2>1. c2 = SplitRange(c, p, k) /\ CanSplit(c, p, k) /\ k \in Nat
    BY <1>a, <1>3 DEF Effect, Accepts, IsPdCommand
  <2>2. p \in RangeIds
    BY <1>0, <2>1 DEF CanSplit
  <2>3. /\ IsDescriptor(lhs) /\ HasNonEmptySpan(lhs)
        /\ IsDescriptor(rhs) /\ HasNonEmptySpan(rhs)
    BY <2>1, SplitDescriptors
  <2>4. c2 = [ranges |-> Put(Put(c.ranges, p, lhs), c.next_range_id, rhs),
              by_start |-> Put(c.by_start, k, c.next_range_id),
              by_group |-> Put(c.by_group, c.next_range_id, c.next_range_id),
              nodes |-> c.nodes,
              next_range_id |-> Succ(c.next_range_id)]
    BY <2>1, SplitFields
  <2> HIDE DEF p, k, lhs, rhs
  <2>5. TidyRanges(Put(c.ranges, p, lhs))
    BY <1>0, <2>2, <2>3, TidyPut
  <2>6. TidyRanges(Put(Put(c.ranges, p, lhs), c.next_range_id, rhs))
    BY <1>0, <2>3, <2>5, TidyPut
  <2>7. Succ(c.next_range_id) \in RangeIds
    BY <1>0, IdTypes
  <2> QED
    BY <1>0, <2>4, <2>6, <2>7, PutDelMaps, TidyFrom
<1>4. CASE cmd.op = "MergeRanges"
  <2> DEFINE l == cmd.left
             r == cmd.right
             m == Merged(c, l, r)
  <2>1. c2 = MergeRanges(c, l, r) /\ CanMerge(c, l, r)
    BY <1>a, <1>4 DEF Effect, Accepts
  <2>2. l \in RangeIds
    BY <1>0, <2>1 DEF CanMerge
  <2>3. IsDescriptor(m) /\ HasNonEmptySpan(m)
    BY <2>1, MergedDescriptor
  <2>4. c2 = [ranges |-> Put(Del(c.ranges, r), l, m),
              by_start |-> Del(c.by_start, c.ranges[r].start_key),
              by_group |-> Del(c.by_group, c.ranges[r].raft_group_id),
              nodes |-> c.nodes,
              next_range_id |-> c.next_range_id]
    BY <2>1, MergeFields
  <2> HIDE DEF l, r, m
  <2>5. TidyRanges(Put(Del(c.ranges, r), l, m))
    BY <1>0, <2>2, <2>3, TidyPut, TidyDel
  <2> QED
    BY <1>0, <2>4, <2>5, PutDelMaps, TidyFrom
<1>5. CASE cmd.op \in {"UpdateMembership", "UpdateLease"}
  <2> DEFINE i == cmd.id
  <2>1. /\ i \in DOMAIN c.ranges
        /\ RowUpdated(c, i, c2)
    BY <1>a, <1>5 DEF Effect, Accepts, RowUpdated, CanUpdateMembership, CanUpdateLease
  <2> HIDE DEF i
  <2>2. PICK d : RowBecomes(c, i, d, c2)
    BY <2>1, UpdateFields
  <2>3. HasNonEmptySpan(d)
    BY <1>0, <2>1, <2>2 DEF TidyRanges, HasNonEmptySpan, RowBecomes
  <2>4. TidyRanges([c.ranges EXCEPT ![i] = d])
    BY <1>0, <2>1, <2>2, <2>3, TidyPut DEF RowBecomes
  <2> QED
    BY <1>0, <2>2, <2>4, TidyFrom DEF RowBecomes
<1> QED
  BY <1>1, <1>2, <1>3, <1>4, <1>5 DEF IsPdCommand
-------------------------------------------------------------------------------
(* Commands keep a sound catalog sound as long as ids are left. *)

(* Every range has the raft group of its own id, and by_group knows it. *)
OwnGroups(c) ==
    /\ c.by_group = [i \in DOMAIN c.ranges |-> i]
    /\ \A i \in DOMAIN c.ranges : c.ranges[i].raft_group_id = i

(* The id counter can be told from the ids in use. *)
Derived(c) == c.next_range_id = 1 \/ c.next_range_id - 1 \in DOMAIN c.ranges

(* create_range: the new span meets no other, so its start key is new too. *)
LEMMA CreateSound ==
    ASSUME NEW c, Sound(c), NEW d, IsDescriptor(d), CanCreate(c, d),
           d.range_id + 1 < IdLimit, NEW c2, c2 = CreateRange(c, d)
    PROVE  /\ Indexed(c2) /\ Apart(c2) /\ Fresh(c2)
           /\ OwnGroups(c) /\ d.raft_group_id = d.range_id => OwnGroups(c2)
           /\ Derived(c) => Derived(c2)
<1> DEFINE Ids == DOMAIN c.ranges
<1>0. Tidy(c) /\ Indexed(c) /\ Apart(c) /\ Fresh(c)
  BY DEF Sound
<1>1. /\ c2.ranges = Put(c.ranges, d.range_id, d)
      /\ c2.by_start = Put(c.by_start, d.start_key, d.range_id)
      /\ c2.by_group = Put(c.by_group, d.raft_group_id, d.range_id)
      /\ c2.next_range_id = Larger(c.next_range_id, Succ(d.range_id))
  BY <1>0, CreateFields
<1>2. /\ d.start_key \in Nat /\ d.end_key \in Nat /\ d.range_id \in Nat
      /\ d.range_id \notin Ids
      /\ d.end_key = 0 \/ d.start_key < d.end_key
      /\ ~FindOverlap(c, d.start_key, d.end_key)
  BY DEF CanCreate, HasNonEmptySpan, IsDescriptor, RangeIds
<1>3. ASSUME NEW i \in Ids
      PROVE  Disjoint(c.ranges[i], d) /\ Disjoint(d, c.ranges[i])
  <2>1. Disjoint(c.ranges[i], [start_key |-> d.start_key, end_key |-> d.end_key])
    BY <1>0, <1>2, OverlapExact
  <2> QED
    BY <2>1 DEF Disjoint
<1>4. /\ DOMAIN c2.ranges = Ids \cup {d.range_id}
      /\ c2.ranges[d.range_id] = d
      /\ \A i \in Ids : c2.ranges[i] = c.ranges[i]
  BY <1>1, <1>2 DEF Put
<1>5. /\ DOMAIN c2.by_start = DOMAIN c.by_start \cup {d.start_key}
      /\ c2.by_start[d.start_key] = d.range_id
      /\ \A s \in DOMAIN c.by_start :
            s # d.start_key => c2.by_start[s] = c.by_start[s]
  BY <1>1 DEF Put
<1>6. \A i \in Ids : c.ranges[i].start_key # d.start_key
  <2> TAKE i \in Ids
  <2>1. /\ c.ranges[i].start_key \in Nat /\ c.ranges[i].end_key \in Nat
        /\ \/ c.ranges[i].end_key = 0
           \/ c.ranges[i].start_key < c.ranges[i].end_key
    BY <1>0, RangeFacts
  <2> QED
    BY <1>2, <1>3, <2>1 DEF Disjoint
<1>7. Indexed(c2)
  BY <1>0, <1>4, <1>5, <1>6 DEF Indexed
<1>8. Apart(c2)
  BY <1>0, <1>3, <1>4 DEF Apart
<1>9. /\ c.next_range_id \in Nat /\ 1 <= c.next_range_id
      /\ \A i \in Ids : i \in Nat /\ i < c.next_range_id
  BY <1>0, RangeFacts DEF Fresh, Tidy, RangeIds
<1>10. c2.next_range_id = Larger(c.next_range_id, d.range_id + 1)
  BY <1>1 DEF Succ
<1>11. Fresh(c2)
  BY <1>2, <1>4, <1>9, <1>10 DEF Fresh, Larger
<1>12. ASSUME OwnGroups(c), d.raft_group_id = d.range_id PROVE OwnGroups(c2)
  BY <1>1, <1>4, <1>12 DEF OwnGroups, Put
<1>13. ASSUME Derived(c) PROVE Derived(c2)
  BY <1>2, <1>4, <1>9, <1>10, <1>13 DEF Derived, Larger
<1> QED
  BY <1>7, <1>8, <1>11, <1>12, <1>13

(* split_range: the two halves are the span of the parent. *)
LEMMA SplitSound ==
    ASSUME NEW c, Sound(c), NEW p, NEW k \in Nat, CanSplit(c, p, k),
           c.next_range_id + 1 < IdLimit, NEW c2, c2 = SplitRange(c, p, k)
    PROVE  /\ Indexed(c2) /\ Apart(c2) /\ Fresh(c2)
           /\ OwnGroups(c) => OwnGroups(c2)
           /\ Derived(c2)
<1> DEFINE Ids == DOMAIN c.ranges
           new == c.next_range_id
           lhs == SplitLhs(c, p, k)
           rhs == SplitRhs(c, p, k)
           par == c.ranges[p]
<1>0. Tidy(c) /\ Indexed(c) /\ Apart(c) /\ Fresh(c)
  BY DEF Sound
<1>1. p \in Ids /\ par.start_key < k /\ (par.end_key = 0 \/ k < par.end_key)
  BY DEF CanSplit
<1>2. /\ c2.ranges = Put(Put(c.ranges, p, lhs), new, rhs)
      /\ c2.by_start = Put(c.by_start, k, new)
      /\ c2.by_group = Put(c.by_group, new, new)
      /\ c2.next_range_id = Succ(new)
  BY <1>0, SplitFields
<1>3. par.start_key \in Nat /\ par.end_key \in Nat /\ par.range_id = p
  BY <1>0, <1>1, RangeFacts
<1>4. /\ lhs.start_key = par.start_key /\ lhs.end_key = k /\ lhs.range_id = p
      /\ rhs.start_key = k /\ rhs.end_key = par.end_key /\ rhs.range_id = new
      /\ lhs.raft_group_id = par.raft_group_id /\ rhs.raft_group_id = new
  BY <1>0, <1>3, SplitDescriptors
<1>5. /\ new \in Nat /\ 1 <= new
      /\ \A i \in Ids : i \in Nat /\ i < new
  BY <1>0, RangeFacts DEF Fresh, Tidy, RangeIds
<1>6. new \notin Ids /\ new # p
  BY <1>1, <1>5
<1>7. c2.next_range_id = new + 1
  BY <1>2 DEF Succ
<1> HIDE DEF new, lhs, rhs
<1>8. /\ DOMAIN c2.ranges = Ids \cup {new}
      /\ c2.ranges[new] = rhs /\ c2.ranges[p] = lhs
      /\ \A i \in Ids : i # p => c2.ranges[i] = c.ranges[i]
  BY <1>1, <1>2, <1>6 DEF Put
<1>9. /\ DOMAIN c2.by_start = DOMAIN c.by_start \cup {k}
      /\ c2.by_start[k] = new
      /\ \A s \in DOMAIN c.by_start : s # k => c2.by_start[s] = c.by_start[s]
  BY <1>2 DEF Put
<1>10. ASSUME NEW i \in Ids, i # p
       PROVE  /\ Disjoint(c.ranges[i], lhs) /\ Disjoint(c.ranges[i], rhs)
              /\ Disjoint(lhs, c.ranges[i]) /\ Disjoint(rhs, c.ranges[i])
              /\ c.ranges[i].start_key # k
  <2>1. Disjoint(c.ranges[i], par)
    BY <1>0, <1>1, <1>10 DEF Apart
  <2>2. /\ c.ranges[i].start_key \in Nat /\ c.ranges[i].end_key \in Nat
        /\ \/ c.ranges[i].end_key = 0
           \/ c.ranges[i].start_key < c.ranges[i].end_key
    BY <1>0, RangeFacts
  <2> QED
    BY <1>1, <1>3, <1>4, <2>1, <2>2 DEF Disjoint
<1>11. Indexed(c2)
  <2>1. DOMAIN c2.by_start = {c2.ranges[i].start_key : i \in DOMAIN c2.ranges}
    BY <1>0, <1>1, <1>4, <1>6, <1>8, <1>9 DEF Indexed
  <2>2. ASSUME NEW i \in DOMAIN c2.ranges
        PROVE  c2.by_start[c2.ranges[i].start_key] = i /\ c2.ranges[i].range_id = i
    <3>1. CASE i = new
      BY <1>4, <1>8, <1>9, <3>1
    <3>2. CASE i = p
      BY <1>0, <1>1, <1>3, <1>4, <1>8, <1>9, <3>2, RangeFacts
    <3>3. CASE i \in Ids /\ i # p
      BY <1>0, <1>8, <1>9, <1>10, <3>3, RangeFacts
    <3> QED
      BY <1>8, <3>1, <3>2, <3>3
  <2> QED
    BY <2>1, <2>2 DEF Indexed
<1>12. Apart(c2)
  <2>1. Disjoint(lhs, rhs) /\ Disjoint(rhs, lhs)
    BY <1>1, <1>3, <1>4 DEF Disjoint
  <2> QED
    BY <1>0, <1>6, <1>8, <1>10, <2>1 DEF Apart
<1>13. Fresh(c2) /\ Derived(c2)
  BY <1>5, <1>7, <1>8 DEF Fresh, Derived
<1>14. ASSUME OwnGroups(c) PROVE OwnGroups(c2)
  BY <1>1, <1>2, <1>4, <1>6, <1>8, <1>14 DEF OwnGroups, Put
<1> QED
  BY <1>11, <1>12, <1>13, <1>14

(* merge_ranges: the left range takes over the span of the right one. *)
LEMMA MergeSound ==
    ASSUME NEW c, Sound(c), NEW l, NEW r, CanMerge(c, l, r),
           NEW c2, c2 = MergeRanges(c, l, r)
    PROVE  /\ Indexed(c2) /\ Apart(c2) /\ Fresh(c2)
           /\ OwnGroups(c) => OwnGroups(c2)
<1> DEFINE Ids == DOMAIN c.ranges
           m == Merged(c, l, r)
           left == c.ranges[l]
           right == c.ranges[r]
<1>0. Tidy(c) /\ Indexed(c) /\ Apart(c) /\ Fresh(c) /\ l \in Ids /\ r \in Ids
  BY DEF Sound, CanMerge
<1>1. /\ c2.ranges = Put(Del(c.ranges, r), l, m)
      /\ c2.by_start = Del(c.by_start, right.start_key)
      /\ c2.by_group = Del(c.by_group, right.raft_group_id)
      /\ c2.next_range_id = c.next_range_id
  BY <1>0, MergeFields
<1>2. /\ m.start_key = left.start_key /\ m.end_key = right.end_key
      /\ m.range_id = left.range_id /\ m.raft_group_id = left.raft_group_id
      /\ left.start_key < left.end_key /\ left.end_key = right.start_key
      /\ right.end_key = 0 \/ right.start_key < right.end_key
      /\ l # r
  BY <1>0, MergedDescriptor
<1>3. /\ left.start_key \in Nat /\ left.end_key \in Nat /\ left.range_id = l
      /\ right.start_key \in Nat /\ right.end_key \in Nat
  BY <1>0, RangeFacts
<1> HIDE DEF m
<1>4. /\ DOMAIN c2.ranges = Ids \ {r}
      /\ c2.ranges[l] = m
      /\ \A i \in Ids : i # l /\ i # r => c2.ranges[i] = c.ranges[i]
  BY <1>0, <1>1, <1>2 DEF Put, Del
<1>5. /\ DOMAIN c2.by_start = DOMAIN c.by_start \ {right.start_key}
      /\ \A s \in DOMAIN c.by_start :
            s # right.start_key => c2.by_start[s] = c.by_start[s]
  BY <1>1 DEF Del
<1>6. \A i \in Ids : i # r => c.ranges[i].start_key # right.start_key
  BY <1>0, RangeFacts
<1>7. ASSUME NEW i \in Ids, i # r, i # l
      PROVE  Disjoint(c.ranges[i], m) /\ Disjoint(m, c.ranges[i])
  <2>1. Disjoint(c.ranges[i], left) /\ Disjoint(c.ranges[i], right)
    BY <1>0, <1>7 DEF Apart
  <2>2. /\ c.ranges[i].start_key \in Nat /\ c.ranges[i].end_key \in Nat
        /\ \/ c.ranges[i].end_key = 0
           \/ c.ranges[i].start_key < c.ranges[i].end_key
    BY <1>0, RangeFacts
  <2> QED
    BY <1>2, <1>3, <2>1, <2>2 DEF Disjoint
<1>8. Indexed(c2)
  <2>1. DOMAIN c2.by_start = {c2.ranges[i].start_key : i \in DOMAIN c2.ranges}
    BY <1>0, <1>2, <1>4, <1>5, <1>6 DEF Indexed
  <2>2. ASSUME NEW i \in DOMAIN c2.ranges
        PROVE  c2.by_start[c2.ranges[i].start_key] = i /\ c2.ranges[i].range_id = i
    <3>1. CASE i = l
      BY <1>0, <1>2, <1>3, <1>4, <1>5, <1>6, <3>1, RangeFacts
    <3>2. CASE i # l
      BY <1>0, <1>4, <1>5, <1>6, <3>2, RangeFacts
    <3> QED
      BY <3>1, <3>2
  <2> QED
    BY <2>1, <2>2 DEF Indexed
<1>9. Apart(c2)
  BY <1>0, <1>4, <1>7 DEF Apart
<1>10. Fresh(c2)
  BY <1>0, <1>1, <1>4 DEF Fresh
<1>11. ASSUME OwnGroups(c) PROVE OwnGroups(c2)
  <2>1. /\ right.raft_group_id = r /\ m.raft_group_id = l
        /\ c.by_group = [i \in Ids |-> i]
        /\ \A i \in Ids : c.ranges[i].raft_group_id = i
    BY <1>0, <1>2, <1>11 DEF OwnGroups
  <2>2. c2.by_group = [i \in Ids \ {r} |-> i]
    BY <1>1, <2>1 DEF Del
  <2> QED
    BY <1>4, <2>1, <2>2 DEF OwnGroups
<1> QED
  BY <1>8, <1>9, <1>10, <1>11

(* The other commands leave ids, spans, groups, indices and the counter. *)
LEMMA QuietSound ==
    ASSUME NEW c, Sound(c), NEW c2,
           \/ \E n : NodeUpdated(c, n, c2)
           \/ \E i \in DOMAIN c.ranges : RowUpdated(c, i, c2)
    PROVE  /\ Indexed(c2) /\ Apart(c2) /\ Fresh(c2)
           /\ OwnGroups(c) => OwnGroups(c2)
           /\ Derived(c) => Derived(c2)
           /\ DOMAIN c2.ranges = DOMAIN c.ranges
           /\ \A i \in DOMAIN c.ranges :
                 /\ c2.ranges[i].start_key = c.ranges[i].start_key
                 /\ c2.ranges[i].end_key = c.ranges[i].end_key
<1> DEFINE Quiet ==
        /\ DOMAIN c2.ranges = DOMAIN c.ranges /\ c2.by_start = c.by_start
        /\ c2.by_group = c.by_group /\ c2.next_range_id = c.next_range_id
        /\ \A i \in DOMAIN c.ranges :
              /\ c2.ranges[i].start_key = c.ranges[i].start_key
              /\ c2.ranges[i].end_key = c.ranges[i].end_key
              /\ c2.ranges[i].range_id = c.ranges[i].range_id
              /\ c2.ranges[i].raft_group_id = c.ranges[i].raft_group_id
<1>0. Tidy(c) /\ Indexed(c) /\ Apart(c) /\ Fresh(c) /\ IsMap(c.ranges)
  BY DEF Sound, Tidy, TidyRanges
<1>1. ASSUME NEW n, NodeUpdated(c, n, c2) PROVE Quiet
  <2>1. PICK row : NodeBecomes(c, n, row, c2)
    BY <1>0, <1>1, NodeFields
  <2> QED
    BY <2>1 DEF NodeBecomes
<1>2. ASSUME NEW i \in DOMAIN c.ranges, RowUpdated(c, i, c2) PROVE Quiet
  <2>1. PICK d : RowBecomes(c, i, d, c2)
    BY <1>0, <1>2, UpdateFields
  <2> QED
    BY <1>0, <2>1 DEF RowBecomes, IsMap
<1>3. Quiet
  BY <1>1, <1>2
<1> QED
  BY <1>0, <1>3 DEF Indexed, Apart, Disjoint, Fresh, OwnGroups, Derived

(* Every command keeps a sound catalog sound, the groups those of the ranges,
   and, but for a merge, the counter derived.                              *)
LEMMA ApplySound ==
    ASSUME NEW c, Sound(c), NEW cmd, IsPdCommand(cmd), IdsLeft(c, cmd)
    PROVE  /\ Sound(Apply(c, cmd))
           /\ OwnGroups(c) /\ (cmd.op = "CreateRange" =>
                                  cmd.desc.raft_group_id = cmd.desc.range_id)
                 => OwnGroups(Apply(c, cmd))
           /\ Derived(c) /\ cmd.op # "MergeRanges" => Derived(Apply(c, cmd))
<1> DEFINE c2 == Apply(c, cmd)
<1>1. Tidy(c2)
  BY ApplyTidy DEF Sound
<1>2. CASE ~Accepts(c, cmd)
  BY <1>2 DEF Apply
<1>3. CASE Accepts(c, cmd)
  <2>1. c2 = Effect(c, cmd)
    BY <1>3 DEF Apply
  <2> HIDE DEF c2
  <2>2. CASE cmd.op \in {"RegisterNode", "HeartbeatNode"}
    <3>1. NodeUpdated(c, cmd.node, c2)
      BY <1>3, <2>1, <2>2 DEF Effect, Accepts, NodeUpdated
    <3> QED
      BY <1>1, <2>2, <3>1, QuietSound DEF Sound, c2
  <2>3. CASE cmd.op = "CreateRange"
    <3>1. /\ c2 = CreateRange(c, cmd.desc) /\ CanCreate(c, cmd.desc)
          /\ IsDescriptor(cmd.desc) /\ cmd.desc.range_id + 1 < IdLimit
      BY <1>3, <2>1, <2>3 DEF Effect, Accepts, IsPdCommand, IdsLeft
    <3> QED
      BY <1>1, <2>3, <3>1, CreateSound DEF Sound, c2
  <2>4. CASE cmd.op = "SplitRange"
    <3>1. /\ c2 = SplitRange(c, cmd.parent, cmd.key)
          /\ CanSplit(c, cmd.parent, cmd.key)
          /\ cmd.key \in Nat /\ c.next_range_id + 1 < IdLimit
      BY <1>3, <2>1, <2>4 DEF Effect, Accepts, IsPdCommand, IdsLeft
    <3> QED
      BY <1>1, <2>4, <3>1, SplitSound DEF Sound, c2
  <2>5. CASE cmd.op = "MergeRanges"
    <3>1. /\ c2 = MergeRanges(c, cmd.left, cmd.right)
          /\ CanMerge(c, cmd.left, cmd.right)
      BY <1>3, <2>1, <2>5 DEF Effect, Accepts
    <3> QED
      BY <1>1, <2>5, <3>1, MergeSound DEF Sound, c2
  <2>6. CASE cmd.op \in {"UpdateMembership", "UpdateLease"}
    <3>1. cmd.id \in DOMAIN c.ranges /\ RowUpdated(c, cmd.id, c2)
      BY <1>3, <2>1, <2>6
         DEF Effect, Accepts, RowUpdated, CanUpdateMembership, CanUpdateLease
    <3> QED
      BY <1>1, <2>6, <3>1, QuietSound DEF Sound, c2
  <2> QED
    BY <2>2, <2>3, <2>4, <2>5, <2>6 DEF IsPdCommand
<1> QED
  BY <1>2, <1>3

(* No command takes the counter back, or past the ids it names. *)
LEMMA ApplyNext ==
    ASSUME NEW c, Sound(c), NEW cmd, IsPdCommand(cmd), IdsLeft(c, cmd)
    PROVE  /\ Apply(c, cmd).next_range_id \in Nat
           /\ \/ Apply(c, cmd).next_range_id <= c.next_range_id + 1
              \/ /\ cmd.op = "CreateRange"
                 /\ Apply(c, cmd).next_range_id = cmd.desc.range_id + 1
<1> DEFINE c2 == Apply(c, cmd)
<1>0. Tidy(c) /\ c.next_range_id \in Nat
  BY DEF Sound, Tidy, RangeIds
<1>1. CASE ~Accepts(c, cmd)
  BY <1>0, <1>1 DEF Apply
<1>2. CASE Accepts(c, cmd)
  <2>1. c2 = Effect(c, cmd)
    BY <1>2 DEF Apply
  <2> HIDE DEF c2
  <2>2. CASE cmd.op \in {"RegisterNode", "HeartbeatNode"}
    <3>1. NodeUpdated(c, cmd.node, c2)
      BY <1>2, <2>1, <2>2 DEF Effect, Accepts, NodeUpdated
    <3>2. PICK row : NodeBecomes(c, cmd.node, row, c2)
      BY <1>0, <3>1, NodeFields
    <3> QED
      BY <1>0, <3>2 DEF NodeBecomes, c2
  <2>3. CASE cmd.op = "CreateRange"
    <3>1. /\ c2 = CreateRange(c, cmd.desc) /\ IsDescriptor(cmd.desc)
          /\ cmd.desc.range_id + 1 < IdLimit
      BY <2>1, <2>3 DEF Effect, IsPdCommand, IdsLeft
    <3>2. c2.next_range_id = Larger(c.next_range_id, Succ(cmd.desc.range_id))
      BY <1>0, <3>1, CreateFields
    <3> QED
      BY <1>0, <2>3, <3>1, <3>2 DEF Larger, Succ, IsDescriptor, RangeIds, c2
  <2>4. CASE cmd.op = "SplitRange"
    <3>1. c2 = SplitRange(c, cmd.parent, cmd.key) /\ c.next_range_id + 1 < IdLimit
      BY <2>1, <2>4 DEF Effect, IdsLeft
    <3>2. c2.next_range_id = Succ(c.next_range_id)
      BY <1>0, <3>1, SplitFields
    <3> QED
      BY <1>0, <3>1, <3>2 DEF Succ, c2
  <2>5. CASE cmd.op = "MergeRanges"
    <3>1. c2 = MergeRanges(c, cmd.left, cmd.right)
      BY <2>1, <2>5 DEF Effect
    <3>2. c2.next_range_id = c.next_range_id
      BY <1>0, <3>1, MergeFields
    <3> QED
      BY <1>0, <3>2 DEF c2
  <2>6. CASE cmd.op \in {"UpdateMembership", "UpdateLease"}
    <3>1. cmd.id \in DOMAIN c.ranges /\ RowUpdated(c, cmd.id, c2)
      BY <1>2, <2>1, <2>6
         DEF Effect, Accepts, RowUpdated, CanUpdateMembership, CanUpdateLease
    <3>2. PICK d : RowBecomes(c, cmd.id, d, c2)
      BY <1>0, <3>1, UpdateFields
    <3> QED
      BY <1>0, <3>2 DEF RowBecomes, c2
  <2> QED
    BY <2>2, <2>3, <2>4, <2>5, <2>6 DEF IsPdCommand
<1> QED
  BY <1>1, <1>2
-------------------------------------------------------------------------------
(* Catalog::load. *)

(* Whatever rows it gets, load makes a tidy catalog of them. *)
LEMMA LoadTidy ==
    ASSUME NEW ranges, TidyRanges(ranges), NEW nodes, TidyNodes(nodes),
           NEW hint \in RangeIds, NEW rank
    PROVE  Tidy(Load(ranges, nodes, hint, rank))
<1> DEFINE c == Load(ranges, nodes, hint, rank)
           S == {1, hint} \cup {Succ(i) : i \in DOMAIN ranges}
<1>1. S \in SUBSET RangeIds /\ S # {}
  <2>1. 1 \in RangeIds
    BY IdLimitAssumption DEF RangeIds
  <2>2. \A i \in DOMAIN ranges : Succ(i) \in RangeIds
    BY IdTypes DEF TidyRanges
  <2> QED
    BY <2>1, <2>2
<1>2. Max(S) \in RangeIds
  <2>1. IdLimit - 1 \in Nat
    BY IdLimitAssumption
  <2> HIDE DEF S
  <2> QED
    BY <1>1, <2>1, MaxNat DEF RangeIds
<1>3. c = [ranges |-> ranges, by_start |-> c.by_start, by_group |-> c.by_group,
           nodes |-> nodes, next_range_id |-> Max(S)]
  BY DEF Load
<1>4. IsMap(c.by_start) /\ IsMap(c.by_group)
  BY DEF Load, IsMap
<1> HIDE DEF c, S
<1>5. Tidy(c)
  BY <1>2, <1>3, <1>4, TidyFrom
<1> QED
  BY <1>5 DEF c

(* load finds the catalog again that the rows were taken from, whatever order
   it reads them in, when it is told the counter or can derive it.         *)
LEMMA LoadSame ==
    ASSUME NEW c, Sound(c), OwnGroups(c), NEW hint, NEW rank,
           \A i \in DOMAIN c.ranges : rank[i] \in Nat,
           \/ hint = c.next_range_id
           \/ /\ Derived(c)
              /\ hint = IF DOMAIN c.ranges = {} THEN 1 ELSE Succ(Max(DOMAIN c.ranges))
    PROVE  Load(c.ranges, c.nodes, hint, rank) = c
<1> DEFINE Ids == DOMAIN c.ranges
           S == {1, hint} \cup {Succ(i) : i \in Ids}
           c2 == Load(c.ranges, c.nodes, hint, rank)
<1>0. /\ Tidy(c) /\ Indexed(c) /\ Fresh(c)
      /\ c = [ranges |-> c.ranges, by_start |-> c.by_start, by_group |-> c.by_group,
              nodes |-> c.nodes, next_range_id |-> c.next_range_id]
      /\ IsMap(c.by_start)
  BY DEF Sound, Tidy
<1>1. /\ c.next_range_id \in Nat /\ c.next_range_id < IdLimit /\ 1 <= c.next_range_id
      /\ \A i \in Ids : i \in Nat /\ i < c.next_range_id /\ Succ(i) = i + 1
  BY <1>0, RangeFacts, IdLimitAssumption DEF Fresh, Tidy, RangeIds, Succ
<1>2. /\ hint \in Nat /\ hint <= c.next_range_id
      /\ c.next_range_id \in {1, hint}
  <2>1. CASE hint = c.next_range_id
    BY <1>1, <2>1
  <2>2. CASE /\ Derived(c)
             /\ hint = IF Ids = {} THEN 1 ELSE Succ(Max(Ids))
    <3>1. CASE Ids = {}
      BY <1>1, <2>2, <3>1 DEF Derived
    <3>2. CASE Ids # {}
      <4>1. Ids \in SUBSET (0 .. c.next_range_id)
        BY <1>1
      <4>2. Max(Ids) \in Ids /\ \A y \in Ids : y <= Max(Ids)
        <5> HIDE DEF Ids
        <5> QED
          BY <1>1, <3>2, <4>1, MaxNat
      <4>3. Ids # {} => c.next_range_id - 1 \in Ids
        BY <1>1, <2>2 DEF Derived
      <4> QED
        BY <1>1, <2>2, <3>2, <4>2, <4>3
    <3> QED
      BY <3>1, <3>2
  <2> QED
    BY <2>1, <2>2
<1>3. Max(S) = c.next_range_id
  <2>1. S \in SUBSET (0 .. c.next_range_id) /\ c.next_range_id \in S
    BY <1>1, <1>2
  <2> HIDE DEF S
  <2>2. Max(S) \in S /\ \A y \in S : y <= Max(S)
    BY <1>1, <2>1, MaxNat
  <2> QED
    BY <1>1, <2>1, <2>2
<1>4. c2.by_start = c.by_start
  <2> DEFINE at(s) == {i \in Ids : c.ranges[i].start_key = s}
             last(T) == CHOOSE i \in T : \A j \in T : rank[j] <= rank[i]
  <2>1. c2.by_start = [s \in DOMAIN c.by_start |-> last(at(s))]
    BY <1>0 DEF Load, Indexed
  <2>2. ASSUME NEW s \in DOMAIN c.by_start PROVE last(at(s)) = c.by_start[s]
    <3>1. at(s) = {c.by_start[s]}
      BY <1>0, RangeFacts, IndexFacts
    <3>2. c.by_start[s] \in Ids
      BY <1>0, IndexFacts
    <3> QED
      BY <3>1, <3>2
  <2> QED
    BY <1>0, <2>1, <2>2 DEF IsMap
<1>5. c2.by_group = c.by_group
  <2> DEFINE owners(g) == {i \in Ids : c.ranges[i].raft_group_id = g}
             last(T) == CHOOSE i \in T : \A j \in T : rank[j] <= rank[i]
  <2>1. {c.ranges[i].raft_group_id : i \in Ids} = Ids
    BY DEF OwnGroups
  <2>2. c2.by_group = [g \in Ids |-> last(owners(g))]
    BY <2>1 DEF Load
  <2>3. ASSUME NEW g \in Ids PROVE last(owners(g)) = g
    <3>1. owners(g) = {g}
      BY DEF OwnGroups
    <3> QED
      BY <3>1
  <2> QED
    BY <2>2, <2>3 DEF OwnGroups
<1>6. c2 = [ranges |-> c.ranges, by_start |-> c2.by_start, by_group |-> c2.by_group,
            nodes |-> c.nodes, next_range_id |-> Max(S)]
  BY DEF Load
<1> QED
  BY <1>0, <1>3, <1>4, <1>5, <1>6
===============================================================================
