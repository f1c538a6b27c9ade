--------------------------- MODULE PdCatalogProofs ---------------------------
(***************************************************************************)
(* Theorems about PdCatalog, PdAdmin and PdAccess, for every value of      *)
(* their constants.                                                        *)
(*                                                                         *)
(* NoOverlap is not inductive: create_range trusts find_overlap, which     *)
(* looks at two neighbours in by_start only, and split_range trusts that   *)
(* next_range_id is unused.  CatalogInv adds what they rely on: it is the  *)
(* type invariant and Sound of module CatalogFacts.                        *)
(***************************************************************************)
EXTENDS PdCatalog, PdAdmin, PdAccess, CatalogFacts, FiniteSetTheorems, SequenceTheorems, TLAPS

(* Inserting into and removing from a map keeps its type. *)
LEMMA PutMap ==
    ASSUME NEW D, NEW R, NEW f, PartialMap(f, D, R), NEW k \in D, NEW v \in R
    PROVE  PartialMap(Put(f, k, v), D, R)
BY DEF PartialMap, Put

(* remove keeps a map a map. *)
LEMMA DelMap ==
    ASSUME NEW D, NEW R, NEW f, PartialMap(f, D, R), NEW k
    PROVE  PartialMap(Del(f, k), D, R)
BY DEF PartialMap, Del
------------------------------------------------------------------------------
(* Type correctness. *)
LEMMA SplitTypes ==
    ASSUME TypeOK, NEW p \in Ids, NEW k \in Keys
    PROVE  /\ SplitRhs(cat, p, k) \in Descriptors
           /\ SplitLhs(cat, p, k) \in Descriptors
<1>1. cat.ranges[p] \in Descriptors /\ cat.next_range_id \in RangeIds
  BY DEF TypeOK, PartialMap, Ids
<1>2. Succ(cat.ranges[p].generation) \in RangeIds
  BY <1>1, IdTypes DEF Descriptors
<1> QED
  BY <1>1, <1>2 DEF SplitRhs, SplitLhs, Descriptors

(* The merged descriptor of two ranges is a descriptor. *)
LEMMA MergedType ==
    ASSUME TypeOK, NEW l \in Ids, NEW r \in Ids
    PROVE  Merged(cat, l, r) \in Descriptors
<1>1. cat.ranges[l] \in Descriptors /\ cat.ranges[r] \in Descriptors
  BY DEF TypeOK, PartialMap, Ids
<1>2. Succ(Larger(cat.ranges[l].generation, cat.ranges[r].generation)) \in RangeIds
  BY <1>1, IdTypes DEF Descriptors
<1> QED
  BY <1>1, <1>2 DEF Merged, Descriptors

(* What CreateRange carries is a descriptor. *)
LEMMA NewDescriptorType == NewDescriptors \subseteq Descriptors
<1>1. 0 \in Epochs /\ 0 \in RangeIds /\ CreateIds \subseteq RangeIds
  BY CatalogConstants, IdLimitAssumption DEF Epochs, RangeIds
<1> QED
  BY <1>1 DEF NewDescriptors, Descriptors

(* No command takes a field out of its Rust type. *)
LEMMA TypeStep == TypeOK /\ [Next]_cat => TypeOK'
<1> SUFFICES ASSUME TypeOK, [Next]_cat PROVE TypeOK'
  OBVIOUS
<1> DEFINE NodeRows == [address : Addresses, heartbeat : 0 .. MaxTime]
<1>0. /\ cat = [ranges |-> cat.ranges, by_start |-> cat.by_start,
                by_group |-> cat.by_group, nodes |-> cat.nodes,
                next_range_id |-> cat.next_range_id]
      /\ PartialMap(cat.ranges, RangeIds, Descriptors)
      /\ PartialMap(cat.by_start, Keys, RangeIds)
      /\ PartialMap(cat.by_group, RangeIds, RangeIds)
      /\ PartialMap(cat.nodes, Nodes, NodeRows)
      /\ cat.next_range_id \in RangeIds
  BY DEF TypeOK
<1>1. CASE DoRegisterNode
  <2>1. PICK n \in Nodes, a \in Addresses, t \in 0 .. MaxTime :
            cat' = RegisterNode(cat, n, a, t)
    BY <1>1 DEF DoRegisterNode
  <2> DEFINE row == [address |-> a,
                     heartbeat |-> IF n \in DOMAIN cat.nodes
                                   THEN cat.nodes[n].heartbeat ELSE t]
  <2>2. cat' = [ranges |-> cat.ranges, by_start |-> cat.by_start,
                by_group |-> cat.by_group, nodes |-> Put(cat.nodes, n, row),
                next_range_id |-> cat.next_range_id]
    BY <1>0, <2>1 DEF RegisterNode
  <2>3. row \in NodeRows
    BY <1>0, CatalogConstants DEF PartialMap
  <2>4. PartialMap(Put(cat.nodes, n, row), Nodes, NodeRows)
    BY <1>0, <2>3, PutMap
  <2> QED
    BY <1>0, <2>2, <2>4 DEF TypeOK
<1>2. CASE DoHeartbeatNode
  <2>1. PICK n \in Nodes, t \in 0 .. MaxTime :
            CanHeartbeat(cat, n) /\ cat' = HeartbeatNode(cat, n, t)
    BY <1>2 DEF DoHeartbeatNode
  <2> DEFINE row == [cat.nodes[n] EXCEPT !.heartbeat = Larger(t, @)]
             nds == [cat.nodes EXCEPT ![n] = row]
  <2>2. n \in DOMAIN cat.nodes
    BY <2>1 DEF CanHeartbeat
  <2>3. cat' = [ranges |-> cat.ranges, by_start |-> cat.by_start,
                by_group |-> cat.by_group, nodes |-> nds,
                next_range_id |-> cat.next_range_id]
    BY <1>0, <2>1 DEF HeartbeatNode
  <2>4. row \in NodeRows
    BY <1>0, <2>2, CatalogConstants DEF PartialMap, Larger
  <2>5. PartialMap(nds, Nodes, NodeRows)
    BY <1>0, <2>2, <2>4 DEF PartialMap
  <2> QED
    BY <1>0, <2>3, <2>5 DEF TypeOK
<1>3. CASE DoCreateRange
  <2>1. PICK d \in NewDescriptors : CanCreate(cat, d) /\ cat' = CreateRange(cat, d)
    BY <1>3 DEF DoCreateRange
  <2>2. cat' = [ranges |-> Put(cat.ranges, d.range_id, d),
                by_start |-> Put(cat.by_start, d.start_key, d.range_id),
                by_group |-> Put(cat.by_group, d.raft_group_id, d.range_id),
                nodes |-> cat.nodes,
                next_range_id |-> Larger(cat.next_range_id, Succ(d.range_id))]
    BY <1>0, <2>1 DEF CreateRange
  <2>3. d \in Descriptors
    BY NewDescriptorType
  <2>4. /\ d.range_id \in RangeIds /\ d.raft_group_id \in RangeIds
        /\ d.start_key \in Keys
    BY <2>3 DEF Descriptors
  <2>5. /\ PartialMap(Put(cat.ranges, d.range_id, d), RangeIds, Descriptors)
        /\ PartialMap(Put(cat.by_start, d.start_key, d.range_id), Keys, RangeIds)
        /\ PartialMap(Put(cat.by_group, d.raft_group_id, d.range_id), RangeIds, RangeIds)
    BY <1>0, <2>3, <2>4, PutMap
  <2>6. Larger(cat.next_range_id, Succ(d.range_id)) \in RangeIds
    BY <1>0, <2>4, IdTypes
  <2> QED
    BY <1>0, <2>2, <2>5, <2>6 DEF TypeOK
<1>4. CASE DoSplitRange
  <2>1. PICK p \in Ids, k \in Keys : CanSplit(cat, p, k) /\ cat' = SplitRange(cat, p, k)
    BY <1>4 DEF DoSplitRange, Ids
  <2> DEFINE new == cat.next_range_id
             lhs == SplitLhs(cat, p, k)
             rhs == SplitRhs(cat, p, k)
  <2>2. cat' = [ranges |-> Put(Put(cat.ranges, p, lhs), new, rhs),
                by_start |-> Put(cat.by_start, k, new),
                by_group |-> Put(cat.by_group, new, new),
                nodes |-> cat.nodes, next_range_id |-> Succ(new)]
    BY <1>0, <2>1 DEF SplitRange
  <2>3. lhs \in Descriptors /\ rhs \in Descriptors /\ p \in RangeIds
    BY <1>0, SplitTypes DEF Ids, PartialMap
  <2> HIDE DEF lhs, rhs
  <2>4. PartialMap(Put(cat.ranges, p, lhs), RangeIds, Descriptors)
    BY <1>0, <2>3, PutMap
  <2>5. /\ PartialMap(Put(Put(cat.ranges, p, lhs), new, rhs), RangeIds, Descriptors)
        /\ PartialMap(Put(cat.by_start, k, new), Keys, RangeIds)
        /\ PartialMap(Put(cat.by_group, new, new), RangeIds, RangeIds)
    BY <1>0, <2>3, <2>4, PutMap
  <2> QED
    BY <1>0, <2>2, <2>5, IdTypes DEF TypeOK
<1>5. CASE DoMergeRanges
  <2>1. PICK l \in Ids, r \in Ids : CanMerge(cat, l, r) /\ cat' = MergeRanges(cat, l, r)
    BY <1>5 DEF DoMergeRanges, Ids
  <2> DEFINE m == Merged(cat, l, r)
             gone == cat.ranges[r]
  <2>2. cat' = [ranges |-> Put(Del(cat.ranges, r), l, m),
                by_start |-> Del(cat.by_start, gone.start_key),
                by_group |-> Del(cat.by_group, gone.raft_group_id),
                nodes |-> cat.nodes, next_range_id |-> cat.next_range_id]
    BY <1>0, <2>1 DEF MergeRanges
  <2>3. m \in Descriptors /\ l \in RangeIds
    BY <1>0, MergedType DEF Ids, PartialMap
  <2> HIDE DEF m, gone
  <2>4. PartialMap(Del(cat.ranges, r), RangeIds, Descriptors)
    BY <1>0, DelMap
  <2>5. /\ PartialMap(Put(Del(cat.ranges, r), l, m), RangeIds, Descriptors)
        /\ PartialMap(Del(cat.by_start, gone.start_key), Keys, RangeIds)
        /\ PartialMap(Del(cat.by_group, gone.raft_group_id), RangeIds, RangeIds)
    BY <1>0, <2>3, <2>4, PutMap, DelMap
  <2> QED
    BY <1>0, <2>2, <2>5 DEF TypeOK
<1>6. CASE DoUpdateMembership
  <2>1. PICK i \in Ids, rs \in ReplicaSets, e \in Epochs :
            cat' = UpdateMembership(cat, i, rs, e)
    BY <1>6 DEF DoUpdateMembership, Ids
  <2> DEFINE d == [cat.ranges[i] EXCEPT !.replicas = rs, !.epoch = e]
             rngs == [cat.ranges EXCEPT ![i] = d]
  <2>2. cat' = [ranges |-> rngs, by_start |-> cat.by_start,
                by_group |-> cat.by_group, nodes |-> cat.nodes,
                next_range_id |-> cat.next_range_id]
    BY <1>0, <2>1 DEF UpdateMembership
  <2>3. cat.ranges[i] \in Descriptors
    BY <1>0 DEF PartialMap, Ids
  <2>4. d \in Descriptors
    BY <2>3 DEF Descriptors
  <2>5. PartialMap(rngs, RangeIds, Descriptors)
    BY <1>0, <2>4 DEF PartialMap
  <2> QED
    BY <1>0, <2>2, <2>5 DEF TypeOK
<1>7. CASE DoUpdateLease
  <2>1. PICK i \in Ids, x \in Leases \cup {None} : cat' = UpdateLease(cat, i, x)
    BY <1>7 DEF DoUpdateLease, Ids
  <2> DEFINE d == [cat.ranges[i] EXCEPT !.lease = x]
             rngs == [cat.ranges EXCEPT ![i] = d]
  <2>2. cat' = [ranges |-> rngs, by_start |-> cat.by_start,
                by_group |-> cat.by_group, nodes |-> cat.nodes,
                next_range_id |-> cat.next_range_id]
    BY <1>0, <2>1 DEF UpdateLease
  <2>3. cat.ranges[i] \in Descriptors
    BY <1>0 DEF PartialMap, Ids
  <2>4. d \in Descriptors
    BY <2>3 DEF Descriptors
  <2>5. PartialMap(rngs, RangeIds, Descriptors)
    BY <1>0, <2>4 DEF PartialMap
  <2> QED
    BY <1>0, <2>2, <2>5 DEF TypeOK
<1>8. CASE UNCHANGED cat
  BY <1>8 DEF TypeOK
<1> QED
  BY <1>1, <1>2, <1>3, <1>4, <1>5, <1>6, <1>7, <1>8 DEF Next

(* Catalog::new has its types. *)
LEMMA TypeInit == Init => TypeOK
BY IdLimitAssumption
   DEF Init, TypeOK, NewCatalog, Empty, PartialMap, RangeIds

(* Every reachable catalog is one its Rust types admit. *)
THEOREM TypeCorrect == Spec => []TypeOK
BY TypeInit, TypeStep, PTL DEF Spec
------------------------------------------------------------------------------
(* The invariant in the words of module CatalogFacts. *)
LEMMA CatalogIsTidy == TypeOK /\ StartIndexExact => Tidy(cat) /\ Indexed(cat)
<1> SUFFICES ASSUME TypeOK, StartIndexExact PROVE Tidy(cat) /\ Indexed(cat)
  OBVIOUS
<1>1. /\ cat = [ranges |-> cat.ranges, by_start |-> cat.by_start,
                by_group |-> cat.by_group, nodes |-> cat.nodes,
                next_range_id |-> cat.next_range_id]
      /\ PartialMap(cat.ranges, RangeIds, Descriptors)
      /\ IsMap(cat.by_start) /\ IsMap(cat.by_group)
      /\ PartialMap(cat.nodes, Nodes, [address : Addresses, heartbeat : 0 .. MaxTime])
      /\ cat.next_range_id \in RangeIds
  BY DEF TypeOK, PartialMap, IsMap
<1>2. \A d \in Descriptors : IsDescriptor(d)
  BY DEF Descriptors, IsDescriptor, DescriptorFields, Keys
<1>3. TidyRanges(cat.ranges)
  BY <1>1, <1>2 DEF PartialMap, TidyRanges, IsMap, StartIndexExact, Ids
<1>4. TidyNodes(cat.nodes)
  BY <1>1 DEF PartialMap, TidyNodes, IsMap
<1>5. Tidy(cat)
  BY <1>1, <1>3, <1>4 DEF Tidy
<1> QED
  BY <1>5 DEF Indexed, StartIndexExact, Ids

(* CatalogInv is the type invariant and Sound. *)
LEMMA InvIsSound == CatalogInv <=> TypeOK /\ Sound(cat)
<1>1. CatalogInv => Sound(cat)
  BY CatalogIsTidy DEF CatalogInv, Sound, Apart, NoOverlap, Fresh, FreshIds, Ids
<1>2. Sound(cat) => StartIndexExact /\ NoOverlap /\ FreshIds
  BY DEF Sound, Tidy, TidyRanges, Indexed, Apart, Fresh, StartIndexExact, NoOverlap,
         FreshIds, Ids
<1> QED
  BY <1>1, <1>2 DEF CatalogInv

(* What the lookups need of the invariant. *)
LEMMA KeysAreNaturals == MaxKey \in Nat /\ Keys \subseteq Nat
BY CatalogConstants DEF Keys

(* find_overlap rejects exactly the spans that meet a range. *)
LEMMA OverlapIsExact == CatalogInv => OverlapCheckExact
<1> SUFFICES ASSUME CatalogInv, NEW s \in Keys, NEW e \in Keys, e = 0 \/ s < e
             PROVE  FindOverlap(cat, s, e) <=>
                      \E i \in Ids :
                        ~Disjoint(cat.ranges[i], [start_key |-> s, end_key |-> e])
  BY DEF OverlapCheckExact
<1>1. Tidy(cat) /\ Indexed(cat) /\ Apart(cat) /\ s \in Nat /\ e \in Nat
  BY InvIsSound, KeysAreNaturals DEF Sound
<1> QED
  BY <1>1, OverlapExact DEF Ids

(* find_range_for_key finds the range of a key exactly when there is one. *)
LEMMA LookupIsExact == CatalogInv => LookupExact
<1> SUFFICES ASSUME CatalogInv, NEW k \in Keys
             PROVE  LET r == FindRangeForKey(cat, k)
                    IN  IF k \in Covered THEN r \in Ids /\ Covers(r, k)
                                         ELSE r = None
  BY DEF LookupExact
<1>1. Tidy(cat) /\ Indexed(cat) /\ Apart(cat) /\ k \in Nat
  BY InvIsSound, KeysAreNaturals DEF Sound
<1>2. k \in Covered <=> \E i \in DOMAIN cat.ranges : ContainsKey(cat.ranges[i], k)
  BY DEF Covered, Covers, Ids
<1> QED
  BY <1>1, <1>2, FindExact DEF Ids, Covers
------------------------------------------------------------------------------
(* The inductive step: every action is an accepted PdCommand. *)

(* An accepted command of the model, which leaves ids for the next one. *)
Accepted(cmd) ==
    /\ IsPdCommand(cmd) /\ Accepts(cat, cmd) /\ cat' = Apply(cat, cmd)
    /\ IdsLeft(cat, cmd)
    /\ ~AnyGroup => (cmd.op = "CreateRange" => cmd.desc.raft_group_id = cmd.desc.range_id)

(* What the callers of the model send are PdCommands. *)
LEMMA NewAreDescriptors ==
    ASSUME NEW d \in NewDescriptors
    PROVE  /\ IsDescriptor(d) /\ d.range_id \in CreateIds
           /\ ~AnyGroup => d.raft_group_id = d.range_id
<1>1. d \in Descriptors /\ d.range_id \in CreateIds
  BY NewDescriptorType DEF NewDescriptors
<1>2. IsDescriptor(d)
  BY <1>1 DEF Descriptors, IsDescriptor, DescriptorFields, Keys
<1> QED
  BY <1>1, <1>2 DEF NewDescriptors

(* Every step applies one command. *)
LEMMA StepIsCommand ==
    ASSUME NoWrap, Next, cat.next_range_id \in RangeIds
    PROVE  \E cmd : Accepted(cmd)
<1>1. CASE DoRegisterNode
  <2>1. PICK n \in Nodes, a \in Addresses, t \in 0 .. MaxTime :
            cat' = RegisterNode(cat, n, a, t)
    BY <1>1 DEF DoRegisterNode
  <2>2. Accepted([op |-> "RegisterNode", node |-> n, address |-> a, seen |-> t])
    BY <2>1 DEF Accepted, IsPdCommand, Accepts, Apply, Effect, IdsLeft
  <2> QED
    BY <2>2
<1>2. CASE DoHeartbeatNode
  <2>1. PICK n \in Nodes, t \in 0 .. MaxTime :
            CanHeartbeat(cat, n) /\ cat' = HeartbeatNode(cat, n, t)
    BY <1>2 DEF DoHeartbeatNode
  <2>2. Accepted([op |-> "HeartbeatNode", node |-> n, seen |-> t])
    BY <2>1 DEF Accepted, IsPdCommand, Accepts, Apply, Effect, IdsLeft
  <2> QED
    BY <2>2
<1>3. CASE DoCreateRange
  <2>1. PICK d \in NewDescriptors : CanCreate(cat, d) /\ cat' = CreateRange(cat, d)
    BY <1>3 DEF DoCreateRange
  <2>2. /\ IsDescriptor(d) /\ d.range_id + 1 < IdLimit
        /\ ~AnyGroup => d.raft_group_id = d.range_id
    BY NewAreDescriptors DEF NoWrap
  <2>3. Accepted([op |-> "CreateRange", desc |-> d])
    BY <2>1, <2>2 DEF Accepted, IsPdCommand, Accepts, Apply, Effect, IdsLeft
  <2> QED
    BY <2>3
<1>4. CASE DoSplitRange
  <2>1. PICK p \in DOMAIN cat.ranges, k \in Keys :
            CanSplit(cat, p, k) /\ cat' = SplitRange(cat, p, k)
    BY <1>4 DEF DoSplitRange
  <2>2. k \in Nat /\ cat.next_range_id + 1 < IdLimit
    BY <1>4, KeysAreNaturals, CatalogConstants, IdLimitAssumption
       DEF DoSplitRange, NoWrap, RangeIds
  <2>3. Accepted([op |-> "SplitRange", parent |-> p, key |-> k])
    BY <2>1, <2>2 DEF Accepted, IsPdCommand, Accepts, Apply, Effect, IdsLeft
  <2> QED
    BY <2>3
<1>5. CASE DoMergeRanges
  <2>1. PICK l \in DOMAIN cat.ranges, r \in DOMAIN cat.ranges :
            CanMerge(cat, l, r) /\ cat' = MergeRanges(cat, l, r)
    BY <1>5 DEF DoMergeRanges
  <2>2. Accepted([op |-> "MergeRanges", left |-> l, right |-> r])
    BY <2>1 DEF Accepted, IsPdCommand, Accepts, Apply, Effect, IdsLeft
  <2> QED
    BY <2>2
<1>6. CASE DoUpdateMembership
  <2>1. PICK i \in DOMAIN cat.ranges, rs \in ReplicaSets, e \in Epochs :
            CanUpdateMembership(cat, i, e) /\ cat' = UpdateMembership(cat, i, rs, e)
    BY <1>6 DEF DoUpdateMembership
  <2>2. Accepted([op |-> "UpdateMembership", id |-> i, replicas |-> rs, epoch |-> e])
    BY <2>1 DEF Accepted, IsPdCommand, Accepts, Apply, Effect, IdsLeft
  <2> QED
    BY <2>2
<1>7. CASE DoUpdateLease
  <2>1. PICK i \in DOMAIN cat.ranges, x \in Leases \cup {None} :
            CanUpdateLease(cat, i) /\ cat' = UpdateLease(cat, i, x)
    BY <1>7 DEF DoUpdateLease
  <2>2. Accepted([op |-> "UpdateLease", id |-> i, lease |-> x])
    BY <2>1 DEF Accepted, IsPdCommand, Accepts, Apply, Effect, IdsLeft
  <2> QED
    BY <2>2
<1> QED
  BY <1>1, <1>2, <1>3, <1>4, <1>5, <1>6, <1>7 DEF Next

(* The empty catalog satisfies the invariant. *)
LEMMA InvInit == Init => CatalogInv
<1> SUFFICES ASSUME Init PROVE CatalogInv
  OBVIOUS
<1>1. TypeOK
  BY TypeInit
<1>2. Ids = {} /\ DOMAIN cat.by_start = {} /\ cat.next_range_id = 1
  BY DEF Init, NewCatalog, Empty, Ids
<1> QED
  BY <1>1, <1>2 DEF CatalogInv, StartIndexExact, NoOverlap, FreshIds

(* Every command preserves the invariant. *)
LEMMA InvStep == NoWrap /\ CatalogInv /\ [Next]_cat => CatalogInv'
<1> SUFFICES ASSUME NoWrap, CatalogInv, [Next]_cat PROVE CatalogInv'
  OBVIOUS
<1>1. TypeOK' /\ TypeOK /\ Sound(cat) /\ cat.next_range_id \in RangeIds
  BY TypeStep, InvIsSound DEF CatalogInv, TypeOK
<1>2. Sound(cat')
  <2>1. CASE Next
    <3>1. PICK cmd : Accepted(cmd)
      BY <1>1, <2>1, StepIsCommand
    <3>2. IsPdCommand(cmd) /\ cat' = Apply(cat, cmd) /\ IdsLeft(cat, cmd)
      BY <3>1 DEF Accepted
    <3>3. Sound(Apply(cat, cmd))
      BY <1>1, <3>2, ApplySound
    <3> QED
      BY <3>2, <3>3
  <2>2. CASE UNCHANGED cat
    BY <1>1, <2>2
  <2> QED
    BY <2>1, <2>2
<1>3. Sound(cat)'
  BY <1>2 DEF Sound, Tidy, Indexed, Apart, Fresh
<1> QED
  BY <1>1, <1>3, InvIsSound, PTL

(* In every reachable catalog the ranges are disjoint, the start index is
   exact and the next id is unused, for any number of keys, ids, replicas
   and commands, as long as no id reaches the end of u64.                  *)
THEOREM CatalogSafe == NoWrap => (Spec => []CatalogInv)
<1> SUFFICES ASSUME NoWrap PROVE Spec => []CatalogInv
  OBVIOUS
<1>1. CatalogInv /\ [Next]_cat => CatalogInv'
  BY InvStep
<1> QED
  BY <1>1, InvInit, PTL DEF Spec

(* catalog.rs invariant 1: two ranges never overlap. *)
THEOREM RangesNeverOverlap == NoWrap => (Spec => []NoOverlap)
<1>1. CatalogInv => NoOverlap
  BY DEF CatalogInv
<1> QED
  BY <1>1, CatalogSafe, PTL

(* find_range_for_key answers with the range that holds the key, always. *)
THEOREM LookupCorrect == NoWrap => (Spec => []LookupExact)
<1>1. CatalogInv => LookupExact
  BY LookupIsExact
<1> QED
  BY <1>1, CatalogSafe, PTL

(* find_overlap is exact: no span that meets a range is let in, and no free
   span is turned away.                                                    *)
THEOREM OverlapCheckCorrect == NoWrap => (Spec => []OverlapCheckExact)
<1>1. CatalogInv => OverlapCheckExact
  BY OverlapIsExact
<1> QED
  BY <1>1, CatalogSafe, PTL

(* Both searches of the start index are exact, in every reachable catalog. *)
THEOREM LookupsCorrect == NoWrap => (Spec => []LookupsExact)
<1>1. LookupExact /\ OverlapCheckExact => LookupsExact
  BY DEF LookupsExact
<1> QED
  BY <1>1, LookupCorrect, OverlapCheckCorrect, PTL
------------------------------------------------------------------------------
(* The key space.  What a step may do to the range of a key. *)

(* No generation reaches the end of u64. *)
GenerationsLeft == \A i \in Ids : cat.ranges[i].generation + 1 < IdLimit

(* The key was in row a of range i and is in row b of range j now. *)
KeyFollows(a, i, b, j) ==
    /\ a.replicas # b.replicas => i = j /\ a.epoch < b.epoch
    /\ IF <<a.range_id, a.start_key, a.end_key>> = <<b.range_id, b.start_key, b.end_key>>
       THEN b.generation = a.generation
       ELSE b.generation > a.generation

(* Where the key of range i is after the step. *)
KeyMoves(k, i, j) ==
    /\ j \in Ids' /\ ContainsKey(cat'.ranges[j], k)
    /\ GenerationsLeft => KeyFollows(cat.ranges[i], i, cat'.ranges[j], j)

(* A row that is left alone keeps its keys. *)
LEMMA SameRow ==
    ASSUME NEW k, NEW i \in Ids, Covers(i, k), i \in Ids', cat'.ranges[i] = cat.ranges[i]
    PROVE  KeyMoves(k, i, i)
BY DEF KeyMoves, KeyFollows, Covers

(* split_range: a key of the parent is in one half, and both have a larger
   generation.                                                             *)
LEMMA SplitMoves ==
    ASSUME CatalogInv, NEW k \in Keys, NEW i \in Ids, Covers(i, k), DoSplitRange
    PROVE  \E j : KeyMoves(k, i, j)
<1>0. TypeOK /\ Tidy(cat) /\ Indexed(cat) /\ Fresh(cat)
  BY InvIsSound DEF Sound
<1>1. PICK p \in Ids, s \in Keys : CanSplit(cat, p, s) /\ cat' = SplitRange(cat, p, s)
  BY DEF DoSplitRange, Ids
<1> DEFINE new == cat.next_range_id
           lhs == SplitLhs(cat, p, s)
           rhs == SplitRhs(cat, p, s)
           par == cat.ranges[p]
<1>2. cat'.ranges = Put(Put(cat.ranges, p, lhs), new, rhs)
  BY <1>0, <1>1, SplitFields
<1>3. /\ par \in Descriptors /\ par.start_key < s /\ par.range_id = p
      /\ par.end_key = 0 \/ s < par.end_key
      /\ new \in RangeIds /\ \A q \in Ids : q < new /\ q \in RangeIds
  BY <1>0, <1>1 DEF TypeOK, PartialMap, Ids, CanSplit, Indexed, Fresh
<1>4. new \notin Ids /\ new # p
  BY <1>3 DEF RangeIds
<1>5. /\ lhs.start_key = par.start_key /\ lhs.end_key = s /\ lhs.range_id = p
      /\ lhs.replicas = par.replicas /\ lhs.generation = Succ(par.generation)
      /\ rhs.start_key = s /\ rhs.end_key = par.end_key /\ rhs.range_id = new
      /\ rhs.replicas = par.replicas /\ rhs.generation = Succ(par.generation)
  BY <1>3 DEF SplitLhs, SplitRhs, Descriptors
<1>6. GenerationsLeft => Succ(par.generation) > par.generation
  BY <1>3 DEF GenerationsLeft, Succ, Descriptors, RangeIds
<1>7. /\ new \in Ids' /\ cat'.ranges[new] = rhs /\ p \in Ids' /\ cat'.ranges[p] = lhs
      /\ i \in Ids' /\ (i # p => cat'.ranges[i] = cat.ranges[i])
  <2> HIDE DEF new, lhs, rhs
  <2> QED
    BY <1>2, <1>4 DEF Put, Ids
<1>8. s \in Nat /\ k \in Nat /\ par.start_key \in Nat /\ par.end_key \in Nat
  BY <1>3, KeysAreNaturals DEF Descriptors
<1>9. i = p => par.start_key <= k /\ (par.end_key = 0 \/ k < par.end_key)
  BY DEF Covers, ContainsKey
<1> HIDE DEF new, lhs, rhs
<1>10. CASE i # p
  BY <1>7, <1>10, SameRow
<1>11. CASE i = p /\ k < s
  <2>1. ContainsKey(lhs, k)
    BY <1>5, <1>9, <1>11 DEF ContainsKey
  <2>2. par.end_key # s
    BY <1>3, <1>8
  <2>3. KeyMoves(k, i, p)
    BY <1>5, <1>6, <1>7, <1>11, <2>1, <2>2 DEF KeyMoves, KeyFollows
  <2> QED
    BY <2>3
<1>12. CASE i = p /\ s <= k
  <2>1. ContainsKey(rhs, k)
    BY <1>5, <1>9, <1>12 DEF ContainsKey
  <2>2. KeyMoves(k, i, new)
    BY <1>3, <1>4, <1>5, <1>6, <1>7, <1>12, <2>1 DEF KeyMoves, KeyFollows
  <2> QED
    BY <2>2
<1> QED
  BY <1>8, <1>10, <1>11, <1>12

(* merge_ranges: the keys of both ranges are in the left one, which has the
   replicas of both and a larger generation than either.                   *)
LEMMA MergeMoves ==
    ASSUME CatalogInv, NEW k \in Keys, NEW i \in Ids, Covers(i, k), DoMergeRanges
    PROVE  \E j : KeyMoves(k, i, j)
<1>0. TypeOK /\ Tidy(cat) /\ Indexed(cat)
  BY InvIsSound DEF Sound
<1>1. PICK l \in Ids, r \in Ids : CanMerge(cat, l, r) /\ cat' = MergeRanges(cat, l, r)
  BY DEF DoMergeRanges, Ids
<1> DEFINE m == Merged(cat, l, r)
           left == cat.ranges[l]
           right == cat.ranges[r]
<1>2. cat'.ranges = Put(Del(cat.ranges, r), l, m)
  BY <1>0, <1>1, MergeFields
<1>3. /\ left \in Descriptors /\ right \in Descriptors
      /\ left.range_id = l /\ right.range_id = r
      /\ left.replicas = right.replicas
  BY <1>0, <1>1 DEF TypeOK, PartialMap, Ids, CanMerge, Indexed
<1>4. /\ m.start_key = left.start_key /\ m.end_key = right.end_key
      /\ m.range_id = l /\ left.start_key < left.end_key
      /\ left.end_key = right.start_key
      /\ right.end_key = 0 \/ right.start_key < right.end_key
      /\ l # r
  BY <1>0, <1>1, <1>3, MergedDescriptor
<1>5. /\ m.replicas = left.replicas
      /\ m.generation = Succ(Larger(left.generation, right.generation))
  BY <1>3 DEF Merged, Descriptors
<1>6. GenerationsLeft => m.generation > left.generation /\ m.generation > right.generation
  BY <1>3, <1>5 DEF GenerationsLeft, Succ, Larger, Descriptors, RangeIds
<1> HIDE DEF m
<1>7. /\ l \in Ids' /\ cat'.ranges[l] = m
      /\ i # l /\ i # r => i \in Ids' /\ cat'.ranges[i] = cat.ranges[i]
  BY <1>2 DEF Put, Del, Ids
<1>8. /\ k \in Nat /\ left.start_key \in Nat /\ left.end_key \in Nat
      /\ right.start_key \in Nat /\ right.end_key \in Nat
  BY <1>3, KeysAreNaturals DEF Descriptors
<1>9. CASE i # l /\ i # r
  BY <1>7, <1>9, SameRow
<1>10. CASE i = l \/ i = r
  <2>1. ContainsKey(m, k)
    BY <1>4, <1>8, <1>10 DEF ContainsKey, Covers
  <2>2. i = l => left.end_key # m.end_key
    BY <1>4, <1>8
  <2>3. KeyMoves(k, i, l)
    BY <1>3, <1>4, <1>5, <1>6, <1>7, <1>10, <2>1, <2>2 DEF KeyMoves, KeyFollows
  <2> QED
    BY <2>3
<1> QED
  BY <1>9, <1>10

(* create_range, the node commands and update_lease leave every key where it
   is; update_membership needs a larger epoch.                             *)
LEMMA QuietMoves ==
    ASSUME CatalogInv, NEW k \in Keys, NEW i \in Ids, Covers(i, k),
           \/ DoCreateRange \/ DoRegisterNode \/ DoHeartbeatNode
           \/ DoUpdateMembership \/ DoUpdateLease \/ UNCHANGED cat
    PROVE  KeyMoves(k, i, i)
<1>0. /\ cat = [ranges |-> cat.ranges, by_start |-> cat.by_start,
                by_group |-> cat.by_group, nodes |-> cat.nodes,
                next_range_id |-> cat.next_range_id]
      /\ cat.ranges = [q \in Ids |-> cat.ranges[q]]
      /\ cat.ranges[i] \in Descriptors
  BY DEF CatalogInv, TypeOK, PartialMap, Ids
<1>1. CASE DoCreateRange
  <2>1. PICK d \in NewDescriptors : CanCreate(cat, d) /\ cat' = CreateRange(cat, d)
    BY <1>1 DEF DoCreateRange
  <2>2. cat'.ranges = Put(cat.ranges, d.range_id, d) /\ d.range_id \notin Ids
    BY <1>0, <2>1 DEF CreateRange, CanCreate, Ids
  <2>3. i \in Ids' /\ cat'.ranges[i] = cat.ranges[i]
    BY <2>2 DEF Put, Ids
  <2> QED
    BY <2>3, SameRow
<1>2. CASE DoRegisterNode \/ DoHeartbeatNode \/ UNCHANGED cat
  <2>1. cat'.ranges = cat.ranges
    BY <1>0, <1>2 DEF DoRegisterNode, DoHeartbeatNode, RegisterNode, HeartbeatNode
  <2> QED
    BY <2>1, SameRow DEF Ids
<1>3. CASE DoUpdateMembership
  <2>1. PICK q \in Ids, rs \in ReplicaSets, e \in Epochs :
            CanUpdateMembership(cat, q, e) /\ cat' = UpdateMembership(cat, q, rs, e)
    BY <1>3 DEF DoUpdateMembership, Ids
  <2> DEFINE d == [cat.ranges[q] EXCEPT !.replicas = rs, !.epoch = e]
  <2>2. cat'.ranges = [cat.ranges EXCEPT ![q] = d]
    BY <1>0, <2>1 DEF UpdateMembership, Ids
  <2>3. i = q => /\ d.range_id = cat.ranges[i].range_id /\ d.epoch = e
                 /\ d.start_key = cat.ranges[i].start_key
                 /\ d.end_key = cat.ranges[i].end_key
                 /\ d.generation = cat.ranges[i].generation
                 /\ cat.ranges[i].epoch < e
    BY <1>0, <2>1 DEF Descriptors, CanUpdateMembership
  <2> HIDE DEF d
  <2>4. i \in Ids' /\ cat'.ranges[i] = IF i = q THEN d ELSE cat.ranges[i]
    BY <1>0, <2>2 DEF Ids
  <2>5. CASE i = q
    BY <2>3, <2>4, <2>5 DEF KeyMoves, KeyFollows, Covers, ContainsKey
  <2>6. CASE i # q
    BY <2>4, <2>6, SameRow
  <2> QED
    BY <2>5, <2>6
<1>4. CASE DoUpdateLease
  <2>1. PICK q \in Ids, x \in Leases \cup {None} : cat' = UpdateLease(cat, q, x)
    BY <1>4 DEF DoUpdateLease, Ids
  <2> DEFINE d == [cat.ranges[q] EXCEPT !.lease = x]
  <2>2. cat'.ranges = [cat.ranges EXCEPT ![q] = d]
    BY <1>0, <2>1 DEF UpdateLease, Ids
  <2>3. i = q => /\ d.range_id = cat.ranges[i].range_id
                 /\ d.replicas = cat.ranges[i].replicas
                 /\ d.start_key = cat.ranges[i].start_key
                 /\ d.end_key = cat.ranges[i].end_key
                 /\ d.generation = cat.ranges[i].generation
    BY <1>0 DEF Descriptors
  <2> HIDE DEF d
  <2>4. i \in Ids' /\ cat'.ranges[i] = IF i = q THEN d ELSE cat.ranges[i]
    BY <1>0, <2>2 DEF Ids
  <2>5. CASE i = q
    BY <2>3, <2>4, <2>5 DEF KeyMoves, KeyFollows, Covers, ContainsKey
  <2>6. CASE i # q
    BY <2>4, <2>6, SameRow
  <2> QED
    BY <2>5, <2>6
<1> QED
  BY <1>1, <1>2, <1>3, <1>4

(* Every step: the key of a range is in some range after it. *)
LEMMA KeyStep ==
    ASSUME CatalogInv, [Next]_cat, NEW k \in Keys, NEW i \in Ids, Covers(i, k)
    PROVE  \E j : KeyMoves(k, i, j)
<1>1. CASE DoSplitRange
  BY <1>1, SplitMoves
<1>2. CASE DoMergeRanges
  BY <1>2, MergeMoves
<1>3. CASE \/ DoCreateRange \/ DoRegisterNode \/ DoHeartbeatNode
           \/ DoUpdateMembership \/ DoUpdateLease \/ UNCHANGED cat
  BY <1>3, QuietMoves
<1> QED
  BY <1>1, <1>2, <1>3 DEF Next

(* catalog.rs invariant 4: splits and merges, and every other command,
   preserve the coverage of the keyspace.                                  *)
THEOREM CoveragePreserved == NoWrap => (Spec => CoverageNeverShrinks)
<1> SUFFICES ASSUME NoWrap PROVE Spec => CoverageNeverShrinks
  OBVIOUS
<1>1. CatalogInv /\ [Next]_cat => [Covered \subseteq Covered']_cat
  BY KeyStep DEF Covered, KeyMoves, Covers
<1>2. Spec => []CatalogInv
  BY CatalogSafe
<1> QED
  BY <1>1, <1>2, PTL DEF Spec, CoverageNeverShrinks

(* A key has one owner. *)
OneOwnerEach == \A k \in Keys : \A i \in Ids : Covers(i, k) => Owner(k) = i

(* Disjoint spans leave no choice of the owner. *)
LEMMA OneOwner == CatalogInv => OneOwnerEach
<1> SUFFICES ASSUME CatalogInv, NEW k \in Keys, NEW i \in Ids, Covers(i, k)
             PROVE  Owner(k) = i
  BY DEF OneOwnerEach
<1>1. ASSUME NEW j \in Ids, Covers(j, k), j # i PROVE FALSE
  <2>1. Disjoint(cat.ranges[i], cat.ranges[j])
    BY <1>1 DEF CatalogInv, NoOverlap
  <2>2. /\ cat.ranges[i].start_key \in Nat /\ cat.ranges[i].end_key \in Nat
        /\ cat.ranges[j].start_key \in Nat /\ cat.ranges[j].end_key \in Nat
        /\ k \in Nat
    BY InvIsSound, RangeFacts, KeysAreNaturals DEF Sound, Ids
  <2> QED
    BY <1>1, <2>1, <2>2 DEF Disjoint, Covers, ContainsKey
<1> QED
  BY <1>1 DEF Owner

(* The owner of a key, before and after a step. *)
LEMMA OwnerStep ==
    ASSUME NoWrap, CatalogInv, [Next]_cat, GenerationsLeft, NEW k \in Covered
    PROVE  KeyFollows(cat.ranges[Owner(k)], Owner(k), cat'.ranges[Owner(k)'], Owner(k)')
<1>1. PICK i \in Ids : Covers(i, k) /\ k \in Keys
  BY DEF Covered
<1>2. PICK j : KeyMoves(k, i, j)
  BY <1>1, KeyStep
<1>3. Owner(k) = i
  BY <1>1, OneOwner DEF OneOwnerEach
<1>4. CatalogInv' /\ j \in Ids' /\ Covers(j, k)' /\ k \in Keys
  BY <1>1, <1>2, InvStep DEF KeyMoves, Covers
<1>5. CatalogInv' => OneOwnerEach'
  BY OneOwner, PTL
<1>6. Owner(k)' = j
  BY <1>4, <1>5 DEF OneOwnerEach
<1> QED
  BY <1>2, <1>3, <1>6 DEF KeyMoves

(* catalog.rs invariants 3 and 5, types.rs: as long as no generation reaches
   the end of u64, a cached descriptor shows every move of its key to other
   replicas by a smaller epoch and every change of the span around the key by
   a smaller generation, for any keys, ids, replicas and commands.         *)
THEOREM CachesSeeChange ==
    NoWrap => (Spec /\ []GenerationsLeft => CachesDetectChange)
<1> SUFFICES ASSUME NoWrap PROVE Spec /\ []GenerationsLeft => CachesDetectChange
  OBVIOUS
<1>1. CatalogInv /\ GenerationsLeft /\ [Next]_cat =>
        [\A k \in Covered \cap Covered' :
            cat.ranges[Owner(k)].replicas # (cat.ranges[Owner(k)].replicas)' =>
                /\ Owner(k) = Owner(k)'
                /\ cat.ranges[Owner(k)].epoch < (cat.ranges[Owner(k)].epoch)']_cat
  BY OwnerStep DEF KeyFollows
<1>2. CatalogInv /\ GenerationsLeft /\ [Next]_cat =>
        [\A k \in Covered \cap Covered' :
            LET old == cat.ranges[Owner(k)]
                new == cat'.ranges[Owner(k)']
            IN  IF <<old.range_id, old.start_key, old.end_key>>
                     = <<new.range_id, new.start_key, new.end_key>>
                THEN new.generation = old.generation
                ELSE new.generation > old.generation]_cat
  BY OwnerStep DEF KeyFollows
<1>3. Spec => []CatalogInv
  BY CatalogSafe
<1> QED
  BY <1>1, <1>2, <1>3, PTL
     DEF Spec, CachesDetectChange, PlacementMovesByEpoch, GenerationTracksSpan
------------------------------------------------------------------------------
(* Ids. *)

(* Put of the row that is there already changes nothing. *)
LEMMA PutAgain ==
    ASSUME NEW f, NEW k, NEW v, NEW w, w = v
    PROVE  Put(Put(f, k, v), k, w) = Put(f, k, v)
BY DEF Put

(* command.rs: a command that was accepted once changes nothing more. *)
LEMMA ReplayAccepted ==
    ASSUME CatalogInv, NEW cmd \in Commands, Accepts(cat, cmd),
           NEW once, once = Effect(cat, cmd)
    PROVE  Apply(once, cmd) = once
<1>0. /\ TypeOK /\ Tidy(cat) /\ Indexed(cat) /\ Fresh(cat)
      /\ cat = [ranges |-> cat.ranges, by_start |-> cat.by_start,
                by_group |-> cat.by_group, nodes |-> cat.nodes,
                next_range_id |-> cat.next_range_id]
  BY InvIsSound DEF Sound, TypeOK
<1>1. CASE cmd.op = "RegisterNode"
  <2> DEFINE n == cmd.node
             row == [address |-> cmd.address,
                     heartbeat |-> IF n \in DOMAIN cat.nodes
                                   THEN cat.nodes[n].heartbeat ELSE cmd.seen]
  <2>1. once = [ranges |-> cat.ranges, by_start |-> cat.by_start,
                by_group |-> cat.by_group, nodes |-> Put(cat.nodes, n, row),
                next_range_id |-> cat.next_range_id]
    BY <1>0, <1>1 DEF Effect, RegisterNode
  <2>2. n \in DOMAIN once.nodes /\ once.nodes[n] = row /\ once.nodes = Put(cat.nodes, n, row)
    <3> HIDE DEF row, n
    <3> QED
      BY <2>1 DEF Put
  <2> DEFINE again == [address |-> cmd.address,
                       heartbeat |-> IF n \in DOMAIN once.nodes
                                     THEN once.nodes[n].heartbeat ELSE cmd.seen]
  <2>3. again = row
    BY <2>2
  <2>4. Apply(once, cmd) = [ranges |-> once.ranges, by_start |-> once.by_start,
                            by_group |-> once.by_group, nodes |-> Put(once.nodes, n, again),
                            next_range_id |-> once.next_range_id]
    <3> HIDE DEF row
    <3> QED
      BY <1>1, <2>1 DEF Apply, Accepts, Effect, RegisterNode
  <2> HIDE DEF row, again, n
  <2>5. Put(once.nodes, n, again) = once.nodes
    BY <2>2, <2>3, PutAgain
  <2> QED
    BY <2>1, <2>4, <2>5
<1>2. CASE cmd.op = "HeartbeatNode"
  <2> DEFINE n == cmd.node
             t == cmd.seen
             row == [cat.nodes[n] EXCEPT !.heartbeat = Larger(t, @)]
  <2>1. /\ n \in DOMAIN cat.nodes /\ cat.nodes = [x \in DOMAIN cat.nodes |-> cat.nodes[x]]
        /\ cat.nodes[n] \in [address : Addresses, heartbeat : 0 .. MaxTime]
        /\ t \in 0 .. MaxTime /\ MaxTime \in Nat
    BY <1>0, <1>2, CatalogConstants
       DEF Accepts, CanHeartbeat, TypeOK, PartialMap, Commands
  <2>2. once = [ranges |-> cat.ranges, by_start |-> cat.by_start,
                by_group |-> cat.by_group, nodes |-> [cat.nodes EXCEPT ![n] = row],
                next_range_id |-> cat.next_range_id]
    BY <1>0, <1>2, <2>1 DEF Effect, HeartbeatNode
  <2>3. /\ row = [address |-> cat.nodes[n].address, heartbeat |-> row.heartbeat]
        /\ Larger(t, row.heartbeat) = row.heartbeat
    BY <2>1 DEF Larger
  <2>4. [row EXCEPT !.heartbeat = Larger(t, @)] = row
    <3> HIDE DEF row
    <3> QED
      BY <2>3
  <2> HIDE DEF row, n, t
  <2>5. /\ once.nodes[n] = row /\ DOMAIN once.nodes = DOMAIN cat.nodes
        /\ once.nodes = [x \in DOMAIN once.nodes |-> once.nodes[x]]
    BY <2>1, <2>2
  <2>6. Apply(once, cmd) = [once EXCEPT !.nodes[n].heartbeat = Larger(t, @)]
    BY <1>2, <2>1, <2>5 DEF Apply, Accepts, Effect, HeartbeatNode, CanHeartbeat, n, t
  <2>7. [once EXCEPT !.nodes[n].heartbeat = Larger(t, @)]
          = [once EXCEPT !.nodes = [once.nodes EXCEPT ![n] = row]]
    BY <2>4, <2>5
  <2>8. [once.nodes EXCEPT ![n] = row] = once.nodes
    BY <2>1, <2>5
  <2>9. [once EXCEPT !.nodes = once.nodes] = once
    BY <2>2
  <2> QED
    BY <2>6, <2>7, <2>8, <2>9
<1>3. CASE cmd.op = "CreateRange"
  <2>1. once.ranges = Put(cat.ranges, cmd.desc.range_id, cmd.desc)
    BY <1>0, <1>3, CreateFields DEF Effect
  <2>2. ~Accepts(once, cmd)
    BY <1>3, <2>1 DEF Accepts, CanCreate, Put
  <2> QED
    BY <2>2 DEF Apply
<1>4. CASE cmd.op = "SplitRange"
  <2> DEFINE p == cmd.parent
             k == cmd.key
             new == cat.next_range_id
             lhs == SplitLhs(cat, p, k)
             rhs == SplitRhs(cat, p, k)
  <2>1. CanSplit(cat, p, k) /\ once = SplitRange(cat, p, k) /\ k \in Nat
    BY <1>4, KeysAreNaturals DEF Accepts, Effect, Commands
  <2>2. once.ranges = Put(Put(cat.ranges, p, lhs), new, rhs)
    BY <1>0, <2>1, SplitFields
  <2>3. lhs.end_key = k /\ cat.ranges[p].start_key < k /\ cat.ranges[p].start_key \in Nat
    BY <1>0, <2>1, SplitDescriptors, RangeFacts DEF CanSplit
  <2>4. p # new
    BY <1>0, <2>1 DEF CanSplit, Fresh, Tidy, TidyRanges, RangeIds
  <2>5. once.ranges[p] = lhs
    <3> HIDE DEF lhs, rhs, new, p
    <3> QED
      BY <2>2, <2>4 DEF Put
  <2>6. ~CanSplit(once, p, k)
    BY <2>1, <2>3, <2>5 DEF CanSplit
  <2> QED
    BY <1>4, <2>6 DEF Apply, Accepts
<1>5. CASE cmd.op = "MergeRanges"
  <2> DEFINE l == cmd.left
             r == cmd.right
  <2>1. CanMerge(cat, l, r) /\ once = MergeRanges(cat, l, r)
    BY <1>5 DEF Accepts, Effect
  <2>2. once.ranges = Put(Del(cat.ranges, r), l, Merged(cat, l, r)) /\ l # r
    BY <1>0, <2>1, MergeFields, MergedDescriptor
  <2>3. r \notin DOMAIN once.ranges
    BY <2>2 DEF Put, Del
  <2> QED
    BY <1>5, <2>3 DEF Apply, Accepts, CanMerge
<1>6. CASE cmd.op = "UpdateMembership"
  <2> DEFINE i == cmd.id
             d == [cat.ranges[i] EXCEPT !.replicas = cmd.replicas, !.epoch = cmd.epoch]
  <2>1. i \in DOMAIN cat.ranges /\ cat.ranges[i] \in Descriptors /\ cmd.epoch \in Nat
    BY <1>0, <1>6, CatalogConstants
       DEF Accepts, CanUpdateMembership, TypeOK, PartialMap, Commands, Epochs
  <2>2. once.ranges = [cat.ranges EXCEPT ![i] = d]
    BY <1>0, <1>6, <2>1 DEF Effect, UpdateMembership, TypeOK, PartialMap
  <2>3. once.ranges[i].epoch = cmd.epoch
    BY <2>1, <2>2 DEF Descriptors
  <2>4. ~Accepts(once, cmd)
    BY <1>6, <2>1, <2>3 DEF Accepts, CanUpdateMembership
  <2> QED
    BY <2>4 DEF Apply
<1>7. CASE cmd.op = "UpdateLease"
  <2> DEFINE i == cmd.id
             x == cmd.lease
             d == [cat.ranges[i] EXCEPT !.lease = x]
  <2>1. /\ i \in DOMAIN cat.ranges /\ cat.ranges[i] \in Descriptors
        /\ cat.ranges = [q \in DOMAIN cat.ranges |-> cat.ranges[q]]
    BY <1>0, <1>7 DEF Accepts, CanUpdateLease, TypeOK, PartialMap
  <2>2. once = [ranges |-> [cat.ranges EXCEPT ![i] = d], by_start |-> cat.by_start,
                by_group |-> cat.by_group, nodes |-> cat.nodes,
                next_range_id |-> cat.next_range_id]
    BY <1>0, <1>7, <2>1 DEF Effect, UpdateLease
  <2>3. [d EXCEPT !.lease = x] = d
    BY <2>1 DEF Descriptors
  <2> HIDE DEF d, i, x
  <2>4. /\ once.ranges[i] = d /\ DOMAIN once.ranges = DOMAIN cat.ranges
        /\ once.ranges = [q \in DOMAIN once.ranges |-> once.ranges[q]]
    BY <2>1, <2>2
  <2>5. Apply(once, cmd) = [once EXCEPT !.ranges[i].lease = x]
    BY <1>7, <2>1, <2>4 DEF Apply, Accepts, Effect, UpdateLease, CanUpdateLease, i, x
  <2>6. [once EXCEPT !.ranges[i].lease = x]
          = [once EXCEPT !.ranges = [once.ranges EXCEPT ![i] = d]]
    BY <2>3, <2>4
  <2>7. [once.ranges EXCEPT ![i] = d] = once.ranges
    BY <2>1, <2>4
  <2>8. [once EXCEPT !.ranges = once.ranges] = once
    BY <2>2
  <2> QED
    BY <2>5, <2>6, <2>7, <2>8
<1> QED
  BY <1>1, <1>2, <1>3, <1>4, <1>5, <1>6, <1>7 DEF Commands

(* Replaying any command changes nothing more. *)
LEMMA ReplayExact == CatalogInv => ReplayIsIdempotent
<1> SUFFICES ASSUME CatalogInv, NEW cmd \in Commands
             PROVE  Apply(Apply(cat, cmd), cmd) = Apply(cat, cmd)
  BY DEF ReplayIsIdempotent
<1>1. CASE Accepts(cat, cmd)
  BY <1>1, ReplayAccepted DEF Apply
<1>2. CASE ~Accepts(cat, cmd)
  BY <1>2 DEF Apply
<1> QED
  BY <1>1, <1>2

(* With the raft group of its own id, every range keeps it. *)
OwnGroupInv == CatalogInv /\ OwnGroups(cat)

(* Every command preserves this. *)
LEMMA OwnGroupStep == NoWrap /\ ~AnyGroup /\ OwnGroupInv /\ [Next]_cat => OwnGroupInv'
<1> SUFFICES ASSUME NoWrap, ~AnyGroup, CatalogInv, OwnGroups(cat), [Next]_cat
             PROVE  CatalogInv' /\ OwnGroups(cat')
  BY DEF OwnGroupInv, OwnGroups
<1>1. CatalogInv'
  BY InvStep
<1>2. Sound(cat) /\ cat.next_range_id \in RangeIds
  BY InvIsSound DEF CatalogInv, TypeOK
<1>3. CASE Next
  <2>1. PICK cmd : Accepted(cmd)
    BY <1>2, <1>3, StepIsCommand
  <2>2. /\ IsPdCommand(cmd) /\ cat' = Apply(cat, cmd) /\ IdsLeft(cat, cmd)
        /\ cmd.op = "CreateRange" => cmd.desc.raft_group_id = cmd.desc.range_id
    BY <2>1 DEF Accepted
  <2>3. OwnGroups(Apply(cat, cmd))
    BY <1>2, <2>2, ApplySound
  <2> QED
    BY <1>1, <2>2, <2>3
<1>4. CASE UNCHANGED cat
  BY <1>1, <1>4
<1> QED
  BY <1>3, <1>4

(* catalog.rs invariant 2, command.rs: no raft group is ever shared by two
   ranges, by_group finds the owner of every group, and a command applied a
   second time by a recovering replica changes nothing, for any keys, ids,
   replicas and commands, as long as callers give a range the group of its
   own id, as RangeDescriptor::new does.                                   *)
THEOREM GroupsStayUnique == NoWrap /\ ~AnyGroup => (Spec => []ReplayKeepsGroups)
<1> SUFFICES ASSUME NoWrap, ~AnyGroup PROVE Spec => []ReplayKeepsGroups
  OBVIOUS
<1>1. Init => OwnGroupInv
  <2> SUFFICES ASSUME Init PROVE OwnGroups(cat)
    BY InvInit DEF OwnGroupInv
  <2> QED
    BY DEF Init, NewCatalog, Empty, OwnGroups
<1>2. OwnGroupInv /\ [Next]_cat => OwnGroupInv'
  BY OwnGroupStep
<1>3. OwnGroupInv => ReplayKeepsGroups
  BY ReplayExact DEF OwnGroupInv, OwnGroups, ReplayKeepsGroups, GroupIdsUnique, Ids
<1> QED
  BY <1>1, <1>2, <1>3, PTL DEF Spec
(* What a step does to the ids, where no id reaches the end of u64. *)
LEMMA IdsStep ==
    ASSUME NoWrap, CatalogInv, [Next]_cat
    PROVE  /\ cat.next_range_id <= cat'.next_range_id
           /\ \A i \in Ids' \ Ids :
                  cat'.ranges[i].start_key \in Covered => cat.next_range_id <= i
<1>0. /\ cat = [ranges |-> cat.ranges, by_start |-> cat.by_start,
                by_group |-> cat.by_group, nodes |-> cat.nodes,
                next_range_id |-> cat.next_range_id]
      /\ cat.ranges = [q \in Ids |-> cat.ranges[q]]
      /\ \A q \in Ids : cat.ranges[q] \in Descriptors
      /\ cat.next_range_id \in Nat
  BY IdLimitAssumption DEF CatalogInv, TypeOK, PartialMap, Ids, RangeIds
<1>1. CASE DoRegisterNode \/ DoHeartbeatNode \/ DoUpdateMembership \/ DoUpdateLease
           \/ UNCHANGED cat
  <2>1. cat'.next_range_id = cat.next_range_id /\ Ids' = Ids
    BY <1>0, <1>1 DEF DoRegisterNode, DoHeartbeatNode, RegisterNode, HeartbeatNode,
       DoUpdateMembership, DoUpdateLease, UpdateMembership, UpdateLease, Ids
  <2> QED
    BY <1>0, <2>1
<1>2. CASE DoCreateRange
  <2>1. PICK d \in NewDescriptors : CanCreate(cat, d) /\ cat' = CreateRange(cat, d)
    BY <1>2 DEF DoCreateRange
  <2>2. /\ cat'.ranges = Put(cat.ranges, d.range_id, d)
        /\ cat'.next_range_id = Larger(cat.next_range_id, Succ(d.range_id))
    BY <1>0, <2>1 DEF CreateRange
  <2>3. d \in Descriptors /\ d.range_id + 1 < IdLimit /\ d.range_id \in Nat
    BY NewDescriptorType, IdLimitAssumption DEF NoWrap, NewDescriptors, Descriptors, RangeIds
  <2>4. cat.next_range_id <= cat'.next_range_id
    BY <1>0, <2>2, <2>3 DEF Larger, Succ
  <2>5. \A i \in Ids' \ Ids : i = d.range_id /\ cat'.ranges[i] = d
    BY <2>2 DEF Put, Ids
  <2>6. d.start_key \in Keys /\ d.end_key \in Keys /\ (d.end_key = 0 \/ d.start_key < d.end_key)
    BY <2>1, <2>3 DEF Descriptors, CanCreate, HasNonEmptySpan
  <2>7. \A i \in Ids : Disjoint(cat.ranges[i], [start_key |-> d.start_key, end_key |-> d.end_key])
    BY <2>1, <2>6, OverlapIsExact DEF CanCreate, OverlapCheckExact
  <2>8. d.start_key \notin Covered
    <3> SUFFICES ASSUME NEW i \in Ids, Covers(i, d.start_key) PROVE FALSE
      BY DEF Covered
    <3>1. /\ cat.ranges[i].start_key \in Nat /\ cat.ranges[i].end_key \in Nat
          /\ d.start_key \in Nat /\ d.end_key \in Nat
      BY <1>0, <2>6, CatalogConstants DEF Descriptors, Keys
    <3> QED
      BY <2>6, <2>7, <3>1 DEF Covers, ContainsKey, Disjoint
  <2> QED
    BY <2>4, <2>5, <2>8
<1>3. CASE DoSplitRange
  <2>1. PICK p \in Ids, k \in Keys : cat' = SplitRange(cat, p, k)
    BY <1>3 DEF DoSplitRange, Ids
  <2>2. /\ DOMAIN cat'.ranges = Ids \cup {p} \cup {cat.next_range_id}
        /\ cat'.next_range_id = Succ(cat.next_range_id)
    BY <1>0, <2>1 DEF SplitRange, Put
  <2>3. cat.next_range_id + 1 < IdLimit
    BY <1>0, <1>3, CatalogConstants, IdLimitAssumption DEF DoSplitRange, NoWrap
  <2>4. cat.next_range_id <= cat'.next_range_id
    BY <1>0, <2>2, <2>3 DEF Succ
  <2>5. \A i \in Ids' \ Ids : i = cat.next_range_id
    BY <2>2 DEF Ids
  <2> QED
    BY <1>0, <2>4, <2>5
<1>4. CASE DoMergeRanges
  <2>1. PICK l \in Ids, r \in Ids : cat' = MergeRanges(cat, l, r)
    BY <1>4 DEF DoMergeRanges, Ids
  <2>2. DOMAIN cat'.ranges = (Ids \ {r}) \cup {l} /\ cat'.next_range_id = cat.next_range_id
    BY <1>0, <2>1 DEF MergeRanges, Put, Del
  <2>3. Ids' \subseteq Ids
    BY <2>2 DEF Ids
  <2> QED
    BY <1>0, <2>2, <2>3
<1> QED
  BY <1>1, <1>2, <1>3, <1>4 DEF Next

(* catalog.rs invariant 6: the counter never goes back and a split never hands
   out an id that any range had in any catalog before, for any keys, ids and
   commands, as long as no id reaches the end of u64.                      *)
THEOREM SplitIdsNeverReused == NoWrap => (Spec => SplitIdsFresh)
<1> SUFFICES ASSUME NoWrap PROVE Spec => SplitIdsFresh
  OBVIOUS
<1>1. CatalogInv /\ [Next]_cat =>
        [/\ cat.next_range_id <= cat'.next_range_id
         /\ \A i \in Ids' \ Ids :
                cat'.ranges[i].start_key \in Covered => cat.next_range_id <= i]_cat
  BY IdsStep
<1> QED
  BY <1>1, CatalogSafe, PTL DEF Spec, SplitIdsFresh

(* catalog.rs invariants 2 and 6 together, when callers give a range the group
   of its own id: ids of splits and groups are handed out once, and a command
   applied again hands out nothing more.                                   *)
THEOREM IdsStayUnique == NoWrap /\ ~AnyGroup => (Spec => IdsHandedOutOnce)
BY SplitIdsNeverReused, GroupsStayUnique DEF IdsHandedOutOnce
------------------------------------------------------------------------------
(* The admin API.  What an answer means is a statement about the committed
   catalogs around its entry, so the invariant keeps them sound and says where
   the call in flight stands in them.                                      *)

(* No id reaches the end of u64 within the commits of a behaviour. *)
IdsSuffice ==
    /\ MaxCommits + 1 < IdLimit
    /\ \A req \in AdminRequests :
          req.op = "CreateRange" => req.desc.range_id + MaxCommits + 1 < IdLimit

CatalogsSound ==
    /\ \E S : catalogs \in Seq(S)
    /\ Len(catalogs) >= 1
    /\ \A k \in 1 .. Len(catalogs) :
          /\ Sound(catalogs[k])
          /\ catalogs[k].next_range_id + MaxCommits + 1 < IdLimit + k

(* The entry of the call stands at slot + 1, and came after the call. *)
Logged(call) ==
    /\ call.slot \in 1 .. Len(catalogs) - 1 /\ call.slot >= call.saw
    /\ catalogs[call.slot + 1] = Apply(catalogs[call.slot], call.req)

(* The errors that leave open what becomes of the command. *)
Open(result) == \E e \in {"NotLeader", "Rpc"} : \E h : result = Failed(e, h)

WriteAnswered(call) ==
    \/ call.slot = 0 /\ Open(call.result)
    \/ Logged(call) /\ Open(call.result)
    \/ call.slot = 0 /\ ~Valid(call.req) /\ call.result = Failed("InvalidArgument", 0)
    \/ Logged(call) /\ call.result = Unwrapped(Response(catalogs[call.slot], call.req))

ReadAnswered(call) ==
    \/ call.slot = 0
    \/ /\ call.slot \in 1 .. Len(catalogs)
       /\ call.result = ReadResult(catalogs[call.slot], call.req)
       /\ call.slot >= ackedAt[call.at]

CallOk(call) ==
    /\ call.req \in AdminRequests /\ call.at \in AdminMembers
    /\ call.saw \in 1 .. Len(catalogs)
    /\ \/ call.pc = "called" /\ call.slot = 0
       \/ /\ call.pc = "logged" /\ call.req.op \notin Reads
          /\ call.slot = 0 \/ Logged(call)
       \/ call.pc = "done" /\ call.req.op \notin Reads /\ WriteAnswered(call)
       \/ call.pc = "done" /\ call.req.op \in Reads /\ ReadAnswered(call)

Fields(pc, req, at, slot, result, saw) ==
    [pc |-> pc, req |-> req, at |-> at, slot |-> slot, result |-> result, saw |-> saw]

AdminRecord(call) ==
    call = Fields(call.pc, call.req, call.at, call.slot, call.result, call.saw)

(* Only commands a handler let through are left in a log. *)
AdminEntries == {req \in AdminRequests : Valid(req) /\ req.op \notin Reads}

AckedApplied ==
    /\ ackedAt \in [AdminMembers -> Nat]
    /\ \A m \in AdminMembers : ackedAt[m] <= caughtUp[m]

AdminInv ==
    /\ CatalogsSound
    /\ caughtUp \in [AdminMembers -> 1 .. Len(catalogs)]
    /\ adrift \in [1 .. MaxAdrift -> AdminEntries \cup {None}]
    /\ AckedApplied
    /\ AdminRecord(admin)
    /\ admin = IdleAdmin \/ CallOk(admin)

(* What a call may rely on of its request. *)
LEMMA RequestTypes ==
    ASSUME NEW req \in AdminRequests
    PROVE  /\ req.op \notin Reads => IsPdCommand(req)
           /\ req.op = "GetRangeByKey" => req.key \in Nat
BY AdminConstants DEF IsPdCommand, Reads

(* NewCatalog is sound: it has no ranges. *)
LEMMA NewIsSound == Sound(NewCatalog)
BY IdLimitAssumption
   DEF NewCatalog, Sound, Tidy, TidyRanges, TidyNodes, IsMap, Indexed, Apart, Fresh, Empty, RangeIds

LEMMA AdminStart == IdsSuffice /\ AdminInit => AdminInv
<1> SUFFICES ASSUME IdsSuffice, AdminInit PROVE AdminInv
  OBVIOUS
<1>1. catalogs \in Seq({NewCatalog}) /\ Len(catalogs) = 1 /\ catalogs[1] = NewCatalog
  BY DEF AdminInit
<1>2. NewCatalog.next_range_id = 1 /\ 1 + MaxCommits + 1 < IdLimit + 1
  BY AdminConstants, IdLimitAssumption DEF NewCatalog, IdsSuffice
<1>3. CatalogsSound
  BY <1>1, <1>2, NewIsSound DEF CatalogsSound
<1> QED
  BY <1>1, <1>3 DEF AdminInit, AdminInv, AdminRecord, Fields, IdleAdmin, AckedApplied

(* A commit appends one sound catalog and moves none. *)
LEMMA CommitCatalogs ==
    ASSUME IdsSuffice, CatalogsSound, NEW req, IsPdCommand(req), req \in AdminRequests,
           Len(catalogs) <= MaxCommits,
           catalogs' = Append(catalogs, Apply(catalogs[Len(catalogs)], req))
    PROVE  /\ CatalogsSound' /\ Len(catalogs) \in Nat /\ Len(catalogs)' = Len(catalogs) + 1
           /\ \A k \in 1 .. Len(catalogs) : catalogs'[k] = catalogs[k]
           /\ catalogs'[Len(catalogs) + 1] = Apply(catalogs[Len(catalogs)], req)
<1> DEFINE n == Len(catalogs)
           c == catalogs[n]
           d == Apply(c, req)
<1>1. PICK S : catalogs \in Seq(S)
  BY DEF CatalogsSound
<1>2. catalogs \in Seq(S \cup {d}) /\ d \in S \cup {d} /\ n \in Nat /\ n >= 1
  BY <1>1 DEF CatalogsSound
<1> HIDE DEF d
<1>3. /\ catalogs' \in Seq(S \cup {d}) /\ Len(catalogs') = n + 1
      /\ catalogs'[n + 1] = d
      /\ \A k \in 1 .. n : catalogs'[k] = catalogs[k]
  BY <1>2, AppendProperties DEF d
<1>4. Sound(c) /\ c.next_range_id + MaxCommits + 1 < IdLimit + n /\ c.next_range_id \in Nat
  BY <1>2, IdLimitAssumption DEF CatalogsSound, Sound, Tidy, RangeIds
<1>5. req.op = "CreateRange" => req.desc.range_id \in Nat
  BY IdLimitAssumption DEF IsPdCommand, IsDescriptor, RangeIds
<1>6. IdsLeft(c, req)
  BY <1>2, <1>4, <1>5, AdminConstants, IdLimitAssumption DEF IdsLeft, IdsSuffice
<1>7. Sound(d) /\ d.next_range_id \in Nat
      /\ \/ d.next_range_id <= c.next_range_id + 1
         \/ req.op = "CreateRange" /\ d.next_range_id = req.desc.range_id + 1
  <2>1. Sound(d)
    BY <1>4, <1>6, ApplySound DEF d
  <2>2. /\ d.next_range_id \in Nat
        /\ \/ d.next_range_id <= c.next_range_id + 1
           \/ req.op = "CreateRange" /\ d.next_range_id = req.desc.range_id + 1
    BY <1>4, <1>6, ApplyNext DEF d
  <2> QED
    BY <2>1, <2>2
<1>8. d.next_range_id + MaxCommits + 1 < IdLimit + (n + 1)
  <2>1. CASE d.next_range_id <= c.next_range_id + 1
    <3> HIDE DEF c
    <3> QED
      BY <1>2, <1>4, <1>7, <2>1, AdminConstants, IdLimitAssumption
  <2>2. CASE req.op = "CreateRange" /\ d.next_range_id = req.desc.range_id + 1
    BY <1>2, <1>5, <1>7, <2>2, AdminConstants, IdLimitAssumption DEF IdsSuffice
  <2> QED
    BY <1>7, <2>1, <2>2
<1>9. CatalogsSound'
  <2>1. Len(catalogs') >= 1
    BY <1>2, <1>3
  <2>2. ASSUME NEW k \in 1 .. Len(catalogs')
        PROVE  /\ Sound(catalogs'[k])
               /\ catalogs'[k].next_range_id + MaxCommits + 1 < IdLimit + k
    <3>1. CASE k = n + 1
      BY <1>3, <1>7, <1>8, <3>1
    <3>2. CASE k \in 1 .. n
      BY <1>3, <3>2 DEF CatalogsSound
    <3> QED
      BY <1>2, <1>3, <2>2, <3>1, <3>2
  <2> QED
    BY <1>3, <2>1, <2>2 DEF CatalogsSound
<1> QED
  BY <1>2, <1>3, <1>9 DEF d

(* The fields of the call after each of its own steps. *)
LEMMA CallFields ==
    ASSUME NEW call, AdminRecord(call), NEW a, NEW b, NEW x
    PROVE  /\ [call EXCEPT !.pc = a]
                  = Fields(a, call.req, call.at, call.slot, call.result, call.saw)
           /\ [call EXCEPT !.slot = x]
                  = Fields(call.pc, call.req, call.at, x, call.result, call.saw)
           /\ [call EXCEPT !.pc = a, !.result = b]
                  = Fields(a, call.req, call.at, call.slot, b, call.saw)
           /\ [call EXCEPT !.pc = a, !.slot = x] = Fields(a, call.req, call.at, x, call.result, call.saw)
<1> DEFINE pc == call.pc
           req == call.req
           at == call.at
           slot == call.slot
           result == call.result
           saw == call.saw
<1>0. call = Fields(pc, req, at, slot, result, saw)
  BY DEF AdminRecord
<1> HIDE DEF pc, req, at, slot, result, saw
<1>1. [call EXCEPT !.pc = a] = Fields(a, req, at, slot, result, saw)
  BY <1>0 DEF Fields
<1>2. [call EXCEPT !.slot = x] = Fields(pc, req, at, x, result, saw)
  BY <1>0 DEF Fields
<1> DEFINE d == [call EXCEPT !.pc = a]
           e == [call EXCEPT !.pc = a, !.slot = x]
<1>3. [call EXCEPT !.pc = a, !.result = b] = Fields(a, req, at, slot, b, saw)
  <2>1. [call EXCEPT !.pc = a, !.result = b] = [d EXCEPT !.result = b]
    OBVIOUS
  <2> HIDE DEF d
  <2>2. d = Fields(a, req, at, slot, result, saw)
    BY <1>1 DEF d
  <2>3. [d EXCEPT !.result = b] = Fields(a, req, at, slot, b, saw)
    BY <2>2 DEF Fields
  <2> QED
    BY <2>1, <2>3
<1>4. e = Fields(a, req, at, x, result, saw)
  <2>1. e = [d EXCEPT !.slot = x]
    OBVIOUS
  <2> HIDE DEF d, e
  <2>2. d = Fields(a, req, at, slot, result, saw)
    BY <1>1 DEF d
  <2>3. [d EXCEPT !.slot = x] = Fields(a, req, at, x, result, saw)
    BY <2>2 DEF Fields
  <2> QED
    BY <2>1, <2>3
<1> QED
  BY <1>1, <1>2, <1>3, <1>4 DEF pc, req, at, slot, result, saw

(* A step of the call that leaves the catalogs alone. *)
LEMMA CallStep ==
    ASSUME AdminInv, UNCHANGED <<catalogs, caughtUp, ackedAt>>, AdminRecord(admin'),
           adrift' \in [1 .. MaxAdrift -> AdminEntries \cup {None}],
           admin' = IdleAdmin \/ CallOk(admin')
    PROVE  AdminInv'
<1>1. CallOk(admin') => CallOk(admin)'
  BY DEF CallOk, Logged, WriteAnswered, ReadAnswered
<1> QED
  BY <1>1 DEF AdminInv, CatalogsSound, AckedApplied

(* What a call relies on stays true when the log grows. *)
LEMMA GrowthKeeps ==
    ASSUME CatalogsSound, UNCHANGED <<admin, ackedAt>>, CallOk(admin), Len(catalogs) \in Nat,
           Len(catalogs)' = Len(catalogs) + 1,
           \A k \in 1 .. Len(catalogs) : catalogs'[k] = catalogs[k]
    PROVE  CallOk(admin)'
<1>1. Logged(admin) => Logged(admin)' /\ catalogs'[admin.slot] = catalogs[admin.slot]
  BY DEF Logged
<1>2. WriteAnswered(admin) => WriteAnswered(admin)'
  BY <1>1 DEF WriteAnswered
<1>3. ReadAnswered(admin) => ReadAnswered(admin)'
  BY DEF ReadAnswered
<1>4. admin.saw \in 1 .. Len(catalogs)'
  BY DEF CallOk
<1> QED
  BY <1>1, <1>2, <1>3, <1>4 DEF CallOk

(* A call that ends leaves an entry in the logs, or none. *)
LEMMA EntryLeft ==
    ASSUME AdminInv, LeavesEntry, admin.req \in AdminRequests
    PROVE  adrift' \in [1 .. MaxAdrift -> AdminEntries \cup {None}]
<1>1. adrift \in [1 .. MaxAdrift -> AdminEntries \cup {None}]
  BY DEF AdminInv
<1>2. CASE UNCHANGED adrift
  BY <1>1, <1>2
<1>3. CASE Valid(admin.req) /\ admin.req.op \notin Reads
           /\ \E i \in 1 .. MaxAdrift : adrift' = [adrift EXCEPT ![i] = admin.req]
  <2>1. admin.req \in AdminEntries
    BY <1>3 DEF AdminEntries
  <2> QED
    BY <1>1, <1>3, <2>1
<1> QED
  BY <1>2, <1>3 DEF LeavesEntry

LEMMA AdminStep == IdsSuffice /\ AdminInv /\ [AdminSteps]_adminVars => AdminInv'
<1> SUFFICES ASSUME IdsSuffice, AdminInv, [AdminSteps]_adminVars PROVE AdminInv'
  OBVIOUS
<1> DEFINE n == Len(catalogs)
<1>a. /\ CatalogsSound /\ AdminRecord(admin) /\ n \in Nat /\ n >= 1
      /\ caughtUp \in [AdminMembers -> 1 .. n] /\ (admin = IdleAdmin \/ CallOk(admin))
      /\ adrift \in [1 .. MaxAdrift -> AdminEntries \cup {None}] /\ AckedApplied
  BY DEF AdminInv, CatalogsSound
<1>i. IdleAdmin.pc = "idle"
  BY DEF IdleAdmin
<1>b. ASSUME NEW m \in AdminMembers, NEW req \in AdminRequests, CallAdmin(m, req)
      PROVE  AdminInv'
  <2>1. admin' = Fields("called", req, m, 0, None, n)
    BY <1>b DEF CallAdmin, IdleAdmin, Fields
  <2>2. AdminRecord(admin') /\ CallOk(admin')
    BY <1>a, <2>1 DEF AdminRecord, CallOk, Fields
  <2> QED
    BY <1>a, <1>b, <2>2, CallStep DEF CallAdmin
<1>c. CASE RejectInvalid
  <2>1. CallOk(admin) /\ admin.pc = "called" /\ admin.slot = 0 /\ ~Valid(admin.req)
    BY <1>a, <1>i, <1>c DEF RejectInvalid, CallOk
  <2>2. admin' = Fields("done", admin.req, admin.at, 0, Failed("InvalidArgument", 0), admin.saw)
    BY <1>a, <1>c, <2>1, CallFields DEF RejectInvalid, Answer
  <2>3. AdminRecord(admin') /\ CallOk(admin')
    BY <1>a, <2>1, <2>2 DEF AdminRecord, CallOk, Fields, WriteAnswered, ReadAnswered
  <2> QED
    BY <1>a, <1>c, <2>3, CallStep DEF RejectInvalid
<1>d. CASE ServeRead
  <2>1. /\ CallOk(admin) /\ admin.pc = "called" /\ admin.req.op \in Reads
        /\ caughtUp[admin.at] \in 1 .. n /\ ackedAt[admin.at] <= caughtUp[admin.at]
    BY <1>a, <1>i, <1>d DEF ServeRead, CallOk, AckedApplied
  <2> DEFINE k == caughtUp[admin.at]
             found == ReadResult(catalogs[k], admin.req)
  <2>a. admin' = [admin EXCEPT !.pc = "done", !.slot = k, !.result = found]
    BY <1>d DEF ServeRead
  <2> HIDE DEF k, found
  <2> DEFINE e == [admin EXCEPT !.pc = "done", !.slot = k]
  <2>b. admin' = [e EXCEPT !.result = found]
    BY <2>a
  <2>c. e = Fields("done", admin.req, admin.at, k, admin.result, admin.saw)
    BY <1>a, CallFields
  <2> HIDE DEF e
  <2>2. admin' = Fields("done", admin.req, admin.at, k, found, admin.saw)
    BY <2>b, <2>c DEF Fields
  <2>3. AdminRecord(admin') /\ CallOk(admin')
    BY <1>a, <2>1, <2>2 DEF AdminRecord, CallOk, Fields, ReadAnswered, k, found
  <2> QED
    BY <1>a, <1>d, <2>3, CallStep DEF ServeRead
<1>e. CASE Replicate
  <2>1. CallOk(admin) /\ admin.pc = "called" /\ admin.req.op \notin Reads /\ admin.slot = 0
    BY <1>a, <1>i, <1>e DEF Replicate, CallOk
  <2>2. CASE admin' = [admin EXCEPT !.pc = "logged"]
    <3>1. admin' = Fields("logged", admin.req, admin.at, 0, admin.result, admin.saw)
      BY <1>a, <2>1, <2>2, CallFields
    <3>2. AdminRecord(admin') /\ CallOk(admin')
      BY <1>a, <2>1, <3>1 DEF AdminRecord, CallOk, Fields
    <3> QED
      BY <1>a, <1>e, <3>2, CallStep DEF Replicate
  <2>3. ASSUME NEW hint, Answer(Failed("NotLeader", hint)) PROVE AdminInv'
    <3>1. admin' = Fields("done", admin.req, admin.at, 0, Failed("NotLeader", hint), admin.saw)
      BY <1>a, <2>1, <2>3, CallFields DEF Answer
    <3>2. AdminRecord(admin') /\ CallOk(admin')
      BY <1>a, <2>1, <3>1 DEF AdminRecord, CallOk, Fields, WriteAnswered, Open
    <3> QED
      BY <1>a, <1>e, <3>2, CallStep DEF Replicate
  <2> QED
    BY <1>e, <2>2, <2>3 DEF Replicate
<1>f. CASE Committed
  <2>1. /\ CallOk(admin) /\ admin.pc = "logged" /\ admin.slot = 0
        /\ admin.req.op \notin Reads /\ admin.req \in AdminRequests
    BY <1>a, <1>i, <1>f DEF Committed, CallOk
  <2>2. IsPdCommand(admin.req)
    BY <2>1, RequestTypes
  <2>3. /\ CatalogsSound' /\ Len(catalogs)' = n + 1
        /\ \A k \in 1 .. n : catalogs'[k] = catalogs[k]
        /\ catalogs'[n + 1] = Apply(catalogs[n], admin.req)
    BY <1>a, <1>f, <2>1, <2>2, CommitCatalogs DEF Committed, Commits
  <2>4. admin' = Fields(admin.pc, admin.req, admin.at, n, admin.result, admin.saw)
    BY <1>a, <1>f, CallFields DEF Committed
  <2>5. Logged(admin)'
    BY <1>a, <2>1, <2>3, <2>4 DEF Logged, CallOk, Fields
  <2>6. AdminRecord(admin') /\ CallOk(admin)'
    BY <1>a, <2>1, <2>3, <2>4, <2>5 DEF AdminRecord, CallOk, Fields
  <2>7. caughtUp' \in [AdminMembers -> 1 .. Len(catalogs)']
    BY <1>a, <1>f, <2>3 DEF Committed
  <2> QED
    BY <1>a, <1>f, <2>3, <2>6, <2>7 DEF AdminInv, AckedApplied, Committed
<1>g. CASE Responds
  <2>1. CallOk(admin) /\ admin.pc = "logged" /\ admin.req.op \notin Reads /\ Logged(admin)
    BY <1>a, <1>i, <1>g DEF Responds, CallOk
  <2> DEFINE answer == Unwrapped(Response(catalogs[admin.slot], admin.req))
  <2>a. admin' = [admin EXCEPT !.pc = "done", !.result = answer]
    BY <1>g DEF Responds, Answer
  <2> HIDE DEF answer
  <2>2. admin' = Fields("done", admin.req, admin.at, admin.slot, answer, admin.saw)
    BY <1>a, <2>a, CallFields
  <2>3. catalogs' = catalogs /\ caughtUp' = caughtUp /\ adrift' = adrift
    BY <1>g DEF Responds
  <2>4. WriteAnswered(admin')
    BY <2>1, <2>2 DEF WriteAnswered, Logged, Fields, answer
  <2>5. AdminRecord(admin') /\ CallOk(admin')
    BY <1>a, <2>1, <2>2, <2>4 DEF AdminRecord, CallOk, Fields
  <2>6. CallOk(admin)'
    BY <2>1, <2>2, <2>3, <2>5 DEF CallOk, Logged, WriteAnswered, Fields
  <2>7. admin.at \in AdminMembers /\ admin.slot \in Nat /\ admin.slot + 1 <= caughtUp[admin.at]
    BY <1>a, <1>g, <2>1 DEF Responds, CallOk, Logged
  <2>8. AckedApplied'
    BY <1>a, <1>g, <2>3, <2>7 DEF Responds, AckedApplied
  <2> QED
    BY <1>a, <2>3, <2>5, <2>6, <2>8 DEF AdminInv, CatalogsSound
<1>h. ASSUME NEW e \in {"NotLeader", "Rpc"}, NEW h, Answer(Failed(e, h)), LeavesEntry,
             admin.pc \in {"called", "logged"}, UNCHANGED <<catalogs, caughtUp, ackedAt>>
      PROVE  AdminInv'
  <2>1. /\ CallOk(admin) /\ admin.req \in AdminRequests
        /\ admin.slot = 0 \/ Logged(admin)
        /\ admin.req.op \in Reads => admin.slot = 0
    BY <1>a, <1>h, <1>i DEF CallOk
  <2> DEFINE error == Failed(e, h)
  <2>a. admin' = [admin EXCEPT !.pc = "done", !.result = error]
    BY <1>h DEF Answer
  <2>b. Open(error)
    BY DEF Open
  <2> HIDE DEF error
  <2>2. admin' = Fields("done", admin.req, admin.at, admin.slot, error, admin.saw)
    BY <1>a, <2>a, CallFields
  <2>3. AdminRecord(admin') /\ admin'.slot = admin.slot /\ admin'.req = admin.req
        /\ admin'.saw = admin.saw /\ admin'.at = admin.at /\ admin'.pc = "done" /\ admin'.result = error
    BY <2>2 DEF AdminRecord, Fields
  <2>4. Logged(admin) => Logged(admin')
    BY <2>3 DEF Logged
  <2>5. CallOk(admin')
    BY <2>1, <2>3, <2>4, <2>b DEF CallOk, WriteAnswered, ReadAnswered
  <2>6. adrift' \in [1 .. MaxAdrift -> AdminEntries \cup {None}]
    BY <1>h, <2>1, EntryLeft
  <2> QED
    BY <1>h, <2>3, <2>5, <2>6, CallStep
<1>j. CASE Removed \/ CoreFails \/ ConnectionLost
  <2>1. CASE Removed
    BY <1>h, <2>1 DEF Removed
  <2>2. CASE CoreFails
    BY <1>h, <2>2 DEF CoreFails
  <2>3. CASE ConnectionLost
    BY <1>h, <2>3 DEF ConnectionLost
  <2> QED
    BY <1>j, <2>1, <2>2, <2>3
<1>k. CASE NextCall
  <2>1. AdminRecord(admin') /\ admin' = IdleAdmin
    BY <1>k DEF AdminRecord, NextCall, IdleAdmin, Fields
  <2> QED
    BY <1>a, <1>k, <2>1, CallStep DEF NextCall
<1>l. ASSUME NEW m \in AdminMembers, CatchUp(m) PROVE AdminInv'
  <2>1. caughtUp' \in [AdminMembers -> 1 .. n]
    BY <1>a, <1>l DEF CatchUp
  <2>2. CallOk(admin) => CallOk(admin)'
    BY <1>l DEF CatchUp, CallOk, Logged, WriteAnswered, ReadAnswered
  <2>3. AckedApplied'
    BY <1>a, <1>l DEF CatchUp, AckedApplied
  <2> QED
    BY <1>a, <1>l, <2>1, <2>2, <2>3 DEF CatchUp, AdminInv, CatalogsSound
<1>m. CASE LeaderMoves \/ UNCHANGED adminVars
  BY <1>a, <1>m, CallStep DEF LeaderMoves, adminVars
<1>o. ASSUME NEW i \in 1 .. MaxAdrift, Surfaces(i) PROVE AdminInv'
  <2>1. PICK cmd \in AdminEntries : cmd = adrift[i] /\ Commits(cmd)
    BY <1>a, <1>o DEF Surfaces
  <2>2. cmd \in AdminRequests /\ IsPdCommand(cmd)
    BY RequestTypes DEF AdminEntries
  <2>3. /\ CatalogsSound' /\ Len(catalogs)' = n + 1
        /\ \A k \in 1 .. n : catalogs'[k] = catalogs[k]
    BY <1>a, <2>1, <2>2, CommitCatalogs DEF Commits
  <2>4. UNCHANGED <<caughtUp, admin, ackedAt>>
    BY <1>o DEF Surfaces
  <2>5. CallOk(admin) => CallOk(admin)'
    BY <1>a, <2>3, <2>4, GrowthKeeps
  <2>6. adrift' \in [1 .. MaxAdrift -> AdminEntries \cup {None}]
    BY <1>a, <1>o DEF Surfaces
  <2>7. caughtUp' \in [AdminMembers -> 1 .. Len(catalogs)']
    BY <1>a, <2>3, <2>4
  <2> QED
    BY <1>a, <2>3, <2>4, <2>5, <2>6, <2>7 DEF AdminInv, AckedApplied
<1> QED
  BY <1>b, <1>c, <1>d, <1>e, <1>f, <1>g, <1>j, <1>o, <1>k, <1>l, <1>m DEF AdminSteps

(* The descriptor in an answer is in the catalog the command left. *)
LEMMA RangeAnswered ==
    ASSUME NEW c, Sound(c), NEW cmd, IsPdCommand(cmd), Accepts(c, cmd),
           Response(c, cmd).range # None
    PROVE  Apply(c, cmd).ranges[Response(c, cmd).range.range_id] = Response(c, cmd).range
<1>0. Tidy(c) /\ Apply(c, cmd) = Effect(c, cmd)
  BY DEF Sound, Apply
<1>1. CASE cmd.op = "CreateRange"
  <2>1. Response(c, cmd).range = cmd.desc
    BY <1>1 DEF Response
  <2>2. Apply(c, cmd) = CreateRange(c, cmd.desc)
    BY <1>0, <1>1 DEF Effect
  <2>3. Apply(c, cmd).ranges = Put(c.ranges, cmd.desc.range_id, cmd.desc)
    BY <1>0, <2>2, CreateFields
  <2> QED
    BY <2>1, <2>3 DEF Put
<1>2. CASE cmd.op = "SplitRange"
  <2> DEFINE rhs == SplitRhs(c, cmd.parent, cmd.key)
             lhs == SplitLhs(c, cmd.parent, cmd.key)
  <2>1. Response(c, cmd).range = rhs
    BY <1>2 DEF Response
  <2>2. Apply(c, cmd) = SplitRange(c, cmd.parent, cmd.key)
    BY <1>0, <1>2 DEF Effect
  <2>3. CanSplit(c, cmd.parent, cmd.key) /\ cmd.key \in Nat
    BY <1>2 DEF Accepts, IsPdCommand
  <2>4. rhs.range_id = c.next_range_id
    BY <1>0, <2>3, SplitDescriptors
  <2>5. Apply(c, cmd).ranges = Put(Put(c.ranges, cmd.parent, lhs), c.next_range_id, rhs)
    BY <1>0, <2>2, SplitFields
  <2> HIDE DEF rhs, lhs
  <2> QED
    BY <2>1, <2>4, <2>5 DEF Put
<1>3. CASE cmd.op \notin {"CreateRange", "SplitRange"}
  BY <1>3 DEF Response
<1> QED
  BY <1>1, <1>2, <1>3

LEMMA AnswersExact == AdminInv => AdminExact
<1> SUFFICES ASSUME AdminInv PROVE AdminExact
  OBVIOUS
<1> DEFINE c == catalogs[admin.slot]
           req == admin.req
<1>0. admin.pc = "done" => CallOk(admin)
  BY DEF AdminInv, IdleAdmin
<1>1. \A k \in 1 .. Len(catalogs) : Sound(catalogs[k])
  BY DEF AdminInv, CatalogsSound
<1>2. \A e, h : "error" \in DOMAIN Failed(e, h) /\ Failed(e, h).error = e /\ Failed(e, h).hint = h
  BY DEF Failed
<1>3. ASSUME admin.pc = "done", req.op \notin Reads, Logged(admin),
             admin.result = Unwrapped(Response(c, req))
      PROVE  /\ Accepts(c, req) => /\ "error" \notin DOMAIN admin.result
                                   /\ admin.result = Response(c, req)
             /\ ~Accepts(c, req) => admin.result = Failed("CatalogRejected", 0)
  <2>1. CASE ~Accepts(c, req)
    BY <1>3, <2>1 DEF Response, Unwrapped
  <2>2. CASE Accepts(c, req)
    <3>1. \E k \in {"Range", "Ok"} : \E r : Response(c, req) = [kind |-> k, range |-> r]
      BY <2>2 DEF Response
    <3>2. Unwrapped(Response(c, req)) = Response(c, req) /\ "error" \notin DOMAIN Response(c, req)
      BY <3>1 DEF Unwrapped
    <3> QED
      BY <1>3, <2>2, <3>2
  <2> QED
    BY <2>1, <2>2
<1>4. ASSUME WriteOk
      PROVE  /\ admin.slot >= admin.saw /\ Accepts(c, req)
             /\ catalogs[admin.slot + 1] = Effect(c, req)
             /\ admin.result.range # None =>
                   catalogs[admin.slot + 1].ranges[admin.result.range.range_id] = admin.result.range
  <2>1. CallOk(admin) /\ WriteAnswered(admin) /\ req \in AdminRequests /\ req.op \notin Reads
    BY <1>0, <1>4 DEF CallOk, WriteOk
  <2>2. Logged(admin) /\ admin.result = Unwrapped(Response(c, req))
    BY <1>2, <1>4, <2>1 DEF WriteAnswered, WriteOk, Open
  <2>3. Accepts(c, req) /\ admin.result = Response(c, req)
    BY <1>2, <1>3, <1>4, <2>2 DEF WriteOk
  <2>4. /\ admin.slot \in 1 .. Len(catalogs) /\ admin.slot >= admin.saw
        /\ catalogs[admin.slot + 1] = Apply(c, req)
    BY <2>2 DEF Logged
  <2>5. Sound(c) /\ IsPdCommand(req)
    BY <1>1, <2>1, <2>4, RequestTypes
  <2> HIDE DEF c, req
  <2>6. Apply(c, req) = Effect(c, req)
    BY <2>3 DEF Apply
  <2> QED
    BY <2>3, <2>4, <2>5, <2>6, RangeAnswered
<1>a. ASSUME NEW e \in {"InvalidArgument", "CatalogRejected"}, ErredAs(e)
      PROVE  /\ CallOk(admin) /\ req \in AdminRequests
             /\ \/ e = "InvalidArgument" /\ admin.slot = 0 /\ ~Valid(req)
                \/ e = "CatalogRejected" /\ Logged(admin) /\ ~Accepts(c, req)
  <2>1. CallOk(admin) /\ WriteAnswered(admin) /\ req \in AdminRequests /\ req.op \notin Reads
        /\ "error" \in DOMAIN admin.result /\ admin.result.error = e
    BY <1>0, <1>a DEF CallOk, ErredAs
  <2>2. ~Open(admin.result)
    BY <1>2, <2>1 DEF Open
  <2>3. CASE admin.slot = 0 /\ ~Valid(req) /\ admin.result = Failed("InvalidArgument", 0)
    BY <1>2, <2>1, <2>3
  <2>4. CASE Logged(admin) /\ admin.result = Unwrapped(Response(c, req))
    <3>1. admin.pc = "done"
      BY <1>a DEF ErredAs
    <3>2. ~Accepts(c, req) /\ admin.result = Failed("CatalogRejected", 0)
      BY <1>3, <2>1, <2>4, <3>1
    <3> QED
      BY <1>2, <2>1, <2>4, <3>2
  <2> QED
    BY <2>1, <2>2, <2>3, <2>4 DEF WriteAnswered
<1>5. ASSUME ErredAs("InvalidArgument")
      PROVE  admin.slot = 0 /\ \A i \in 1 .. MaxAdrift : adrift[i] # req
  <2>1. admin.slot = 0 /\ ~Valid(req) /\ req \in AdminRequests
    BY <1>5, <1>a
  <2>2. \A i \in 1 .. MaxAdrift : adrift[i] \in AdminEntries \cup {None}
    BY DEF AdminInv
  <2> QED
    BY <2>1, <2>2, AdminConstants DEF AdminEntries
<1>6. ASSUME ErredAs("CatalogRejected")
      PROVE  admin.slot >= admin.saw /\ ~Accepts(c, req) /\ catalogs[admin.slot + 1] = c
  BY <1>6, <1>a DEF Logged, Apply
<1>b. ASSUME req # None, req.op \in Reads, admin.slot # 0 PROVE admin.slot >= ackedAt[admin.at]
  BY <1>b DEF AdminInv, IdleAdmin, CallOk, ReadAnswered
<1>7. ASSUME NEW op \in {"ListRanges", "GetRangeByKey", "Status"}, Read(op)
      PROVE  /\ Sound(c) /\ admin.result = ReadResult(c, req) /\ req \in AdminRequests
             /\ {c.ranges[c.by_start[s]] : s \in DOMAIN c.by_start}
                   = {c.ranges[i] : i \in DOMAIN c.ranges}
  <2>1. CallOk(admin) /\ ReadAnswered(admin) /\ req \in AdminRequests
    BY <1>0, <1>7 DEF CallOk, Reads, Read
  <2>2. admin.slot \in 1 .. Len(catalogs) /\ admin.result = ReadResult(c, req)
    BY <1>7, <2>1 DEF ReadAnswered, Read
  <2>3. Sound(c)
    BY <1>1, <2>2
  <2> HIDE DEF c, req
  <2>4. {c.ranges[c.by_start[s]] : s \in DOMAIN c.by_start} = {c.ranges[i] : i \in DOMAIN c.ranges}
    BY <2>3 DEF Sound, Indexed
  <2> QED
    BY <2>1, <2>2, <2>3, <2>4
<1>8. ASSUME Read("ListRanges")
      PROVE  admin.result = {c.ranges[i] : i \in DOMAIN c.ranges}
  BY <1>7, <1>8 DEF ReadResult, Read
<1>9. ASSUME Read("GetRangeByKey")
      PROVE  IF \E i \in DOMAIN c.ranges : ContainsKey(c.ranges[i], req.key)
             THEN \E i \in DOMAIN c.ranges :
                     admin.result = c.ranges[i] /\ ContainsKey(c.ranges[i], req.key)
             ELSE admin.result = None
  <2>1. Sound(c) /\ req.key \in Nat /\ admin.result = Found(c.ranges, FindRangeForKey(c, req.key))
    BY <1>7, <1>9, RequestTypes DEF ReadResult, Read
  <2>2. Tidy(c) /\ Indexed(c) /\ Apart(c) /\ None \notin DOMAIN c.ranges
    BY <2>1, AdminConstants DEF Sound, Tidy, TidyRanges
  <2> HIDE DEF c, req
  <2> QED
    BY <2>1, <2>2, FindExact DEF Found
<1>10. ASSUME Read("Status")
       PROVE  /\ admin.result.next_range_id \notin DOMAIN c.ranges
              /\ admin.result.range_count
                    = Cardinality({d.range_id : d \in ReadResult(c, [op |-> "ListRanges"])})
  <2>1. Sound(c) /\ admin.result = StatusOf(c)
    BY <1>7, <1>10 DEF ReadResult, Read
  <2>2. ReadResult(c, [op |-> "ListRanges"]) = {c.ranges[i] : i \in DOMAIN c.ranges}
    BY <1>7, <1>10 DEF ReadResult, Read
  <2> HIDE DEF c, req
  <2>3. {d.range_id : d \in {c.ranges[i] : i \in DOMAIN c.ranges}} = DOMAIN c.ranges
    BY <2>1 DEF Sound, Indexed
  <2>4. c.next_range_id \notin DOMAIN c.ranges
    BY <2>1, IdLimitAssumption DEF Sound, Fresh, Tidy, TidyRanges, RangeIds
  <2>5. /\ admin.result.next_range_id = c.next_range_id
        /\ admin.result.range_count = Cardinality(DOMAIN c.ranges)
    BY <2>1 DEF StatusOf
  <2> QED
    BY <2>2, <2>3, <2>4, <2>5
<1> QED
  BY <1>4, <1>5, <1>6, <1>b, <1>8, <1>9, <1>10 DEF AdminExact

(* What an administrator may rely on, whatever entries earlier calls left in the
   logs and whenever they commit: Ok means that this command was committed
   after the call began, was taken, and stored what the answer says;
   InvalidArgument that it reached no log; CatalogRejected that it was
   committed and changed nothing; and a read shows one committed catalog,
   whole, that has every write this member answered before (server.rs).   *)
THEOREM AnswersCanBeTrusted == IdsSuffice => (AdminSpec => []AdminExact)
<1> SUFFICES ASSUME IdsSuffice PROVE AdminSpec => []AdminExact
  OBVIOUS
<1>1. AdminInit => AdminInv
  BY AdminStart
<1>2. AdminInv /\ [AdminSteps]_adminVars => AdminInv'
  BY AdminStep
<1>3. AdminInv => AdminExact
  BY AnswersExact
<1> QED
  BY <1>1, <1>2, <1>3, PTL DEF AdminSpec

-------------------------------------------------------------------------------
(* PdCluster::apply, in a group of three.  ApplyOnce is not inductive: that
   an attempt may be sent again, or may count as committed, depends on which
   logs hold it and on who can still be elected.  AccessInv says where the
   command is: nowhere, in its target's log alone, or sealed by two members
   whom every later leader needs. *)

Entries == [term : Nat, attempt : Nat]

LEMMA LastTermType == ASSUME NEW l \in Seq(Entries) PROVE LastTermOf(l) \in Nat /\ Len(l) \in Nat
<1>1. Len(l) \in Nat /\ (l # <<>> => Len(l) \in 1 .. Len(l))
  BY LenProperties, EmptySeq
<1>2. l # <<>> => l[Len(l)] \in Entries
  BY <1>1, ElementOfSeq
<1> QED
  BY <1>1, <1>2 DEF LastTermOf, Entries

(* What an append does to a log. *)
LEMMA LogAppend ==
    ASSUME NEW l \in Seq(Entries), NEW e \in Entries
    PROVE  /\ Append(l, e) \in Seq(Entries)
           /\ LastTermOf(Append(l, e)) = e.term
           /\ Begins(l, Append(l, e))
           /\ e.attempt = 0 => Attempts(Append(l, e)) = Attempts(l)
           /\ e.attempt # 0 /\ Attempts(l) = {} =>
                 /\ Attempts(Append(l, e)) = {Len(l) + 1}
                 /\ Append(l, e)[Len(l) + 1].attempt = e.attempt
           /\ \A i \in Attempts(l) : Append(l, e)[i] = l[i]
<1> DEFINE a == Append(l, e)
<1>1. /\ a \in Seq(Entries) /\ Len(a) = Len(l) + 1 /\ Len(l) \in Nat
      /\ \A i \in 1 .. Len(l) : a[i] = l[i] /\ a[Len(l) + 1] = e
  BY AppendProperties, LenProperties
<1>2. a[Len(l) + 1] = e
  BY AppendProperties, LenProperties
<1>3. DOMAIN a = 1 .. Len(l) + 1 /\ DOMAIN l = 1 .. Len(l)
  BY <1>1, LenProperties
<1>4. a # <<>>
  BY <1>1, EmptySeq
<1> HIDE DEF a
<1>5. LastTermOf(a) = e.term
  BY <1>1, <1>2, <1>4 DEF LastTermOf
<1>6. Begins(l, a)
  BY <1>1 DEF Begins
<1>7. e.attempt = 0 => Attempts(a) = Attempts(l)
  BY <1>1, <1>2, <1>3 DEF Attempts
<1>8. e.attempt # 0 /\ Attempts(l) = {} => Attempts(a) = {Len(l) + 1}
  BY <1>1, <1>2, <1>3 DEF Attempts
<1>9. \A i \in Attempts(l) : a[i] = l[i]
  BY <1>1, <1>3 DEF Attempts
<1> QED
  BY <1>1, <1>2, <1>5, <1>6, <1>7, <1>8, <1>9 DEF a

(* What begins a log is in it. *)
LEMMA SharedAttempts ==
    ASSUME NEW p \in Seq(Entries), NEW l \in Seq(Entries), Begins(p, l)
    PROVE  \A i \in Attempts(p) : i \in Attempts(l) /\ l[i] = p[i] /\ i \in DOMAIN l /\ i \in Nat
<1>1. DOMAIN p = 1 .. Len(p) /\ DOMAIN l = 1 .. Len(l) /\ Len(p) \in Nat /\ Len(l) \in Nat
  BY LenProperties
<1> QED
  BY <1>1 DEF Attempts, Begins

(* Two beginnings of one sequence: the shorter begins the longer. *)
LEMMA BeginsBoth ==
    ASSUME NEW X, NEW a \in Seq(X), NEW b \in Seq(X), NEW c \in Seq(X),
           Begins(a, c), Begins(b, c), Len(a) <= Len(b)
    PROVE  Begins(a, b)
  BY LenProperties DEF Begins

LEMMA BeginsSameLength ==
    ASSUME NEW X, NEW a \in Seq(X), NEW b \in Seq(X), Begins(a, b), Len(b) <= Len(a)
    PROVE  a = b
<1>1. Begins(b, a)
  BY LenProperties DEF Begins
<1> QED
  BY <1>1, EqualSeqs

(* A majority of three members is two, and any two pairs share one. *)
GroupOfThree == Cardinality(PdMembers) = 3

LEMMA TwoOfMajority ==
    ASSUME GroupOfThree, NEW S \in SUBSET PdMembers, MajorityOf(S)
    PROVE  \E x, y \in S : x # y
<1> SUFFICES ASSUME \A x, y \in S : x = y PROVE FALSE
  OBVIOUS
<1>1. S = {} \/ \E x : S = {x}
  OBVIOUS
<1>2. Cardinality(S) = 0 \/ Cardinality(S) = 1
  BY <1>1, FS_EmptySet, FS_Singleton
<1> QED
  BY <1>2 DEF MajorityOf, GroupOfThree

LEMMA PairsMeet ==
    ASSUME GroupOfThree, NEW a \in PdMembers, NEW b \in PdMembers, NEW x \in PdMembers, NEW y \in PdMembers,
           a # b, x # y
    PROVE  a = x \/ a = y \/ b = x \/ b = y
<1> SUFFICES ASSUME a # x, a # y, b # x, b # y PROVE FALSE
  OBVIOUS
<1>1. IsFiniteSet({a}) /\ Cardinality({a}) = 1
  BY FS_Singleton
<1>2. IsFiniteSet({a} \cup {b}) /\ Cardinality({a} \cup {b}) = 2
  BY <1>1, FS_AddElement
<1>3. IsFiniteSet(({a} \cup {b}) \cup {x}) /\ Cardinality(({a} \cup {b}) \cup {x}) = 3
  BY <1>2, FS_AddElement
<1>4. Cardinality((({a} \cup {b}) \cup {x}) \cup {y}) = 4
  BY <1>3, FS_AddElement
<1>5. Cardinality((({a} \cup {b}) \cup {x}) \cup {y}) <= Cardinality(PdMembers)
  BY FS_Subset, PdAccessConstants
<1> QED
  BY <1>4, <1>5 DEF GroupOfThree

-------------------------------------------------------------------------------
(* The group: what openraft keeps in any group of three. *)

AccessTypes ==
    /\ view \in [PdMembers -> [term : Nat, leader : Nat]]
    /\ memberLog \in [PdMembers -> Seq(Entries)]
    /\ durable \in Seq(Entries)
    /\ attached \subseteq PdMembers /\ reopening \in PdMembers \cup {0}
    /\ apply \in [pc : {"start", "wait", "write", "pending", "ok", "failed", "fatal"},
                  target : Nat, hop : Nat]

(* Two members are in the newest term: a leader of an older one has nobody
   left to append to. *)
AtTop(T) ==
    /\ \E x, y \in PdMembers : x # y /\ view[x].term = T /\ view[y].term = T
    /\ \A z \in PdMembers : view[z].term <= T /\ LastTermOf(memberLog[z]) <= T

(* A term has one leader, whose log holds every log of its term. *)
LeadersSound ==
    /\ \A m \in PdMembers : Leads(m) => LastTermOf(memberLog[m]) = view[m].term
    /\ \A m, n \in PdMembers : Leads(m) /\ Leads(n) /\ view[m].term = view[n].term => m = n
    /\ \A m, c \in PdMembers : Leads(m) /\ LastTermOf(memberLog[c]) = view[m].term
                                 => Begins(memberLog[c], memberLog[m])

Behind(l, k) ==
    \/ LastTermOf(l) < LastTermOf(k)
    \/ LastTermOf(l) = LastTermOf(k) /\ Len(l) < Len(k)

(* The command is nowhere. *)
Clean ==
    /\ apply.pc \in {"start", "wait", "write", "failed", "fatal"}
    /\ Attempts(durable) = {}
    /\ \A m \in PdMembers : Attempts(memberLog[m]) = {}

(* Only the target has it. *)
Lone ==
    /\ apply.pc \in {"pending", "fatal"} /\ apply.target \in PdMembers /\ apply.hop # 0
    /\ Attempts(durable) = {}
    /\ \A m \in PdMembers : m # apply.target => Attempts(memberLog[m]) = {}
    /\ \E i \in Nat : /\ Attempts(memberLog[apply.target]) = {i}
                      /\ memberLog[apply.target][i].attempt = apply.hop

(* Two members have P, the log up to it: nobody without P can be elected. *)
Sealed(P, i, T) ==
    /\ apply.pc \in {"pending", "ok", "fatal"} /\ apply.hop # 0
    /\ i \in Attempts(P) /\ P[i].attempt = apply.hop
    /\ \E x, y \in PdMembers : x # y /\ Begins(P, memberLog[x]) /\ Begins(P, memberLog[y])
    /\ \A m \in PdMembers : /\ Begins(P, memberLog[m]) => Attempts(memberLog[m]) = {i}
                            /\ ~Begins(P, memberLog[m]) => Attempts(memberLog[m]) = {}
    /\ \A m, h \in PdMembers : ~Begins(P, memberLog[m]) /\ Begins(P, memberLog[h])
                                 => Behind(memberLog[m], memberLog[h])
    /\ \A m \in PdMembers : Leads(m) /\ view[m].term = T => Begins(P, memberLog[m])
    /\ Attempts(durable) = {} \/ (Begins(P, durable) /\ Attempts(durable) = {i})
    /\ apply.pc = "pending" => apply.target \in PdMembers /\ Begins(P, memberLog[apply.target])
    /\ apply.pc = "ok" => Begins(P, durable)

AccessInv ==
    /\ AccessTypes /\ LeadersSound
    /\ \E T \in Nat : /\ AtTop(T)
                      /\ Clean \/ Lone \/ \E P \in Seq(Entries), i \in Nat : Sealed(P, i, T)

LEMMA AccessStart == ASSUME GroupOfThree, AccessInit PROVE AccessInv
<1> SUFFICES ASSUME GroupOfThree, AccessInit PROVE AccessInv
  OBVIOUS
<1>0. <<>> \in Seq(Entries) /\ Len(<<>>) = 0
  BY EmptySeq
<1>1. LastTermOf(<<>>) = 0
  BY DEF LastTermOf
<1>2. Attempts(<<>>) = {}
  BY DEF Attempts
<1>3. 0 \notin PdMembers
  BY PdAccessConstants
<1>4. AccessTypes
  BY <1>0 DEF AccessInit, AccessTypes
<1>5. LeadersSound
  BY <1>3 DEF LeadersSound, AccessInit, Leads
<1>6. \E x, y \in PdMembers : x # y
  <2> SUFFICES ASSUME \A x, y \in PdMembers : x = y PROVE FALSE
    OBVIOUS
  <2>1. PdMembers = {} \/ \E x : PdMembers = {x}
    OBVIOUS
  <2> QED
    BY <2>1, FS_EmptySet, FS_Singleton DEF GroupOfThree
<1>7. AtTop(0)
  BY <1>1, <1>6 DEF AtTop, AccessInit
<1>8. Clean
  BY <1>2 DEF Clean, AccessInit
<1> QED
  BY <1>4, <1>5, <1>7, <1>8 DEF AccessInv

(* A step that only takes leadership away, or that no log is in. *)
LEMMA QuietKeeps ==
    ASSUME GroupOfThree, AccessInv, AccessTypes', memberLog' = memberLog, durable' = durable,
           \A m \in PdMembers : /\ view'[m].term = view[m].term
                                /\ view'[m].leader = view[m].leader \/ view'[m].leader = 0,
           \/ apply' = apply
           \/ /\ apply.pc \in {"start", "wait", "write"}
              /\ apply'.pc \in {"start", "wait", "write", "failed", "fatal"}
           \/ apply.pc = "pending" /\ apply' = [apply EXCEPT !.pc = "fatal"]
    PROVE  AccessInv'
<1>0. 0 \notin PdMembers
  BY PdAccessConstants
<1>1. \A m \in PdMembers : Leads(m)' => Leads(m)
  BY <1>0 DEF Leads
<1>2. LeadersSound'
  BY <1>1 DEF AccessInv, LeadersSound
<1>3. PICK T \in Nat : AtTop(T) /\ (Clean \/ Lone \/ \E P \in Seq(Entries), i \in Nat : Sealed(P, i, T))
  BY DEF AccessInv
<1>4. AtTop(T)'
  BY <1>3 DEF AtTop
<1>8. apply.pc = "pending" /\ apply' = [apply EXCEPT !.pc = "fatal"] =>
         apply'.pc = "fatal" /\ apply'.target = apply.target /\ apply'.hop = apply.hop
  BY DEF AccessInv, AccessTypes
<1>5. Clean => Clean'
  BY DEF Clean
<1>6. Lone => Lone'
  BY <1>8 DEF Lone
<1>7. ASSUME NEW P \in Seq(Entries), NEW i \in Nat, Sealed(P, i, T) PROVE Sealed(P, i, T)'
  BY <1>1, <1>7, <1>8 DEF Sealed
<1> QED
  BY <1>2, <1>3, <1>4, <1>5, <1>6, <1>7 DEF AccessInv

(* An election: the winner's term is new, and it has P if two members do. *)
LEMMA ElectKeeps ==
    ASSUME GroupOfThree, AccessInv, NEW w \in PdMembers, Elect(w), apply' = apply
    PROVE  AccessInv'
<1> DEFINE t == Max({view[q].term : q \in PdMembers}) + 1
           Voters == {w} \cup {q \in PdMembers : Lookup(w, q) /\ UpToDate(w, q)}
           e == [term |-> t, attempt |-> 0]
<1>1. PICK T \in Nat : AtTop(T) /\ (Clean \/ Lone \/ \E P \in Seq(Entries), i \in Nat : Sealed(P, i, T))
  BY DEF AccessInv
<1>2. AccessTypes /\ LeadersSound
  BY DEF AccessInv
<1>3. t = T + 1
  <2> DEFINE S == {view[q].term : q \in PdMembers}
  <2>1. S \in SUBSET Nat /\ T \in Nat /\ T \in S /\ \A y \in S : y <= T
    BY <1>1, <1>2 DEF AtTop, AccessTypes
  <2> HIDE DEF S, t, e, Voters
  <2>2. Max(S) \in S /\ \A y \in S : y <= Max(S)
    <3>1. S # {} /\ S \in SUBSET (0 .. T)
      BY <2>1
    <3> QED
      BY <1>1, <3>1, MaxNat
  <2>3. Max(S) = T
    <3>1. Max(S) \in Nat /\ Max(S) <= T /\ T <= Max(S)
      BY <2>1, <2>2
    <3> QED
      BY <1>1, <3>1
  <2> QED
    BY <2>3 DEF S, t
<1>4. /\ view' = [q \in PdMembers |->
                     IF q = w THEN [term |-> t, leader |-> w]
                     ELSE IF q \in Voters THEN [term |-> t, leader |-> 0] ELSE view[q]]
      /\ memberLog' = [memberLog EXCEPT ![w] = Append(@, e)]
      /\ MajorityOf(Voters)
      /\ attached' = attached /\ reopening' = reopening /\ durable' = durable
  BY DEF Elect
<1>5. PICK v \in PdMembers : v # w /\ v \in Voters
  <2>1. Voters \in SUBSET PdMembers
    OBVIOUS
  <2>2. PICK x, y \in Voters : x # y
    BY <1>4, <2>1, TwoOfMajority
  <2> QED
    BY <2>1, <2>2
<1>6. UpToDate(w, v)
  BY <1>5
<1>7. e \in Entries /\ e.term = T + 1 /\ e.attempt = 0
  BY <1>1, <1>3 DEF Entries
<1> HIDE DEF e
<1>8. memberLog[w] \in Seq(Entries)
  BY <1>2 DEF AccessTypes
<1>9. /\ memberLog'[w] = Append(memberLog[w], e)
      /\ \A q \in PdMembers : q # w => memberLog'[q] = memberLog[q]
  BY <1>2, <1>4 DEF AccessTypes
<1>10. /\ memberLog'[w] \in Seq(Entries)
       /\ LastTermOf(memberLog'[w]) = T + 1
       /\ Begins(memberLog[w], memberLog'[w])
       /\ Attempts(memberLog'[w]) = Attempts(memberLog[w])
       /\ \A i \in Attempts(memberLog[w]) : memberLog'[w][i] = memberLog[w][i]
  <2> DEFINE l == memberLog[w]  a == Append(l, e)
  <2>1. l \in Seq(Entries)
    BY <1>8
  <2> HIDE DEF l
  <2>2. /\ a \in Seq(Entries) /\ LastTermOf(a) = e.term /\ Begins(l, a)
        /\ e.attempt = 0 => Attempts(a) = Attempts(l)
        /\ \A i \in Attempts(l) : a[i] = l[i]
    BY <1>7, <2>1, LogAppend, Zenon
  <2>3. memberLog'[w] = a
    BY <1>9 DEF l
  <2> HIDE DEF a
  <2> QED
    BY <1>7, <2>2, <2>3 DEF l
<1>11. /\ view'[w].term = T + 1 /\ view'[v].term = T + 1
       /\ \A q \in PdMembers : q # w => \/ view'[q].term = T + 1 /\ view'[q].leader = 0
                                        \/ view'[q] = view[q]
  BY <1>3, <1>4, <1>5
<1>12. AccessTypes'
  <2>1. view' \in [PdMembers -> [term : Nat, leader : Nat]]
    <3>1. w \in Nat /\ t \in Nat /\ 0 \in Nat
      BY <1>1, <1>3, PdAccessConstants
    <3>2. \A q \in PdMembers : view[q] \in [term : Nat, leader : Nat]
      BY <1>2 DEF AccessTypes
    <3> HIDE DEF t, Voters
    <3> QED
      BY <1>4, <3>1, <3>2
  <2>2. memberLog' \in [PdMembers -> Seq(Entries)]
    BY <1>2, <1>4, <1>9, <1>10 DEF AccessTypes
  <2> QED
    BY <1>2, <1>4, <2>1, <2>2 DEF AccessTypes
<1>13. 0 \notin PdMembers
  BY PdAccessConstants
<1>14. \A q \in PdMembers : q # w /\ Leads(q)' => Leads(q) /\ view'[q] = view[q] /\ view[q].term <= T
  BY <1>1, <1>11, <1>13 DEF Leads, AtTop
<1>15. \A q \in PdMembers : LastTermOf(memberLog[q]) \in Nat /\ LastTermOf(memberLog[q]) <= T /\ view[q].term <= T /\ view[q].term \in Nat
  BY <1>1, <1>2, LastTermType DEF AtTop, AccessTypes
<1> HIDE DEF t, Voters, e
<1>16. AtTop(T + 1)'
  <2>1. \E x, y \in PdMembers : x # y /\ view'[x].term = T + 1 /\ view'[y].term = T + 1
    BY <1>5, <1>11
  <2>2. ASSUME NEW z \in PdMembers PROVE view'[z].term <= T + 1 /\ LastTermOf(memberLog'[z]) <= T + 1
    <3>1. view'[z].term = T + 1 \/ view'[z].term = view[z].term
      BY <1>11
    <3>2. LastTermOf(memberLog'[z]) = T + 1 \/ LastTermOf(memberLog'[z]) = LastTermOf(memberLog[z])
      BY <1>9, <1>10
    <3> QED
      BY <1>1, <1>15, <3>1, <3>2
  <2> QED
    BY <2>1, <2>2 DEF AtTop
<1>17. LeadersSound'
  <2>1. \A m \in PdMembers : Leads(m)' => LastTermOf(memberLog'[m]) = view'[m].term
    BY <1>2, <1>9, <1>10, <1>11, <1>14 DEF LeadersSound
  <2>2. \A m, n \in PdMembers : Leads(m)' /\ Leads(n)' /\ view'[m].term = view'[n].term => m = n
    <3> TAKE m, n \in PdMembers
    <3> HAVE Leads(m)' /\ Leads(n)' /\ view'[m].term = view'[n].term
    <3>1. view[m].term # T + 1 /\ view[n].term # T + 1
      BY <1>1, <1>15
    <3> QED
      BY <1>2, <1>11, <1>14, <3>1 DEF LeadersSound
  <2>3. ASSUME NEW m \in PdMembers, NEW c \in PdMembers, Leads(m)', LastTermOf(memberLog'[c]) = view'[m].term
        PROVE  Begins(memberLog'[c], memberLog'[m])
    <3>1. CASE m = w
      <4>1. c = w
        BY <1>1, <1>9, <1>11, <1>15, <2>3, <3>1
      <4> QED
        BY <1>10, <3>1, <4>1, BeginsSelf
    <3>2. CASE m # w
      <4>1. c # w
        BY <1>1, <1>10, <1>14, <1>15, <2>3, <3>2
      <4> QED
        BY <1>2, <1>9, <1>14, <2>3, <3>2, <4>1 DEF LeadersSound
    <3> QED
      BY <3>1, <3>2
  <2> QED
    BY <2>1, <2>2, <2>3 DEF LeadersSound
<1>18. Clean => Clean'
  BY <1>4, <1>9, <1>10 DEF Clean
<1>19. Lone => Lone'
  BY <1>4, <1>9, <1>10 DEF Lone
<1>20. ASSUME NEW P \in Seq(Entries), NEW i \in Nat, Sealed(P, i, T) PROVE Sealed(P, i, T + 1)'
  <2>1. Begins(P, memberLog[w])
    <3> SUFFICES ASSUME ~Begins(P, memberLog[w]) PROVE FALSE
      OBVIOUS
    <3>1. PICK x, y \in PdMembers : x # y /\ Begins(P, memberLog[x]) /\ Begins(P, memberLog[y])
      BY <1>20 DEF Sealed
    <3>2. v = x \/ v = y
      BY <1>5, <3>1, PairsMeet
    <3>3. Behind(memberLog[w], memberLog[v])
      BY <1>20, <3>1, <3>2 DEF Sealed
    <3>4. Len(memberLog[w]) \in Nat /\ Len(memberLog[v]) \in Nat
      BY <1>2, LastTermType DEF AccessTypes
    <3> QED
      BY <1>6, <1>15, <3>3, <3>4 DEF Behind, UpToDate
  <2>2. Begins(P, memberLog'[w])
    BY <1>8, <1>10, <2>1, BeginsTrans
  <2>3. \A m \in PdMembers : Begins(P, memberLog'[m]) <=> Begins(P, memberLog[m])
    BY <1>9, <2>1, <2>2
  <2>4. \A m, h \in PdMembers : ~Begins(P, memberLog'[m]) /\ Begins(P, memberLog'[h])
                                 => Behind(memberLog'[m], memberLog'[h])
    <3> TAKE m, h \in PdMembers
    <3> HAVE ~Begins(P, memberLog'[m]) /\ Begins(P, memberLog'[h])
    <3>1. m # w /\ ~Begins(P, memberLog[m]) /\ Begins(P, memberLog[h])
      BY <2>2, <2>3
    <3>2. CASE h = w
      <4>1. LastTermOf(memberLog'[m]) = LastTermOf(memberLog[m]) /\ LastTermOf(memberLog'[h]) = T + 1
        BY <1>9, <1>10, <3>1, <3>2
      <4>2. LastTermOf(memberLog[m]) < T + 1
        BY <1>1, <1>15
      <4> QED
        BY <4>1, <4>2 DEF Behind
    <3>3. CASE h # w
      BY <1>9, <1>20, <3>1, <3>3 DEF Sealed
    <3> QED
      BY <3>2, <3>3
  <2>5. \A m \in PdMembers : Leads(m)' /\ view'[m].term = T + 1 => Begins(P, memberLog'[m])
    BY <1>1, <1>14, <1>15, <2>2
  <2>6. \A m \in PdMembers : Attempts(memberLog'[m]) = Attempts(memberLog[m])
    BY <1>9, <1>10
  <2> QED
    BY <1>4, <1>20, <2>3, <2>4, <2>5, <2>6 DEF Sealed
<1> QED
  BY <1>1, <1>12, <1>16, <1>17, <1>18, <1>19, <1>20 DEF AccessInv

(* A leader that meets a newer term steps down. *)
LEMMA StepDownKeeps ==
    ASSUME GroupOfThree, AccessInv, NEW d \in PdMembers, NEW q \in PdMembers, AppendTo(d, q),
           ~(view[q].term <= view[d].term)
    PROVE  AccessInv'
<1>1. PICK T \in Nat : AtTop(T) /\ (Clean \/ Lone \/ \E P \in Seq(Entries), i \in Nat : Sealed(P, i, T))
  BY DEF AccessInv
<1>2. AccessTypes /\ LeadersSound
  BY DEF AccessInv
<1>3. /\ view' = [view EXCEPT ![d] = [term |-> view[q].term, leader |-> 0]]
      /\ memberLog' = memberLog /\ apply' = apply /\ durable' = durable
      /\ attached' = attached /\ reopening' = reopening
  BY DEF AppendTo
<1>4. view[q].term \in Nat /\ view[d].term \in Nat /\ view[q].term <= T
  BY <1>1, <1>2 DEF AccessTypes, AtTop
<1>5. view' \in [PdMembers -> [term : Nat, leader : Nat]]
  BY <1>2, <1>3, <1>4 DEF AccessTypes
<1>6. AccessTypes'
  BY <1>2, <1>3, <1>5 DEF AccessTypes
<1>7. /\ view'[d].term = view[q].term /\ view'[d].leader = 0
      /\ \A m \in PdMembers : m # d => view'[m] = view[m]
  BY <1>2, <1>3 DEF AccessTypes
<1>8. 0 \notin PdMembers
  BY PdAccessConstants
<1>9. \A m \in PdMembers : Leads(m)' => Leads(m) /\ view'[m] = view[m]
  BY <1>7, <1>8 DEF Leads
<1>10. LeadersSound'
  <2>1. \A m, c \in PdMembers : Leads(m)' /\ LastTermOf(memberLog[c]) = view'[m].term
                                  => Begins(memberLog[c], memberLog[m])
    BY <1>2, <1>9 DEF LeadersSound
  <2> QED
    BY <1>2, <1>3, <1>9, <2>1 DEF LeadersSound
<1>11. view[d].term # T
  BY <1>1, <1>4
<1>12. AtTop(T)'
  <2>1. PICK x, y \in PdMembers : x # y /\ view[x].term = T /\ view[y].term = T
    BY <1>1 DEF AtTop
  <2>2. view'[x].term = T /\ view'[y].term = T
    BY <1>7, <1>11, <2>1
  <2>3. \A z \in PdMembers : view'[z].term <= T
    BY <1>1, <1>4, <1>7 DEF AtTop
  <2> QED
    BY <1>1, <1>3, <2>1, <2>2, <2>3 DEF AtTop
<1>13. Clean => Clean'
  BY <1>3 DEF Clean
<1>14. Lone => Lone'
  BY <1>3 DEF Lone
<1>15. ASSUME NEW P \in Seq(Entries), NEW i \in Nat, Sealed(P, i, T) PROVE Sealed(P, i, T)'
  <2>1. \A m \in PdMembers : Leads(m)' /\ view'[m].term = T => Begins(P, memberLog[m])
    BY <1>9, <1>15 DEF Sealed
  <2> QED
    BY <1>3, <1>15, <2>1 DEF Sealed
<1> QED
  BY <1>1, <1>6, <1>10, <1>12, <1>13, <1>14, <1>15 DEF AccessInv

(* A copied log: it seals an attempt that it carries to a second member, or
   takes a lone one away, and then apply knows. *)
LEMMA CopyKeeps ==
    ASSUME GroupOfThree, AccessInv, NEW d \in PdMembers, NEW q \in PdMembers, AppendTo(d, q),
           view[q].term <= view[d].term
    PROVE  AccessInv'
<1>1. PICK T \in Nat : AtTop(T) /\ (Clean \/ Lone \/ \E P \in Seq(Entries), i \in Nat : Sealed(P, i, T))
  BY DEF AccessInv
<1>2. AccessTypes /\ LeadersSound
  BY DEF AccessInv
<1> DEFINE Takes == /\ apply.pc = "pending" /\ apply.target = q
                    /\ \E e \in Truncated(d, q) : e.attempt = apply.hop
<1>3. /\ view' = [view EXCEPT ![q] = view[d]]
      /\ memberLog' = [memberLog EXCEPT ![q] = memberLog[d]]
      /\ apply' = IF Takes THEN [apply EXCEPT !.pc = "write", !.target = d] ELSE apply
      /\ durable' = durable /\ attached' = attached /\ reopening' = reopening
      /\ q # d /\ Leads(d)
  BY DEF AppendTo
<1>4. /\ view'[q] = view[d] /\ memberLog'[q] = memberLog[d]
      /\ \A m \in PdMembers : m # q => view'[m] = view[m] /\ memberLog'[m] = memberLog[m]
  BY <1>2, <1>3 DEF AccessTypes
<1>5. AccessTypes'
  <2>1. view' \in [PdMembers -> [term : Nat, leader : Nat]]
    BY <1>2, <1>3 DEF AccessTypes
  <2>2. memberLog' \in [PdMembers -> Seq(Entries)]
    BY <1>2, <1>3 DEF AccessTypes
  <2>3. apply' \in [pc : {"start", "wait", "write", "pending", "ok", "failed", "fatal"},
                   target : Nat, hop : Nat]
    <3>1. d \in Nat
      BY PdAccessConstants
    <3> HIDE DEF Takes
    <3> QED
      BY <1>2, <1>3, <3>1 DEF AccessTypes
  <2> QED
    BY <1>2, <1>3, <2>1, <2>2, <2>3 DEF AccessTypes
<1>6. \A m \in PdMembers : Leads(m)' => Leads(m) /\ m # q
  BY <1>3, <1>4 DEF Leads
<1>7. \A z \in PdMembers : /\ view[z].term \in Nat /\ view[z].term <= T
                           /\ LastTermOf(memberLog[z]) \in Nat /\ LastTermOf(memberLog[z]) <= T
                           /\ memberLog[z] \in Seq(Entries) /\ Len(memberLog[z]) \in Nat
  BY <1>1, <1>2, LastTermType DEF AtTop, AccessTypes
<1>8. view[d].term = T
  <2> SUFFICES ASSUME view[d].term # T PROVE FALSE
    OBVIOUS
  <2>1. PICK x, y \in PdMembers : x # y /\ view[x].term = T /\ view[y].term = T
    BY <1>1 DEF AtTop
  <2>2. view[q].term # T
    BY <1>1, <1>7
  <2> QED
    BY <1>3, <2>1, <2>2, PairsMeet
<1>9. LastTermOf(memberLog[d]) = T
  BY <1>2, <1>3, <1>8 DEF LeadersSound
<1> HIDE DEF Takes
<1>10. AtTop(T)'
  <2>1. PICK x, y \in PdMembers : x # y /\ view[x].term = T /\ view[y].term = T
    BY <1>1 DEF AtTop
  <2>2. view'[x].term = T /\ view'[y].term = T
    BY <1>4, <1>8, <2>1
  <2>3. \A z \in PdMembers : view'[z].term <= T /\ LastTermOf(memberLog'[z]) <= T
    BY <1>4, <1>7
  <2> QED
    BY <2>1, <2>2, <2>3 DEF AtTop
<1>11. LeadersSound'
  <2>1. \A m \in PdMembers : Leads(m)' => LastTermOf(memberLog'[m]) = view'[m].term
    BY <1>2, <1>4, <1>6 DEF LeadersSound
  <2>2. \A m, n \in PdMembers : Leads(m)' /\ Leads(n)' /\ view'[m].term = view'[n].term => m = n
    BY <1>2, <1>4, <1>6 DEF LeadersSound
  <2>3. ASSUME NEW m \in PdMembers, NEW c \in PdMembers, Leads(m)', LastTermOf(memberLog'[c]) = view'[m].term
        PROVE  Begins(memberLog'[c], memberLog'[m])
    <3>1. Leads(m) /\ m # q /\ view'[m] = view[m] /\ memberLog'[m] = memberLog[m]
      BY <1>4, <1>6, <2>3
    <3>2. PICK b \in PdMembers : memberLog'[c] = memberLog[b]
      BY <1>4
    <3> QED
      BY <1>2, <2>3, <3>1, <3>2 DEF LeadersSound
  <2> QED
    BY <2>1, <2>2, <2>3 DEF LeadersSound
<1>12. CASE Clean
  <2>1. ~Takes
    BY <1>12 DEF Takes, Clean
  <2>2. Clean'
    BY <1>3, <1>4, <1>12, <2>1 DEF Clean
  <2> QED
    BY <1>1, <1>5, <1>10, <1>11, <2>2 DEF AccessInv
<1>13. CASE Lone
  <2>1. PICK i \in Nat : /\ Attempts(memberLog[apply.target]) = {i}
                         /\ memberLog[apply.target][i].attempt = apply.hop
    BY <1>13 DEF Lone
  <2>2. /\ apply.pc \in {"pending", "fatal"} /\ apply.target \in PdMembers /\ apply.hop # 0
        /\ Attempts(durable) = {}
        /\ \A m \in PdMembers : m # apply.target => Attempts(memberLog[m]) = {}
    BY <1>13 DEF Lone
  <2>3. CASE apply.target = q
    <3>1. Attempts(memberLog[d]) = {} /\ i \in Attempts(memberLog[q])
      BY <1>3, <2>1, <2>2, <2>3
    <3>2. i \in DOMAIN memberLog[q] /\ memberLog[q][i].attempt = apply.hop
      BY <2>1, <2>3, <3>1 DEF Attempts
    <3>3. i \notin DOMAIN memberLog[d] \/ memberLog[d][i].attempt = 0
      BY <3>1 DEF Attempts
    <3>4. memberLog[q][i] \in Truncated(d, q)
      BY <2>2, <3>2, <3>3 DEF Truncated
    <3>5. apply.pc = "pending" => Takes
      BY <2>3, <3>2, <3>4 DEF Takes
    <3>6. apply'.pc \in {"write", "fatal"}
      <4>1. CASE apply.pc = "pending"
        BY <1>2, <1>3, <3>5, <4>1 DEF AccessTypes
      <4>2. CASE apply.pc = "fatal"
        BY <1>3, <4>2 DEF Takes
      <4> QED
        BY <2>2, <4>1, <4>2
    <3>7. \A m \in PdMembers : Attempts(memberLog'[m]) = {}
      BY <1>3, <1>4, <2>2, <2>3
    <3>8. Clean'
      BY <1>3, <2>2, <3>6, <3>7 DEF Clean
    <3> QED
      BY <1>1, <1>5, <1>10, <1>11, <3>8 DEF AccessInv
  <2>4. CASE apply.target # q /\ apply.target # d
    <3>1. apply' = apply
      BY <1>3, <2>4 DEF Takes
    <3>2. Lone'
      <4>1. memberLog'[apply.target] = memberLog[apply.target]
        BY <1>4, <2>2, <2>4
      <4>2. \A m \in PdMembers : m # apply.target => Attempts(memberLog'[m]) = {}
        BY <1>4, <2>2, <2>4
      <4> QED
        BY <1>3, <2>1, <2>2, <3>1, <4>1, <4>2 DEF Lone
    <3> QED
      BY <1>1, <1>5, <1>10, <1>11, <3>2 DEF AccessInv
  <2>5. CASE apply.target = d
    <3>0. PICK P \in Seq(Entries) : P = memberLog[d]
      BY <1>7
    <3>1. apply' = apply
      BY <1>3, <2>5 DEF Takes
    <3>2. P \in Seq(Entries) /\ Begins(P, P) /\ Attempts(P) = {i} /\ P[i].attempt = apply.hop
      BY <2>1, <2>5, <3>0, BeginsSelf
    <3>3. \A r \in PdMembers : r # d /\ r # q => Attempts(memberLog[r]) = {} /\ memberLog'[r] = memberLog[r]
      BY <1>4, <2>2, <2>5
    <3>4. memberLog'[d] = P /\ memberLog'[q] = P
      BY <1>3, <1>4, <3>0
    <3>5. \A r \in PdMembers : r # d /\ r # q => ~Begins(P, memberLog[r])
      BY <1>7, <3>2, <3>3, SharedAttempts
    <3>6. ASSUME NEW r \in PdMembers, r # d, r # q PROVE Behind(memberLog[r], P)
      <4>1. CASE LastTermOf(memberLog[r]) # T
        BY <1>7, <1>9, <3>0, <4>1 DEF Behind
      <4>2. CASE LastTermOf(memberLog[r]) = T
        <5>1. Begins(memberLog[r], P)
          BY <1>2, <1>3, <1>8, <3>0, <4>2 DEF LeadersSound
        <5>2. memberLog[r] # P
          BY <3>2, <3>3, <3>6
        <5>3. ~(Len(P) <= Len(memberLog[r]))
          BY <1>7, <3>0, <5>1, <5>2, BeginsSameLength
        <5>4. Len(memberLog[r]) < Len(P)
          BY <1>7, <3>0, <5>3
        <5> QED
          BY <1>9, <3>0, <4>2, <5>4 DEF Behind
      <4> QED
        BY <4>1, <4>2
    <3>7. \A m \in PdMembers : Leads(m)' /\ view'[m].term = T => m = d
      BY <1>2, <1>3, <1>4, <1>6, <1>8 DEF LeadersSound
    <3>8. durable' = durable /\ d # q
      BY <1>3
    <3>9. \A m \in PdMembers : /\ Begins(P, memberLog'[m]) => Attempts(memberLog'[m]) = {i}
                               /\ ~Begins(P, memberLog'[m]) => Attempts(memberLog'[m]) = {}
      BY <3>2, <3>3, <3>4, <3>5
    <3>10. \A m, h \in PdMembers : ~Begins(P, memberLog'[m]) /\ Begins(P, memberLog'[h])
                                     => Behind(memberLog'[m], memberLog'[h])
      BY <3>2, <3>3, <3>4, <3>5, <3>6
    <3>11. Sealed(P, i, T)'
      BY <2>2, <2>5, <3>1, <3>2, <3>4, <3>7, <3>8, <3>9, <3>10 DEF Sealed
    <3> QED
      BY <1>1, <1>5, <1>10, <1>11, <3>2, <3>11 DEF AccessInv
  <2> QED
    BY <2>3, <2>4, <2>5
<1>14. ASSUME NEW P \in Seq(Entries), NEW i \in Nat, Sealed(P, i, T) PROVE Sealed(P, i, T)'
  <2>1. Begins(P, memberLog[d])
    BY <1>3, <1>8, <1>14 DEF Sealed
  <2>2. ~Takes
    <3> SUFFICES ASSUME Takes PROVE FALSE
      OBVIOUS
    <3>1. PICK j \in DOMAIN memberLog[q] : /\ j \notin DOMAIN memberLog[d] \/ memberLog[d][j] # memberLog[q][j]
                                           /\ memberLog[q][j].attempt = apply.hop
      BY DEF Takes, Truncated
    <3>2. j \in Attempts(memberLog[q])
      BY <1>14, <3>1 DEF Attempts, Sealed
    <3>3. Begins(P, memberLog[q]) /\ i \in Attempts(P) /\ Attempts(memberLog[q]) = {i}
      BY <1>14 DEF Takes, Sealed
    <3>4. i \in DOMAIN memberLog[d] /\ memberLog[d][i] = P[i] /\ memberLog[q][i] = P[i]
      BY <1>7, <2>1, <3>3, SharedAttempts
    <3> QED
      BY <3>1, <3>2, <3>3, <3>4
  <2>3. apply' = apply
    BY <1>3, <2>2
  <2>4. \A m \in PdMembers : \E b \in PdMembers :
           memberLog'[m] = memberLog[b] /\ (Begins(P, memberLog[m]) => Begins(P, memberLog[b]))
    BY <1>4, <2>1
  <2>5. \A m \in PdMembers : Begins(P, memberLog[m]) => Begins(P, memberLog'[m])
    BY <2>4
  <2>6. \A m \in PdMembers : /\ Begins(P, memberLog'[m]) => Attempts(memberLog'[m]) = {i}
                             /\ ~Begins(P, memberLog'[m]) => Attempts(memberLog'[m]) = {}
    BY <1>14, <2>4 DEF Sealed
  <2>7. ASSUME NEW m \in PdMembers, NEW h \in PdMembers, ~Begins(P, memberLog'[m]), Begins(P, memberLog'[h])
        PROVE  Behind(memberLog'[m], memberLog'[h])
    <3>1. PICK b \in PdMembers : memberLog'[m] = memberLog[b]
      BY <2>4
    <3>2. PICK c \in PdMembers : memberLog'[h] = memberLog[c]
      BY <2>4
    <3> QED
      BY <1>14, <2>7, <3>1, <3>2 DEF Sealed
  <2>8. \A m \in PdMembers : Leads(m)' /\ view'[m].term = T => Begins(P, memberLog'[m])
    BY <1>4, <1>6, <1>14 DEF Sealed
  <2>9. \E x, y \in PdMembers : x # y /\ Begins(P, memberLog'[x]) /\ Begins(P, memberLog'[y])
    BY <1>14, <2>5 DEF Sealed
  <2> QED
    BY <1>3, <1>14, <2>3, <2>5, <2>6, <2>7, <2>8, <2>9 DEF Sealed
<1> QED
  BY <1>1, <1>5, <1>10, <1>11, <1>12, <1>13, <1>14 DEF AccessInv

(* A commit: a majority holds the log, so it carries no attempt that only the
   target has, and once durable the command stays in it. *)
LEMMA CommitKeeps ==
    ASSUME GroupOfThree, AccessInv, NEW d \in PdMembers, CommitAt(d), apply' = apply
    PROVE  AccessInv'
<1>1. PICK T \in Nat : AtTop(T) /\ (Clean \/ Lone \/ \E P \in Seq(Entries), i \in Nat : Sealed(P, i, T))
  BY DEF AccessInv
<1>2. AccessTypes /\ LeadersSound
  BY DEF AccessInv
<1> DEFINE S == {q \in PdMembers : Len(memberLog[q]) >= Len(memberLog[d])
                        /\ SubSeq(memberLog[q], 1, Len(memberLog[d])) = memberLog[d]}
<1>3. /\ durable' = memberLog[d] /\ Len(memberLog[d]) > Len(durable) /\ MajorityOf(S)
      /\ view' = view /\ memberLog' = memberLog /\ attached' = attached /\ reopening' = reopening
  BY DEF CommitAt
<1>4. \A z \in PdMembers : memberLog[z] \in Seq(Entries) /\ Len(memberLog[z]) \in Nat
  BY <1>2, LastTermType DEF AccessTypes
<1>5. durable \in Seq(Entries) /\ Len(durable) \in Nat
  BY <1>2, LastTermType DEF AccessTypes
<1>6. \A z \in PdMembers : z \in S => Begins(memberLog[d], memberLog[z])
  <2> TAKE z \in PdMembers
  <2> HAVE z \in S
  <2>1. SubSeq(memberLog[d], 1, Len(memberLog[d])) = memberLog[d]
    BY <1>4, SubSeqFull
  <2>2. IsPrefix(memberLog[d], memberLog[z])
    BY <1>4, <2>1 DEF IsPrefix
  <2> QED
    BY <1>4, <2>2, PrefixIs
<1>7. S \in SUBSET PdMembers
  OBVIOUS
<1>8. PICK a, b \in S : a # b
  BY <1>3, <1>7, TwoOfMajority
<1>9. a \in PdMembers /\ b \in PdMembers /\ Begins(memberLog[d], memberLog[a]) /\ Begins(memberLog[d], memberLog[b])
  BY <1>6, <1>7, <1>8
<1> HIDE DEF S
<1>10. AccessTypes'
  BY <1>2, <1>3, <1>4 DEF AccessTypes
<1>11. LeadersSound'
  BY <1>2, <1>3 DEF LeadersSound, Leads
<1>12. AtTop(T)'
  BY <1>1, <1>3 DEF AtTop
<1>13. Clean => Clean'
  BY <1>3 DEF Clean
<1>14. ASSUME Lone PROVE Lone'
  <2>1. Attempts(memberLog[d]) = {}
    <3>1. \E c \in PdMembers : c # apply.target /\ Begins(memberLog[d], memberLog[c])
      BY <1>8, <1>9
    <3>2. PICK c \in PdMembers : Begins(memberLog[d], memberLog[c]) /\ Attempts(memberLog[c]) = {}
      BY <1>14, <3>1 DEF Lone
    <3>3. \A i \in Attempts(memberLog[d]) : i \in Attempts(memberLog[c])
      BY <1>4, <3>2, SharedAttempts
    <3> QED
      BY <3>2, <3>3
  <2> QED
    BY <1>3, <1>14, <2>1 DEF Lone
<1>15. ASSUME NEW P \in Seq(Entries), NEW i \in Nat, Sealed(P, i, T) PROVE Sealed(P, i, T)'
  <2>1. PICK x, y \in PdMembers : x # y /\ Begins(P, memberLog[x]) /\ Begins(P, memberLog[y])
    BY <1>15 DEF Sealed
  <2>2. \E h \in PdMembers : Begins(P, memberLog[h]) /\ Begins(memberLog[d], memberLog[h])
    BY <1>8, <1>9, <2>1, PairsMeet
  <2>3. PICK h \in PdMembers : Begins(P, memberLog[h]) /\ Begins(memberLog[d], memberLog[h])
    BY <2>2
  <2>4. Begins(P, durable) => Begins(P, memberLog[d])
    <3> HAVE Begins(P, durable)
    <3>1. Len(P) <= Len(durable) /\ Len(P) \in Nat
      BY LastTermType DEF Begins
    <3>2. Len(P) <= Len(memberLog[d])
      BY <1>3, <1>4, <1>5, <3>1
    <3> QED
      BY <1>4, <2>3, <3>2, BeginsBoth
  <2>5. \/ Attempts(memberLog[d]) = {}
        \/ Begins(P, memberLog[d]) /\ Attempts(memberLog[d]) = {i}
    BY <1>15 DEF Sealed
  <2>6. apply.pc = "ok" => Begins(P, memberLog[d])
    BY <1>15, <2>4 DEF Sealed
  <2> QED
    BY <1>3, <1>15, <2>5, <2>6 DEF Sealed, Leads
<1> QED
  BY <1>1, <1>10, <1>11, <1>12, <1>13, <1>14, <1>15 DEF AccessInv

(* client_write: apply writes only while the command is nowhere. *)
LEMMA WriteKeeps ==
    ASSUME GroupOfThree, AccessInv, ApplyWrite
    PROVE  AccessInv'
<1>1. PICK T \in Nat : AtTop(T) /\ (Clean \/ Lone \/ \E P \in Seq(Entries), i \in Nat : Sealed(P, i, T))
  BY DEF AccessInv
<1>2. AccessTypes /\ LeadersSound
  BY DEF AccessInv
<1> DEFINE m == apply.target
           attempt == apply.hop + 1
           Out == apply.hop = MaxHops \/ m \notin attached
<1>3. /\ apply.pc = "write" /\ view' = view /\ durable' = durable
      /\ attached' = attached /\ reopening' = reopening
  BY DEF ApplyWrite
<1>4. /\ apply.hop \in Nat /\ attempt \in Nat /\ attempt # 0
  BY <1>2 DEF AccessTypes
<1>5. Clean
  BY <1>1, <1>3 DEF Lone, Sealed
<1>6. CASE Out
  <2>1. apply' = [apply EXCEPT !.pc = "failed"] /\ memberLog' = memberLog
    BY <1>6 DEF ApplyWrite
  <2>2. AccessTypes'
    BY <1>2, <1>3, <2>1 DEF AccessTypes
  <2>3. apply'.pc = "failed"
    BY <1>2, <2>1 DEF AccessTypes
  <2> QED
    BY <1>3, <2>1, <2>2, <2>3, QuietKeeps
<1>9. CASE ~Out /\ m \in stopped
  <2>1. apply' = [apply EXCEPT !.pc = "fatal"] /\ memberLog' = memberLog
    BY <1>9 DEF ApplyWrite
  <2>2. AccessTypes'
    BY <1>2, <1>3, <2>1 DEF AccessTypes
  <2>3. apply'.pc = "fatal"
    BY <1>2, <2>1 DEF AccessTypes
  <2> QED
    BY <1>3, <2>1, <2>2, <2>3, QuietKeeps
<1>7. CASE ~Out /\ m \notin stopped /\ ~Leads(m)
  <2>1. /\ apply' = [pc |-> IF view[m].leader = 0 THEN "wait" ELSE "write",
                     target |-> view[m].leader, hop |-> attempt]
        /\ memberLog' = memberLog
    BY <1>7 DEF ApplyWrite
  <2>2. m \in PdMembers /\ view[m].leader \in Nat
    BY <1>2, <1>7 DEF AccessTypes
  <2>3. apply'.pc \in {"wait", "write"} /\ apply' \in [pc : {"wait", "write"}, target : Nat, hop : Nat]
    BY <1>4, <2>1, <2>2
  <2>4. AccessTypes'
    BY <1>2, <1>3, <2>1, <2>3 DEF AccessTypes
  <2> QED
    BY <1>3, <2>1, <2>3, <2>4, QuietKeeps
<1>8. CASE ~Out /\ m \notin stopped /\ Leads(m)
  <2> DEFINE e == [term |-> view[m].term, attempt |-> attempt]
  <2>1. /\ memberLog' = [memberLog EXCEPT ![m] = Append(@, e)]
        /\ apply' = [apply EXCEPT !.pc = "pending", !.hop = attempt]
    BY <1>8 DEF ApplyWrite
  <2>2. PICK w \in PdMembers : w = m
    BY <1>2, <1>8 DEF AccessTypes
  <2>3. /\ apply'.pc = "pending" /\ apply'.target = w /\ apply'.hop = attempt
        /\ apply' \in [pc : {"pending"}, target : Nat, hop : Nat]
    BY <1>2, <1>4, <2>1, <2>2 DEF AccessTypes
  <2>4. e \in Entries /\ e.term = view[w].term /\ e.attempt = attempt /\ view[w].term \in Nat
    BY <1>2, <1>4, <2>2 DEF AccessTypes, Entries
  <2>5. \A z \in PdMembers : memberLog[z] \in Seq(Entries) /\ Attempts(memberLog[z]) = {} /\ Len(memberLog[z]) \in Nat
    BY <1>2, <1>5, LastTermType DEF Clean, AccessTypes
  <2>6. /\ memberLog'[w] = Append(memberLog[w], e)
        /\ \A z \in PdMembers : z # w => memberLog'[z] = memberLog[z]
        /\ DOMAIN memberLog' = PdMembers
    BY <1>2, <2>1, <2>2 DEF AccessTypes
  <2>7. memberLog' = [z \in PdMembers |-> memberLog'[z]]
    BY <1>2, <2>1 DEF AccessTypes
  <2> HIDE DEF e, attempt
  <2>8. /\ memberLog'[w] \in Seq(Entries) /\ LastTermOf(memberLog'[w]) = view[w].term
        /\ Begins(memberLog[w], memberLog'[w])
        /\ \E i \in Nat : Attempts(memberLog'[w]) = {i} /\ memberLog'[w][i].attempt = attempt
    <3> DEFINE l == memberLog[w]  a == Append(l, e)
    <3>1. l \in Seq(Entries) /\ Attempts(l) = {} /\ Len(l) + 1 \in Nat
      BY <2>5
    <3> HIDE DEF l
    <3>2. /\ a \in Seq(Entries) /\ LastTermOf(a) = e.term /\ Begins(l, a)
          /\ e.attempt # 0 => Attempts(a) = {Len(l) + 1} /\ a[Len(l) + 1].attempt = e.attempt
      BY <2>4, <3>1, LogAppend, Zenon
    <3>3. memberLog'[w] = a
      BY <2>6 DEF l
    <3> HIDE DEF a
    <3>4. e.attempt # 0
      BY <1>4, <2>4
    <3> QED
      BY <2>4, <3>1, <3>2, <3>3, <3>4 DEF l
  <2>9. AccessTypes'
    <3>1. memberLog' \in [PdMembers -> Seq(Entries)]
      BY <2>5, <2>6, <2>7, <2>8
    <3> QED
      BY <1>2, <1>3, <2>3, <3>1 DEF AccessTypes
  <2>10. Leads(w) /\ LastTermOf(memberLog[w]) = view[w].term
    BY <1>2, <1>8, <2>2 DEF LeadersSound
  <2>11. \A z \in PdMembers : LastTermOf(memberLog'[z]) = LastTermOf(memberLog[z])
    BY <2>6, <2>8, <2>10
  <2>12. AtTop(T)'
    BY <1>1, <1>3, <2>11 DEF AtTop
  <2>13. \A z \in PdMembers : Leads(z)' <=> Leads(z)
    BY <1>3 DEF Leads
  <2>14. ASSUME NEW n \in PdMembers, NEW c \in PdMembers, Leads(n), LastTermOf(memberLog'[c]) = view[n].term
         PROVE  Begins(memberLog'[c], memberLog'[n])
    <3>1. Begins(memberLog[c], memberLog[n])
      BY <1>2, <2>11, <2>14 DEF LeadersSound
    <3>2. CASE c = w
      <4>1. n = w
        BY <1>2, <2>8, <2>10, <2>14, <3>2 DEF LeadersSound
      <4> QED
        BY <2>8, <3>2, <4>1, BeginsSelf
    <3>3. CASE c # w /\ n = w
      BY <2>5, <2>6, <2>8, <3>1, <3>3, BeginsTrans
    <3>4. CASE c # w /\ n # w
      BY <2>6, <3>1, <3>4
    <3> QED
      BY <3>2, <3>3, <3>4
  <2>15. LeadersSound'
    BY <1>2, <1>3, <2>11, <2>13, <2>14 DEF LeadersSound
  <2>16. Lone'
    <3>1. Attempts(durable) = {}
      BY <1>5 DEF Clean
    <3>2. \A z \in PdMembers : z # w => Attempts(memberLog'[z]) = {}
      BY <2>5, <2>6
    <3> QED
      BY <1>3, <1>4, <2>3, <2>8, <3>1, <3>2 DEF Lone
  <2> QED
    BY <1>1, <2>9, <2>12, <2>15, <2>16 DEF AccessInv
<1> QED
  BY <1>6, <1>7, <1>8, <1>9

(* The core of the target stops: wherever the command is, apply leaves it. *)
LEMMA FatalKeeps ==
    ASSUME GroupOfThree, AccessInv, ApplyFatal
    PROVE  AccessInv'
<1>1. AccessTypes
  BY DEF AccessInv
<1>2. /\ view' = view /\ memberLog' = memberLog /\ durable' = durable
      /\ attached' = attached /\ reopening' = reopening
      /\ apply.pc = "pending" /\ apply' = [apply EXCEPT !.pc = "fatal"]
  BY DEF ApplyFatal, groupVars
<1>3. AccessTypes'
  BY <1>1, <1>2 DEF AccessTypes
<1> QED
  BY <1>2, <1>3, QuietKeeps

(* The answer: a write is answered only when two members hold it. *)
LEMMA AnswerKeeps ==
    ASSUME GroupOfThree, AccessInv, ApplyAnswered
    PROVE  AccessInv'
<1>1. PICK T \in Nat : AtTop(T) /\ (Clean \/ Lone \/ \E P \in Seq(Entries), i \in Nat : Sealed(P, i, T))
  BY DEF AccessInv
<1>2. AccessTypes /\ LeadersSound
  BY DEF AccessInv
<1>3. /\ apply.pc = "pending" /\ apply' = [apply EXCEPT !.pc = "ok"]
      /\ view' = view /\ memberLog' = memberLog /\ durable' = durable
      /\ attached' = attached /\ reopening' = reopening
      /\ \E j \in DOMAIN durable : durable[j].attempt = apply.hop
  BY DEF ApplyAnswered, groupVars
<1>4. apply'.pc = "ok" /\ apply'.hop = apply.hop /\ apply'.target = apply.target
  BY <1>2, <1>3 DEF AccessTypes
<1>5. AccessTypes'
  BY <1>2, <1>3 DEF AccessTypes
<1>6. LeadersSound'
  BY <1>2, <1>3 DEF LeadersSound, Leads
<1>7. AtTop(T)'
  BY <1>1, <1>3 DEF AtTop
<1>8. apply.hop # 0 => Attempts(durable) # {}
  BY <1>3 DEF Attempts
<1>9. ~Clean /\ ~Lone
  BY <1>3, <1>8 DEF Clean, Lone
<1>10. PICK P \in Seq(Entries), i \in Nat : Sealed(P, i, T)
  BY <1>1, <1>9
<1>11. Begins(P, durable)
  BY <1>8, <1>10 DEF Sealed
<1>12. Sealed(P, i, T)'
  BY <1>3, <1>4, <1>10, <1>11 DEF Sealed, Leads
<1> QED
  BY <1>1, <1>5, <1>6, <1>7, <1>12 DEF AccessInv

(* The other steps of apply, of the router and of restart. *)
LEMMA FindKeeps ==
    ASSUME GroupOfThree, AccessInv, FindLeader \/ WaitTimesOut
    PROVE  AccessInv'
<1>1. AccessTypes
  BY DEF AccessInv
<1>2. /\ view' = view /\ memberLog' = memberLog /\ durable' = durable
      /\ attached' = attached /\ reopening' = reopening
      /\ apply.pc \in {"start", "wait"}
  BY DEF FindLeader, WaitTimesOut, groupVars
<1>3. ASSUME Leader # {} PROVE (CHOOSE m \in Leader : TRUE) \in Nat
  <2> DEFINE S == {m \in attached : Leads(m)}
  <2>1. S \in SUBSET Nat /\ (Leader # {} => S # {} /\ Leader = {Min(S)})
    BY <1>1, PdAccessConstants DEF AccessTypes, Leader
  <2> HIDE DEF S
  <2>2. Min(S) \in Nat
    BY <1>3, <2>1, MinNat
  <2> QED
    BY <1>3, <2>1, <2>2
<1>4. /\ apply' \in [pc : {"wait", "write", "failed"}, target : Nat, hop : Nat]
      /\ apply'.pc \in {"wait", "write", "failed"}
  <2>1. CASE WaitTimesOut
    BY <1>1, <2>1 DEF AccessTypes, WaitTimesOut
  <2>2. CASE FindLeader
    <3>1. CASE Leader = {}
      BY <1>1, <2>2, <3>1 DEF AccessTypes, FindLeader
    <3>2. CASE Leader # {}
      <4>1. PICK n \in Nat : n = CHOOSE m \in Leader : TRUE
        BY <1>3, <3>2
      <4>2. apply' = [apply EXCEPT !.pc = "write", !.target = n]
        BY <2>2, <3>2, <4>1 DEF FindLeader
      <4> QED
        BY <1>1, <4>2 DEF AccessTypes
    <3> QED
      BY <3>1, <3>2
  <2> QED
    BY <2>1, <2>2
<1>5. AccessTypes'
  BY <1>1, <1>2, <1>4 DEF AccessTypes
<1> QED
  BY <1>2, <1>4, <1>5, QuietKeeps

LEMMA FaultKeeps ==
    ASSUME GroupOfThree, AccessInv, Faults \/ Restarts, apply' = apply
    PROVE  AccessInv'
<1>1. AccessTypes
  BY DEF AccessInv
<1>2. CASE Faults
  <2>1. /\ view' = view /\ memberLog' = memberLog /\ durable' = durable
        /\ attached' = attached /\ reopening' = reopening
    BY <1>2 DEF Faults, Isolate, Reconnect, Partition, Heal
  <2>2. AccessTypes'
    BY <1>1, <2>1 DEF AccessTypes
  <2> QED
    BY <2>1, <2>2, QuietKeeps
<1>3. CASE RestartOpens \/ RestartFails
  <2>1. /\ view' = view /\ memberLog' = memberLog /\ durable' = durable
        /\ attached' \subseteq PdMembers /\ reopening' = 0
    BY <1>1, <1>3 DEF RestartOpens, RestartFails, AccessTypes
  <2>2. AccessTypes'
    BY <1>1, <2>1 DEF AccessTypes
  <2> QED
    BY <2>1, <2>2, QuietKeeps
<1>4. ASSUME NEW r \in PdMembers, RestartTakes(r) PROVE AccessInv'
  <2>1. /\ view' = [view EXCEPT ![r].leader = 0] /\ memberLog' = memberLog /\ durable' = durable
        /\ attached' \subseteq PdMembers /\ reopening' \in PdMembers
    BY <1>1, <1>4 DEF RestartTakes, AccessTypes
  <2>2. \A m \in PdMembers : /\ view'[m].term = view[m].term
                             /\ view'[m].leader = view[m].leader \/ view'[m].leader = 0
    BY <1>1, <2>1 DEF AccessTypes
  <2>3. AccessTypes'
    BY <1>1, <2>1 DEF AccessTypes
  <2> QED
    BY <2>1, <2>2, <2>3, QuietKeeps
<1> QED
  BY <1>2, <1>3, <1>4 DEF Restarts

LEMMA AccessNext ==
    ASSUME GroupOfThree, AccessInv, [ApplySteps \/ BeatSteps]_accessVars
    PROVE  AccessInv'
<1>1. ASSUME view' = view, memberLog' = memberLog, durable' = durable, apply' = apply,
             attached' = attached, reopening' = reopening
      PROVE  AccessInv'
  <2>1. AccessTypes'
    BY <1>1 DEF AccessInv, AccessTypes
  <2> QED
    BY <1>1, <2>1, QuietKeeps
<1>2. CASE GroupSteps
  <2>1. ASSUME NEW m \in PdMembers, Elect(m) \/ CommitAt(m) \/ CoreStops(m), apply' = apply
        PROVE  AccessInv'
    <3>1. CASE CoreStops(m)
      BY <1>1, <2>1, <3>1 DEF CoreStops
    <3> QED
      BY <2>1, <3>1, ElectKeeps, CommitKeeps
  <2>2. ASSUME Faults \/ Restarts, apply' = apply PROVE AccessInv'
    BY <2>2, FaultKeeps
  <2>3. ASSUME NEW m \in PdMembers, NEW q \in PdMembers, AppendTo(m, q) PROVE AccessInv'
    BY <2>3, StepDownKeeps, CopyKeeps
  <2>4. CASE /\ \E m \in PdMembers : Elect(m) \/ CommitAt(m) \/ CoreStops(m)
             /\ apply' = apply
    BY <2>1, <2>4
  <2>5. CASE (Faults \/ Restarts) /\ apply' = apply
    BY <2>2, <2>5
  <2>6. CASE Appending
    BY <2>3, <2>6 DEF Appending
  <2> QED
    BY <1>2, <2>4, <2>5, <2>6 DEF GroupSteps
<1>3. CASE NodeRegisters \/ SupervisorDials \/ SupervisorRegisters \/ FirstDial \/ BeatTick
           \/ BeatAnswered(Ok) \/ BeatFails \/ BeatStops
  <2>1. UNCHANGED <<groupVars, apply>>
    <3>1. CASE SupervisorDials \/ SupervisorRegisters \/ FirstDial
      BY <3>1 DEF SupervisorDials, SupervisorRegisters, FirstDial
    <3>4. CASE NodeRegisters
      BY <3>4 DEF NodeRegisters
    <3>2. CASE BeatTick \/ BeatAnswered(Ok) \/ BeatStops
      BY <3>2 DEF BeatTick, BeatAnswered, BeatStops
    <3>3. CASE BeatFails
      BY <3>3 DEF BeatAnswered, BeatFails
    <3> QED
      BY <1>3, <3>1, <3>2, <3>3, <3>4
  <2> QED
    BY <1>1, <2>1 DEF groupVars
<1>4. CASE UNCHANGED accessVars
  BY <1>1, <1>4 DEF accessVars, groupVars
<1> QED
  BY <1>2, <1>3, <1>4, FindKeeps, WriteKeeps, AnswerKeeps, FatalKeeps
     DEF ApplySteps, BeatSteps

(* PdCluster::apply sends its command again only when no log holds it any
   more: in a group of three, Ok means that it is committed once; running out of
   leaders or hops, that it is in no log and will never commit; and Fatal, which
   leaves it where it was, that it commits at most once (raft/cluster.rs). *)
THEOREM ApplyIsOnce == GroupOfThree => (AccessSpec => []ApplyOnce)
<1> SUFFICES ASSUME GroupOfThree PROVE AccessSpec => []ApplyOnce
  OBVIOUS
<1>1. AccessInit => AccessInv
  BY AccessStart
<1>2. AccessInv /\ [ApplySteps \/ BeatSteps]_accessVars => AccessInv'
  BY AccessNext
<1>3. AccessInv => ApplyOnce
  <2> SUFFICES ASSUME AccessInv PROVE ApplyOnce
    OBVIOUS
  <2>1. PICK T \in Nat : Clean \/ Lone \/ \E P \in Seq(Entries), i \in Nat : Sealed(P, i, T)
    BY DEF AccessInv
  <2>2. Cardinality({}) = 0 /\ \A i : Cardinality({i}) = 1
    BY FS_EmptySet, FS_Singleton
  <2>3. CASE Clean \/ Lone
    BY <2>2, <2>3 DEF Clean, Lone, ApplyOnce
  <2>4. ASSUME NEW P \in Seq(Entries), NEW i \in Nat, Sealed(P, i, T) PROVE ApplyOnce
    <3>1. /\ apply.pc \in {"pending", "ok", "fatal"} /\ i \in Attempts(P)
          /\ Attempts(durable) = {} \/ (Begins(P, durable) /\ Attempts(durable) = {i})
          /\ apply.pc = "ok" => Begins(P, durable)
      BY <2>4 DEF Sealed
    <3>2. durable \in Seq(Entries)
      BY DEF AccessInv, AccessTypes
    <3>3. Begins(P, durable) => Attempts(durable) # {}
      BY <3>1, <3>2, SharedAttempts
    <3>4. Cardinality(Attempts(durable)) = 0 \/ Cardinality(Attempts(durable)) = 1
      BY <2>2, <3>1
    <3>5. apply.pc = "ok" => Cardinality(Attempts(durable)) = 1
      BY <2>2, <3>1, <3>3
    <3>6. apply.pc # "failed"
      BY <3>1
    <3> QED
      BY <3>4, <3>5, <3>6 DEF ApplyOnce
  <2> QED
    BY <2>1, <2>3, <2>4
<1> QED
  BY <1>1, <1>2, <1>3, PTL DEF AccessSpec
=============================================================================
