-------------------------- MODULE PdRaftGroupProofs --------------------------
(***************************************************************************)
(* Theorems about PdRaftGroup: every replica holds, in memory, on disk and *)
(* in its snapshots, what the entries it counts define, until one of two   *)
(* events makes it stray (GroupAgrees), and the group implements           *)
(* ReplicatedCatalog (KeepsPromise), for any replicas, logs, faults and    *)
(* snapshots.                                                              *)
(*                                                                         *)
(* The logs are those RangeDescriptor::new callers make: a created range   *)
(* carries the raft group of its own id, and no id comes near the end of   *)
(* u64.  Without either the catalog of a log cannot be told from its rows. *)
(***************************************************************************)
EXTENDS PdRaftGroup, CatalogFacts, TLAPS

(* The catalogs of the prefixes of a log, and the meta row of one. *)
Cats(l) == Promise!CatalogsOf(l)
MetaOf(l, n) == Promise!MetaOf(l, n)
IsCommand(entry) == Promise!IsCommand(entry)

LogOK(l) ==
    /\ Len(l) \in Nat
    /\ \A i \in 1 .. Len(l) : l[i].op \in {"Blank", "Membership"} \/ IsPdCommand(l[i])

(* RangeDescriptor::new: a created range has the raft group of its id. *)
OwnGroupLog(l) ==
    \A i \in 1 .. Len(l) :
        l[i].op = "CreateRange" => l[i].desc.raft_group_id = l[i].desc.range_id

(* Neither the created nor the allocated ids reach the end of u64. *)
NoWrapLog(l) ==
    /\ Len(l) + 2 < IdLimit
    /\ \A i \in 1 .. Len(l) :
          l[i].op = "CreateRange" => l[i].desc.range_id + Len(l) + 2 < IdLimit

(* The logs the theorems are about. *)
RegularLogs == \A s \in Setups : OwnGroupLog(s.log) /\ NoWrapLog(s.log)
------------------------------------------------------------------------------
(* The instance's operators are those of module Catalog. *)
LEMMA SameApply ==
    /\ \A c, cmd : Promise!Apply(c, cmd) = Apply(c, cmd)
    /\ Promise!NewCatalog = NewCatalog
<1>1. ASSUME NEW c, NEW cmd PROVE Promise!Accepts(c, cmd) = Accepts(c, cmd)
  BY DEF Promise!Accepts, Accepts, Promise!CanHeartbeat, CanHeartbeat,
         Promise!CanCreate, CanCreate, Promise!HasNonEmptySpan, HasNonEmptySpan,
         Promise!FindOverlap, FindOverlap, Promise!StartsUpTo, StartsUpTo,
         Promise!StartsAfter, StartsAfter, Promise!Max, Max, Promise!Min, Min,
         Promise!CanSplit, CanSplit, Promise!CanMerge, CanMerge,
         Promise!CanUpdateMembership, CanUpdateMembership,
         Promise!CanUpdateLease, CanUpdateLease
<1>2. ASSUME NEW c, NEW cmd PROVE Promise!Effect(c, cmd) = Effect(c, cmd)
  BY DEF Promise!Effect, Effect, Promise!RegisterNode, RegisterNode,
         Promise!HeartbeatNode, HeartbeatNode, Promise!CreateRange, CreateRange,
         Promise!SplitRange, SplitRange, Promise!SplitLhs, SplitLhs,
         Promise!SplitRhs, SplitRhs, Promise!MergeRanges, MergeRanges,
         Promise!Merged, Merged, Promise!UpdateMembership, UpdateMembership,
         Promise!UpdateLease, UpdateLease, Promise!Put, Put, Promise!Del, Del,
         Promise!Succ, Succ, Promise!Larger, Larger
<1>3. Promise!NewCatalog = NewCatalog
  BY DEF Promise!NewCatalog, NewCatalog, Promise!Empty, Empty
<1> QED
  BY <1>1, <1>2, <1>3 DEF Promise!Apply, Apply

(* CatalogsOf(l) is the function its recursive definition describes. *)
LEMMA CatalogsUnfold ==
    ASSUME NEW l, Len(l) \in Nat
    PROVE  /\ Cats(l)[0] = NewCatalog
           /\ \A n \in 1 .. Len(l) :
                 Cats(l)[n] = IF IsCommand(l[n]) THEN Apply(Cats(l)[n - 1], l[n])
                              ELSE Cats(l)[n - 1]
<1> DEFINE Entry(f, n) == IF n = 0 THEN Promise!NewCatalog
                          ELSE IF Promise!IsCommand(l[n])
                               THEN Promise!Apply(f[n - 1], l[n])
                          ELSE f[n - 1]
           Rec(m, f) == f = [n \in 0 .. m |-> Entry(f, n)]
           S == {m \in Nat : \E f : Rec(m, f)}
<1>1. 0 \in S
  <2>1. Rec(0, [n \in 0 .. 0 |-> Promise!NewCatalog])
    OBVIOUS
  <2> QED
    BY <2>1
<1>2. ASSUME NEW m \in Nat, m \in S PROVE m + 1 \in S
  <2>1. PICK f : Rec(m, f)
    BY <1>2
  <2> DEFINE g == [n \in 0 .. m + 1 |-> IF n <= m THEN f[n] ELSE Entry(f, n)]
  <2>2. \A n \in 0 .. m : g[n] = f[n]
    OBVIOUS
  <2>3. \A n \in 0 .. m + 1 : Entry(g, n) = Entry(f, n)
    BY <2>2
  <2>4. \A n \in 0 .. m : f[n] = Entry(f, n)
    BY <2>1
  <2>5. \A n \in 0 .. m + 1 : g[n] = Entry(g, n)
    <3> HIDE DEF Entry
    <3> QED
      BY <2>2, <2>3, <2>4
  <2>6. Rec(m + 1, g)
    <3> HIDE DEF Entry
    <3> QED
      BY <2>5
  <2> HIDE DEF g, Rec
  <2> QED
    BY <2>6
<1>3. \A n \in Nat : n \in S
  <2> HIDE DEF S
  <2> QED
    BY <1>1, <1>2, Inductive
<1>4. \E f : Rec(Len(l), f)
  BY <1>3
<1>5. Rec(Len(l), Cats(l))
  BY <1>4 DEF Cats, Promise!CatalogsOf
<1>6. \A n \in 0 .. Len(l) : Cats(l)[n] = Entry(Cats(l), n)
  <2> HIDE DEF Entry
  <2> QED
    BY <1>5
<1> QED
  BY <1>6, SameApply DEF IsCommand

(* Every catalog of a regular log is sound. *)
LEMMA CatsSound ==
    ASSUME NEW l, LogOK(l), OwnGroupLog(l), NoWrapLog(l)
    PROVE  \A n \in 0 .. Len(l) :
               Sound(Cats(l)[n]) /\ OwnGroups(Cats(l)[n])
<1> DEFINE Good(n) == /\ Sound(Cats(l)[n]) /\ OwnGroups(Cats(l)[n])
                      /\ Cats(l)[n].next_range_id + (Len(l) - n) + 1 < IdLimit
           S == {n \in Nat : n <= Len(l) => Good(n)}
<1>0. Len(l) \in Nat /\ IdLimit \in Nat
  BY IdLimitAssumption DEF LogOK
<1>1. 0 \in S
  <2>1. Cats(l)[0] = NewCatalog
    BY <1>0, CatalogsUnfold
  <2>2. NewCatalog.next_range_id = 1 /\ DOMAIN NewCatalog.ranges = {}
    BY DEF NewCatalog, Empty
  <2>3. Tidy(NewCatalog)
    BY IdLimitAssumption
       DEF Tidy, TidyRanges, TidyNodes, IsMap, NewCatalog, Empty, RangeIds
  <2>4. Sound(NewCatalog) /\ OwnGroups(NewCatalog)
    BY <2>2, <2>3
       DEF Sound, Indexed, Apart, Fresh, OwnGroups, NewCatalog, Empty
  <2>5. NewCatalog.next_range_id + (Len(l) - 0) + 1 < IdLimit
    BY <1>0, <2>2 DEF NoWrapLog
  <2> QED
    BY <2>1, <2>4, <2>5
<1>2. ASSUME NEW n \in Nat, n \in S PROVE n + 1 \in S
  <2> SUFFICES ASSUME n + 1 <= Len(l) PROVE Good(n + 1)
    OBVIOUS
  <2> DEFINE c == Cats(l)[n]
             cmd == l[n + 1]
  <2>1. Good(n)
    BY <1>0, <1>2
  <2>2. n + 1 \in 1 .. Len(l) /\ (n + 1) - 1 = n
    BY <1>0
  <2>3. Cats(l)[n + 1] = IF IsCommand(cmd) THEN Apply(c, cmd) ELSE c
    BY <1>0, <2>2, CatalogsUnfold
  <2>4. c.next_range_id \in Nat
    BY <2>1 DEF Sound, Tidy, RangeIds
  <2>5. CASE ~IsCommand(cmd)
    <3>1. Cats(l)[n + 1] = c
      BY <2>3, <2>5
    <3>2. c.next_range_id + (Len(l) - (n + 1)) + 1 < IdLimit
      BY <1>0, <2>1, <2>4
    <3> QED
      BY <2>1, <3>1, <3>2
  <2>6. CASE IsCommand(cmd)
    <3>1. Cats(l)[n + 1] = Apply(c, cmd)
      BY <2>3, <2>6
    <3>2. IsPdCommand(cmd)
      BY <2>2, <2>6 DEF LogOK, IsCommand, Promise!IsCommand
    <3>3. cmd.op = "CreateRange" =>
              /\ cmd.desc.range_id + Len(l) + 2 < IdLimit /\ cmd.desc.range_id \in Nat
              /\ cmd.desc.raft_group_id = cmd.desc.range_id
      BY <2>2, <3>2 DEF NoWrapLog, OwnGroupLog, IsPdCommand, IsDescriptor, RangeIds
    <3>4. IdsLeft(c, cmd)
      <4> HIDE DEF c, cmd
      <4>1. cmd.op = "CreateRange" => cmd.desc.range_id + 1 < IdLimit
        BY <1>0, <3>3
      <4>2. c.next_range_id + (Len(l) - n) + 1 < IdLimit
        BY <2>1 DEF c
      <4>3. c.next_range_id + 1 < IdLimit
        BY <1>0, <2>4, <4>2
      <4> QED
        BY <4>1, <4>3 DEF IdsLeft
    <3>5. Sound(c) /\ OwnGroups(c)
      BY <2>1, <2>2
    <3>6. Sound(Apply(c, cmd)) /\ OwnGroups(Apply(c, cmd))
      <4> HIDE DEF c, cmd
      <4> QED
        BY <3>2, <3>3, <3>4, <3>5, ApplySound
    <3>7. /\ Apply(c, cmd).next_range_id \in Nat
          /\ \/ Apply(c, cmd).next_range_id <= c.next_range_id + 1
             \/ /\ cmd.op = "CreateRange"
                /\ Apply(c, cmd).next_range_id = cmd.desc.range_id + 1
      <4> HIDE DEF c, cmd
      <4> QED
        BY <3>2, <3>4, <3>5, ApplyNext
    <3>8. Apply(c, cmd).next_range_id + (Len(l) - (n + 1)) + 1 < IdLimit
      <4>1. c.next_range_id + (Len(l) - n) + 1 < IdLimit
        BY <2>1
      <4> HIDE DEF c, cmd
      <4> DEFINE next == Apply(c, cmd).next_range_id
      <4>2. /\ next \in Nat
            /\ \/ next <= c.next_range_id + 1
               \/ next + Len(l) + 1 < IdLimit
        BY <1>0, <3>3, <3>7
      <4> HIDE DEF next
      <4>3. next + (Len(l) - (n + 1)) + 1 < IdLimit
        BY <1>0, <2>4, <4>1, <4>2
      <4> QED
        BY <4>3 DEF next
    <3> QED
      BY <3>1, <3>6, <3>8
  <2> QED
    BY <2>5, <2>6
<1>3. \A n \in Nat : n \in S
  <2> HIDE DEF S
  <2> QED
    BY <1>1, <1>2, Inductive
<1> QED
  BY <1>0, <1>3

(* The meta row of the next prefix is the one apply writes. *)
LEMMA MetaSteps ==
    ASSUME NEW l, Len(l) \in Nat
    PROVE  /\ MetaOf(l, 0) = NoMeta
           /\ \A n \in 0 .. Len(l) : /\ MetaOf(l, n).last = n
                                     /\ MetaOf(l, n).member \in 0 .. n
           /\ \A n \in 0 .. Len(l) - 1 :
                 MetaOf(l, n + 1) = NewMeta(MetaOf(l, n), l[n + 1])
<1> DEFINE M(n) == {0} \cup {i \in 1 .. n : l[i].op = "Membership"}
<1>1. \A n \in Nat : MetaOf(l, n) = [last |-> n, member |-> Max(M(n))]
  BY DEF MetaOf, Promise!MetaOf, Promise!Max, Max
<1>2. ASSUME NEW n \in Nat
      PROVE  Max(M(n)) \in M(n) /\ \A y \in M(n) : y <= Max(M(n))
  <2>1. M(n) \in SUBSET (0 .. n) /\ M(n) # {}
    OBVIOUS
  <2> HIDE DEF M
  <2> QED
    BY <2>1, MaxNat
<1>3. MetaOf(l, 0) = NoMeta
  <2>1. Max(M(0)) \in M(0)
    BY <1>2
  <2>2. M(0) = {0}
    OBVIOUS
  <2>3. Max(M(0)) = 0
    BY <2>1, <2>2
  <2> HIDE DEF M
  <2> QED
    BY <1>1, <2>3 DEF NoMeta
<1>4. ASSUME NEW n \in Nat PROVE MetaOf(l, n).last = n /\ MetaOf(l, n).member \in 0 .. n
  <2>1. Max(M(n)) \in 0 .. n
    BY <1>2
  <2> HIDE DEF M
  <2> QED
    BY <1>1, <2>1
<1>5. ASSUME NEW n \in Nat
      PROVE  MetaOf(l, n + 1) = NewMeta(MetaOf(l, n), l[n + 1])
  <2> DEFINE a == Max(M(n))
             b == Max(M(n + 1))
  <2>1. /\ a \in M(n) /\ \A y \in M(n) : y <= a
        /\ b \in M(n + 1) /\ \A y \in M(n + 1) : y <= b
    BY <1>2
  <2> HIDE DEF a, b
  <2>2. b = IF l[n + 1].op = "Membership" THEN n + 1 ELSE a
    <3>1. CASE l[n + 1].op = "Membership"
      <4>1. n + 1 \in M(n + 1) /\ \A y \in M(n + 1) : y <= n + 1 /\ y \in Nat
        BY <3>1
      <4> QED
        BY <2>1, <3>1, <4>1
    <3>2. CASE l[n + 1].op # "Membership"
      <4>1. M(n + 1) = M(n)
        BY <3>2
      <4>2. \A y \in M(n) : y \in Nat
        OBVIOUS
      <4> HIDE DEF M
      <4> QED
        BY <2>1, <3>2, <4>1, <4>2
    <3> QED
      BY <3>1, <3>2
  <2>3. /\ MetaOf(l, n) = [last |-> n, member |-> a]
        /\ MetaOf(l, n + 1) = [last |-> n + 1, member |-> b]
    <3>1. n + 1 \in Nat
      OBVIOUS
    <3> HIDE DEF M
    <3> QED
      BY <1>1, <3>1 DEF a, b
  <2>4. NewMeta([last |-> n, member |-> a], l[n + 1])
          = [last |-> n + 1, member |-> IF l[n + 1].op = "Membership" THEN n + 1 ELSE a]
    BY DEF NewMeta
  <2> QED
    BY <2>2, <2>3, <2>4
<1> QED
  BY <1>3, <1>4, <1>5
------------------------------------------------------------------------------
(* build_write_batch writes every row the command changed, and no other. *)
LEMMA OverlayExact ==
    ASSUME NEW rows, NEW new, IsMap(new), NEW touched, NEW deleted,
           DOMAIN new = (DOMAIN rows \cup touched) \ deleted,
           \A x \in DOMAIN new : x \notin touched => new[x] = rows[x]
    PROVE  Overlay(rows, new, touched, deleted) = new
BY DEF Overlay, IsMap

(* The batch of an accepted command turns the rows of the catalog before it
   into those of the catalog after it.                                     *)
LEMMA BatchExact ==
    ASSUME NEW c, Tidy(c), NEW cmd, IsPdCommand(cmd), Accepts(c, cmd),
           NEW m0, NEW m
    PROVE  WriteBatch(Rows(c, m0), Apply(c, cmd), cmd, Response(c, cmd), m)
               = Rows(Apply(c, cmd), m)
<1> DEFINE c2 == Apply(c, cmd)
           resp == Response(c, cmd)
           tr == TouchedRanges(cmd, resp)
           dr == DeletedRanges(cmd)
           tn == TouchedNodes(cmd)
           Same(rows, new, touched, deleted) ==
               /\ DOMAIN new = (DOMAIN rows \cup touched) \ deleted
               /\ \A x \in DOMAIN new : x \notin touched => new[x] = rows[x]
<1>0. /\ c2 = Effect(c, cmd) /\ Tidy(c2)
      /\ IsMap(c2.ranges) /\ IsMap(c2.nodes) /\ IsMap(c.ranges) /\ IsMap(c.nodes)
  BY ApplyTidy DEF Apply, Tidy, TidyRanges, TidyNodes
<1> HIDE DEF c2
<1>1. Same(c.ranges, c2.ranges, tr, dr) /\ Same(c.nodes, c2.nodes, tn, {})
  <2>1. CASE cmd.op \in {"RegisterNode", "HeartbeatNode"}
    <3>1. NodeUpdated(c, cmd.node, c2)
      BY <1>0, <2>1 DEF Effect, Accepts, NodeUpdated
    <3>2. PICK row : NodeBecomes(c, cmd.node, row, c2)
      BY <3>1, NodeFields
    <3>3. c2.ranges = c.ranges /\ c2.nodes = Put(c.nodes, cmd.node, row)
      BY <3>2 DEF NodeBecomes
    <3>4. tr = {} /\ dr = {} /\ tn = {cmd.node}
      BY <2>1 DEF TouchedRanges, DeletedRanges, TouchedNodes
    <3> HIDE DEF tr, dr, tn
    <3> QED
      BY <3>3, <3>4 DEF Put
  <2>2. CASE cmd.op = "CreateRange"
    <3>1. c2 = CreateRange(c, cmd.desc)
      BY <1>0, <2>2 DEF Effect
    <3>2. /\ c2.ranges = Put(c.ranges, cmd.desc.range_id, cmd.desc)
          /\ c2.nodes = c.nodes
      BY <3>1, CreateFields
    <3>3. tr = {cmd.desc.range_id} /\ dr = {} /\ tn = {}
      BY <2>2 DEF TouchedRanges, DeletedRanges, TouchedNodes
    <3> HIDE DEF tr, dr, tn
    <3> QED
      BY <3>2, <3>3 DEF Put
  <2>3. CASE cmd.op = "SplitRange"
    <3> DEFINE p == cmd.parent
               k == cmd.key
               new == c.next_range_id
    <3>1. c2 = SplitRange(c, p, k) /\ CanSplit(c, p, k) /\ k \in Nat
      BY <1>0, <2>3 DEF Effect, Accepts, IsPdCommand
    <3>2. /\ c2.ranges = Put(Put(c.ranges, p, SplitLhs(c, p, k)),
                             new, SplitRhs(c, p, k))
          /\ c2.nodes = c.nodes
      BY <3>1, SplitFields
    <3>3. resp.range = SplitRhs(c, p, k)
      BY <2>3 DEF Response
    <3>4. resp.range.range_id = new
      BY <3>1, <3>3, SplitDescriptors
    <3>5. tr = {p, new} /\ dr = {} /\ tn = {}
      BY <2>3, <3>4 DEF TouchedRanges, DeletedRanges, TouchedNodes
    <3> HIDE DEF tr, dr, tn, p, k, new
    <3> QED
      BY <3>2, <3>5 DEF Put
  <2>4. CASE cmd.op = "MergeRanges"
    <3> DEFINE l == cmd.left
               r == cmd.right
    <3>1. c2 = MergeRanges(c, l, r) /\ CanMerge(c, l, r)
      BY <1>0, <2>4 DEF Effect, Accepts
    <3>2. c2.ranges = Put(Del(c.ranges, r), l, Merged(c, l, r)) /\ c2.nodes = c.nodes
      BY <3>1, MergeFields
    <3>3. l # r
      BY <3>1, MergedDescriptor
    <3>4. tr = {l} /\ dr = {r} /\ tn = {}
      BY <2>4 DEF TouchedRanges, DeletedRanges, TouchedNodes
    <3> HIDE DEF tr, dr, tn, l, r
    <3> QED
      BY <3>2, <3>3, <3>4 DEF Put, Del
  <2>5. CASE cmd.op \in {"UpdateMembership", "UpdateLease"}
    <3> DEFINE i == cmd.id
    <3>1. i \in DOMAIN c.ranges /\ RowUpdated(c, i, c2)
      BY <1>0, <2>5
         DEF Effect, Accepts, RowUpdated, CanUpdateMembership, CanUpdateLease
    <3>2. PICK d : RowBecomes(c, i, d, c2)
      BY <3>1, UpdateFields
    <3>3. c2.ranges = [c.ranges EXCEPT ![i] = d] /\ c2.nodes = c.nodes
      BY <3>2 DEF RowBecomes
    <3>4. tr = {i} /\ dr = {} /\ tn = {}
      BY <2>5 DEF TouchedRanges, DeletedRanges, TouchedNodes
    <3> HIDE DEF tr, dr, tn, i
    <3> QED
      BY <1>0, <3>1, <3>3, <3>4 DEF IsMap
  <2> QED
    BY <2>1, <2>2, <2>3, <2>4, <2>5 DEF IsPdCommand
<1>2. /\ Overlay(c.ranges, c2.ranges, tr, dr) = c2.ranges
      /\ Overlay(c.nodes, c2.nodes, tn, {}) = c2.nodes
  <2> HIDE DEF tr, dr, tn
  <2> QED
    BY <1>0, <1>1, OverlayExact
<1>3. WriteBatch(Rows(c, m0), c2, cmd, resp, m)
        = [ranges |-> Overlay(c.ranges, c2.ranges, tr, dr),
           nodes |-> Overlay(c.nodes, c2.nodes, tn, {}), meta |-> m]
  BY DEF WriteBatch, Rows
<1> QED
  BY <1>2, <1>3 DEF Rows, c2
------------------------------------------------------------------------------
(* The inductive invariant.  What holds of one replica is stated of its values
   (catalog c, cached meta m, disk d, program counter p, work w, builder b,
   snapshot sn) in a set-up s.                                             *)

MetasIn(s) == [last : 0 .. Len(s.log), member : 0 .. Len(s.log)]

IsRows(s, d) ==
    /\ d = [ranges |-> d.ranges, nodes |-> d.nodes, meta |-> d.meta]
    /\ TidyRanges(d.ranges) /\ TidyNodes(d.nodes) /\ d.meta \in MetasIn(s)

IsSnapshot(s, x) ==
    /\ x = [ranges |-> x.ranges, nodes |-> x.nodes, meta |-> x.meta, next |-> x.next]
    /\ TidyRanges(x.ranges) /\ TidyNodes(x.nodes) /\ x.meta \in MetasIn(s)
    /\ x.next \in RangeIds

(* A meta row is right wherever it is. *)
IsMeta(s, m) == m \in MetasIn(s) /\ m = MetaOf(s.log, m.last)

(* On every replica: where the state-machine task is decides how memory, disk
   and the batch being written belong together, and every meta row is right. *)
ReplicaOK(s, c, m, d, p, w, b, sn) ==
    /\ Tidy(c) /\ IsMeta(s, m) /\ IsRows(s, d) /\ IsMeta(s, d.meta)
    /\ p \in {"idle", "applying", "applied", "installing", "installed", "failed", "down"}
    /\ b # None => IsMeta(s, b)
    /\ sn # None => IsSnapshot(s, sn) /\ IsMeta(s, sn.meta)
    /\ p = "idle" => d = Rows(c, m)
    /\ p \in {"applying", "applied"} =>
          /\ m.last < Len(s.log)
          /\ w = Rows(c, NewMeta(m, s.log[m.last + 1]))
    /\ p \in {"installing", "installed"} =>
          IsSnapshot(s, w) /\ IsMeta(s, w.meta) /\ m.last < w.meta.last
    /\ p \in {"applying", "installing"} => d.meta = m
    /\ p \in {"applied", "installed"} => d = Rows(w, w.meta)
    /\ p = "down" => b = None

(* The rows, and the snapshot, of the first n entries. *)
RowsOf(s, n) == Rows(Cats(s.log)[n], MetaOf(s.log, n))
SnapshotOf(s, n) ==
    [ranges |-> Cats(s.log)[n].ranges, nodes |-> Cats(s.log)[n].nodes,
     meta |-> MetaOf(s.log, n), next |-> Cats(s.log)[n].next_range_id]

(* On one that did not stray: everything is that of the entries it counts. *)
ReplicaExact(s, c, m, d, p, w) ==
    /\ d = RowsOf(s, d.meta.last)
    /\ p \in {"idle", "installing", "installed"} => c = Cats(s.log)[m.last]
    /\ p \in {"applying", "applied"} => c = Cats(s.log)[m.last + 1]
    /\ p \in {"installing", "installed"} => w = SnapshotOf(s, w.meta.last)

(* A snapshot that is not torn. *)
SnapshotExact(s, sn) == sn # None => sn = SnapshotOf(s, sn.meta.last)

AnswersOK ==
    /\ IsMap(answers) /\ DOMAIN answers = 1 .. LogLen
    /\ \A i \in 1 .. LogLen : \A a \in answers[i] :
          ~a.stray => a.resp = Response(Cats(log)[i - 1], log[i])

(* Maps over the replicas. *)
PerReplica(f) == IsMap(f) /\ DOMAIN f = Replicas

Maps == /\ PerReplica(mem) /\ PerReplica(meta) /\ PerReplica(disk) /\ PerReplica(pc)
        /\ PerReplica(work) /\ PerReplica(builder) /\ PerReplica(snapshot)

LocalInv(r) ==
    /\ ReplicaOK(setup, mem[r], meta[r], disk[r], pc[r], work[r], builder[r],
                 snapshot[r])
    /\ r \notin strays => ReplicaExact(setup, mem[r], meta[r], disk[r], pc[r], work[r])
    /\ r \notin torn => SnapshotExact(setup, snapshot[r])

GroupInv ==
    /\ setup \in Setups
    /\ faults \in 0 .. setup.faults /\ builds \in 0 .. setup.builds
    /\ torn \subseteq Replicas /\ strays \subseteq Replicas
    /\ Maps
    /\ \A r \in Replicas : LocalInv(r)
    /\ AnswersOK
------------------------------------------------------------------------------
(* Facts about a set-up of the group. *)
LEMMA SetupFacts ==
    ASSUME NEW s \in Setups
    PROVE  LogOK(s.log) /\ Len(s.log) \in Nat /\ s.faults \in Nat /\ s.builds \in Nat
BY GroupConstants DEF LogOK

(* The catalog and the meta row of a prefix, in a regular log. *)
LEMMA PrefixFacts ==
    ASSUME RegularLogs, NEW s \in Setups, NEW n \in 0 .. Len(s.log)
    PROVE  /\ Sound(Cats(s.log)[n]) /\ OwnGroups(Cats(s.log)[n]) /\ Tidy(Cats(s.log)[n])
           /\ MetaOf(s.log, n).last = n
<1>1. OwnGroupLog(s.log) /\ NoWrapLog(s.log) /\ LogOK(s.log) /\ Len(s.log) \in Nat
  BY SetupFacts DEF RegularLogs
<1>2. Sound(Cats(s.log)[n]) /\ OwnGroups(Cats(s.log)[n])
  BY <1>1, CatsSound
<1> QED
  BY <1>1, <1>2, MetaSteps DEF Sound

(* The catalog after one more entry, and the meta that goes with it. *)
LEMMA NextPrefix ==
    ASSUME NEW s \in Setups, NEW n \in 0 .. Len(s.log), n < Len(s.log)
    PROVE  LET e == s.log[n + 1]
           IN  /\ Cats(s.log)[n + 1] = IF IsCommand(e) THEN Apply(Cats(s.log)[n], e)
                                       ELSE Cats(s.log)[n]
               /\ MetaOf(s.log, n + 1) = NewMeta(MetaOf(s.log, n), e)
               /\ IsCommand(e) => IsPdCommand(e)
               /\ n + 1 \in 1 .. Len(s.log)
<1>1. LogOK(s.log) /\ Len(s.log) \in Nat
  BY SetupFacts
<1>2. n + 1 \in 1 .. Len(s.log) /\ n \in 0 .. Len(s.log) - 1 /\ (n + 1) - 1 = n
  BY <1>1
<1>3. IsCommand(s.log[n + 1]) => IsPdCommand(s.log[n + 1])
  BY <1>1, <1>2 DEF LogOK, IsCommand, Promise!IsCommand
<1>4. MetaOf(s.log, n + 1) = NewMeta(MetaOf(s.log, n), s.log[n + 1])
  BY <1>1, <1>2, MetaSteps
<1>5. Cats(s.log)[n + 1] = IF IsCommand(s.log[n + 1])
                           THEN Apply(Cats(s.log)[n], s.log[n + 1])
                           ELSE Cats(s.log)[n]
  BY <1>1, <1>2, CatalogsUnfold
<1> QED
  BY <1>2, <1>3, <1>4, <1>5

(* The meta that goes with the next entry counts one more. *)
LEMMA NewMetaType ==
    ASSUME NEW s \in Setups, NEW m \in MetasIn(s), m.last < Len(s.log), NEW e
    PROVE  /\ NewMeta(m, e) \in MetasIn(s) /\ NewMeta(m, e).last = m.last + 1
           /\ m.last \in 0 .. Len(s.log)
<1>1. Len(s.log) \in Nat
  BY SetupFacts
<1> QED
  BY <1>1 DEF MetasIn, NewMeta

(* Rows and their fields. *)
LEMMA RowsFields ==
    /\ \A c, m : /\ Rows(c, m).ranges = c.ranges /\ Rows(c, m).nodes = c.nodes
                 /\ Rows(c, m).meta = m
                 /\ Rows(Rows(c, m), Rows(c, m).meta) = Rows(c, m)
                 /\ \A m2 : [Rows(c, m) EXCEPT !.meta = m2] = Rows(c, m2)
    /\ \A s, c, m : Tidy(c) /\ m \in MetasIn(s) => IsRows(s, Rows(c, m))
    /\ \A s, x : IsSnapshot(s, x) => IsRows(s, Rows(x, x.meta))
BY DEF Rows, Tidy, IsRows, IsSnapshot

(* The meta row that goes with the next entry is right as well. *)
LEMMA NextMeta ==
    ASSUME NEW s \in Setups, NEW m, IsMeta(s, m), m.last < Len(s.log)
    PROVE  /\ IsMeta(s, NewMeta(m, s.log[m.last + 1]))
           /\ NewMeta(m, s.log[m.last + 1]).last = m.last + 1
           /\ m \in MetasIn(s) /\ m.last \in 0 .. Len(s.log)
<1>1. m \in MetasIn(s) /\ m = MetaOf(s.log, m.last)
  BY DEF IsMeta
<1> DEFINE m2 == NewMeta(m, s.log[m.last + 1])
<1>2. m2 \in MetasIn(s) /\ m2.last = m.last + 1 /\ m.last \in 0 .. Len(s.log)
  BY <1>1, NewMetaType
<1>3. MetaOf(s.log, m.last + 1) = m2
  BY <1>1, <1>2, NextPrefix
<1> QED
  BY <1>1, <1>2, <1>3 DEF IsMeta

(* ApplyInMemory and ApplyMetaOnly: the batch holds the rows of the next
   catalog.                                                                *)
LEMMA ApplyKeeps ==
    ASSUME RegularLogs, NEW s \in Setups, NEW c, NEW m, NEW d, NEW w, NEW b, NEW sn,
           ReplicaOK(s, c, m, d, "idle", w, b, sn), m.last < Len(s.log),
           NEW c2, NEW w2,
           LET e == s.log[m.last + 1]
               m2 == NewMeta(m, e)
           IN  IF IsCommand(e)
               THEN /\ c2 = Apply(c, e)
                    /\ w2 = IF Accepts(c, e)
                            THEN WriteBatch(d, c2, e, Response(c, e), m2)
                            ELSE [d EXCEPT !.meta = m2]
               ELSE c2 = c /\ w2 = [d EXCEPT !.meta = m2]
    PROVE  /\ ReplicaOK(s, c2, m, d, "applying", w2, b, sn)
           /\ ReplicaExact(s, c, m, d, "idle", w) =>
                 ReplicaExact(s, c2, m, d, "applying", w2)
<1> DEFINE e == s.log[m.last + 1]
           m2 == NewMeta(m, e)
<1>1. /\ Tidy(c) /\ IsMeta(s, m) /\ IsRows(s, d) /\ d = Rows(c, m)
      /\ (b # None => IsMeta(s, b))
      /\ (sn # None => IsSnapshot(s, sn) /\ IsMeta(s, sn.meta))
  BY DEF ReplicaOK
<1>2. m \in MetasIn(s) /\ m.last \in 0 .. Len(s.log) /\ d.meta = m
  BY <1>1, NextMeta, RowsFields
<1>3. IsCommand(e) => IsPdCommand(e)
  BY <1>2, NextPrefix
<1>4. Tidy(c2) /\ w2 = Rows(c2, m2)
  <2> HIDE DEF e, m2
  <2>1. CASE ~IsCommand(e)
    BY <1>1, <2>1, RowsFields DEF e, m2
  <2>2. CASE IsCommand(e) /\ ~Accepts(c, e)
    <3>1. c2 = Apply(c, e) /\ w2 = [d EXCEPT !.meta = m2]
      BY <2>2 DEF e, m2
    <3> QED
      BY <1>1, <2>2, <3>1, RowsFields DEF Apply
  <2>3. CASE IsCommand(e) /\ Accepts(c, e)
    <3>1. c2 = Apply(c, e) /\ w2 = WriteBatch(d, c2, e, Response(c, e), m2)
      BY <2>3 DEF e, m2
    <3> QED
      BY <1>1, <1>3, <2>3, <3>1, ApplyTidy, BatchExact
  <2> QED
    BY <2>1, <2>2, <2>3
<1>5. ReplicaOK(s, c2, m, d, "applying", w2, b, sn)
  BY <1>1, <1>2, <1>4 DEF ReplicaOK
<1>6. ASSUME ReplicaExact(s, c, m, d, "idle", w)
      PROVE  ReplicaExact(s, c2, m, d, "applying", w2)
  <2>1. c = Cats(s.log)[m.last]
    BY <1>6 DEF ReplicaExact
  <2>2. c2 = Cats(s.log)[m.last + 1]
    BY <1>2, <2>1, NextPrefix
  <2> QED
    BY <1>6, <2>1, <2>2 DEF ReplicaExact
<1> QED
  BY <1>5, <1>6

(* What a batch leaves on disk once it landed: rows of their own meta, which
   counts more entries than before.                                        *)
LEMMA LandedRows ==
    ASSUME NEW s \in Setups, NEW c, NEW m, NEW d, NEW p, NEW w, NEW b, NEW sn,
           ReplicaOK(s, c, m, d, p, w, b, sn), p = "applying" \/ p = "installing"
    PROVE  /\ IsRows(s, Rows(w, w.meta)) /\ Rows(w, w.meta).meta = w.meta
           /\ IsMeta(s, w.meta) /\ w.meta.last \in 0 .. Len(s.log)
           /\ d.meta.last < w.meta.last
<1>0. Len(s.log) \in Nat
  BY SetupFacts
<1>1. CASE p = "applying"
  <2> DEFINE m2 == NewMeta(m, s.log[m.last + 1])
  <2>1. w = Rows(c, m2) /\ m.last < Len(s.log) /\ IsMeta(s, m) /\ Tidy(c) /\ d.meta = m
    BY <1>1 DEF ReplicaOK
  <2>2. IsMeta(s, m2) /\ m2.last = m.last + 1 /\ m.last \in 0 .. Len(s.log)
    BY <2>1, NextMeta
  <2>3. w.meta = m2 /\ Rows(w, w.meta) = Rows(c, m2)
    BY <2>1, RowsFields
  <2> HIDE DEF m2
  <2>4. m2 \in MetasIn(s)
    BY <2>2 DEF IsMeta
  <2>5. IsRows(s, Rows(c, m2)) /\ Rows(c, m2).meta = m2
    BY <2>1, <2>4, RowsFields
  <2>6. m2.last \in 0 .. Len(s.log) /\ m.last < m2.last
    BY <1>0, <2>1, <2>2
  <2> QED
    BY <2>1, <2>2, <2>3, <2>5, <2>6
<1>2. CASE p = "installing"
  <2>1. IsSnapshot(s, w) /\ IsMeta(s, w.meta) /\ m.last < w.meta.last /\ d.meta = m
    BY <1>2 DEF ReplicaOK
  <2> QED
    BY <2>1, RowsFields DEF IsSnapshot, MetasIn
<1> QED
  BY <1>1, <1>2

(* On a replica that did not stray they are those of the entries counted. *)
LEMMA LandedExact ==
    ASSUME NEW s \in Setups, NEW c, NEW m, NEW d, NEW p, NEW w, NEW b, NEW sn,
           ReplicaOK(s, c, m, d, p, w, b, sn), ReplicaExact(s, c, m, d, p, w),
           p = "applying" \/ p = "installing"
    PROVE  Rows(w, w.meta) = RowsOf(s, w.meta.last)
<1>1. CASE p = "applying"
  <2> DEFINE m2 == NewMeta(m, s.log[m.last + 1])
  <2>1. w = Rows(c, m2) /\ m.last < Len(s.log) /\ IsMeta(s, m)
    BY <1>1 DEF ReplicaOK
  <2>2. IsMeta(s, m2) /\ m2.last = m.last + 1
    BY <2>1, NextMeta
  <2>3. w.meta = m2 /\ Rows(w, w.meta) = Rows(c, m2)
    BY <2>1, RowsFields
  <2>4. c = Cats(s.log)[m.last + 1]
    BY <1>1 DEF ReplicaExact
  <2> HIDE DEF m2
  <2> QED
    BY <2>2, <2>3, <2>4 DEF RowsOf, IsMeta
<1>2. CASE p = "installing"
  <2>1. w = SnapshotOf(s, w.meta.last)
    BY <1>2 DEF ReplicaExact
  <2>2. /\ w.ranges = Cats(s.log)[w.meta.last].ranges
        /\ w.nodes = Cats(s.log)[w.meta.last].nodes
        /\ w.meta = MetaOf(s.log, w.meta.last)
    BY <2>1 DEF SnapshotOf
  <2> QED
    BY <2>2 DEF RowsOf, Rows
<1> QED
  BY <1>1, <1>2

(* WriteDurably. *)
LEMMA WriteKeeps ==
    ASSUME NEW s \in Setups, NEW c, NEW m, NEW d, NEW p, NEW w, NEW b, NEW sn,
           ReplicaOK(s, c, m, d, p, w, b, sn), p = "applying" \/ p = "installing",
           NEW d2, d2 = Rows(w, w.meta),
           NEW p2, p2 = IF p = "applying" THEN "applied" ELSE "installed"
    PROVE  /\ ReplicaOK(s, c, m, d2, p2, w, b, sn)
           /\ ReplicaExact(s, c, m, d, p, w) => ReplicaExact(s, c, m, d2, p2, w)
<1>1. IsRows(s, d2) /\ d2.meta = w.meta /\ IsMeta(s, d2.meta)
  BY LandedRows
<1>2. ReplicaOK(s, c, m, d2, p2, w, b, sn)
  BY <1>1 DEF ReplicaOK
<1>3. ASSUME ReplicaExact(s, c, m, d, p, w)
      PROVE  ReplicaExact(s, c, m, d2, p2, w)
  <2>1. d2 = RowsOf(s, d2.meta.last)
    BY <1>1, <1>3, LandedExact
  <2> QED
    BY <1>3, <2>1 DEF ReplicaExact
<1> QED
  BY <1>2, <1>3

(* FailWrite: the batch landed or not. *)
LEMMA FailKeeps ==
    ASSUME NEW s \in Setups, NEW c, NEW m, NEW d, NEW p, NEW w, NEW b, NEW sn,
           ReplicaOK(s, c, m, d, p, w, b, sn), p = "applying" \/ p = "installing",
           NEW d2, d2 = d \/ d2 = Rows(w, w.meta), NEW w2
    PROVE  /\ ReplicaOK(s, c, m, d2, "failed", w2, b, sn)
           /\ ReplicaExact(s, c, m, d, p, w) => ReplicaExact(s, c, m, d2, "failed", w2)
<1>0. IsRows(s, Rows(w, w.meta)) /\ Rows(w, w.meta).meta = w.meta /\ IsMeta(s, w.meta)
  BY LandedRows
<1>1. IsRows(s, d2) /\ IsMeta(s, d2.meta) /\ (d2 # d => d2.meta = w.meta)
  BY <1>0 DEF ReplicaOK
<1>2. ReplicaOK(s, c, m, d2, "failed", w2, b, sn)
  BY <1>1 DEF ReplicaOK
<1>3. ASSUME ReplicaExact(s, c, m, d, p, w)
      PROVE  ReplicaExact(s, c, m, d2, "failed", w2)
  <2>1. Rows(w, w.meta) = RowsOf(s, w.meta.last)
    BY <1>3, LandedExact
  <2>2. d2 = RowsOf(s, d2.meta.last)
    BY <1>1, <1>3, <2>1 DEF ReplicaExact
  <2> QED
    BY <1>3, <2>2 DEF ReplicaExact
<1> QED
  BY <1>2, <1>3

(* CacheMeta. *)
LEMMA CacheKeeps ==
    ASSUME NEW s \in Setups, NEW c, NEW m, NEW d, NEW w, NEW b, NEW sn,
           ReplicaOK(s, c, m, d, "applied", w, b, sn), NEW w2
    PROVE  /\ ReplicaOK(s, c, w.meta, d, "idle", w2, b, sn)
           /\ ReplicaExact(s, c, m, d, "applied", w) =>
                 ReplicaExact(s, c, w.meta, d, "idle", w2)
<1> DEFINE m2 == NewMeta(m, s.log[m.last + 1])
<1>1. w = Rows(c, m2) /\ m.last < Len(s.log) /\ IsMeta(s, m) /\ d = Rows(w, w.meta)
  BY DEF ReplicaOK
<1>2. IsMeta(s, m2) /\ m2.last = m.last + 1
  BY <1>1, NextMeta
<1>3. w.meta = m2 /\ d = Rows(c, m2)
  BY <1>1, RowsFields
<1> HIDE DEF m2
<1>4. ReplicaOK(s, c, w.meta, d, "idle", w2, b, sn)
  BY <1>2, <1>3 DEF ReplicaOK
<1>5. ASSUME ReplicaExact(s, c, m, d, "applied", w)
      PROVE  ReplicaExact(s, c, w.meta, d, "idle", w2)
  BY <1>2, <1>3, <1>5 DEF ReplicaExact
<1> QED
  BY <1>4, <1>5

(* BuilderReadsCatalog: a builder that did not read apart sees the catalog of
   its meta.                                                               *)
LEMMA BuildKeeps ==
    ASSUME NEW s \in Setups, NEW c, NEW m, NEW d, NEW p, NEW w, NEW b, NEW sn,
           ReplicaOK(s, c, m, d, p, w, b, sn), b # None,
           NEW sn2, sn2 = [ranges |-> c.ranges, nodes |-> c.nodes, meta |-> b,
                           next |-> c.next_range_id]
    PROVE  /\ ReplicaOK(s, c, m, d, p, w, None, sn2)
           /\ /\ ReplicaExact(s, c, m, d, p, w) /\ b.last = m.last
              /\ p \notin {"applying", "applied", "failed"}
              => SnapshotExact(s, sn2)
<1>1. Tidy(c) /\ IsMeta(s, b) /\ IsMeta(s, m)
  BY DEF ReplicaOK
<1>2. IsSnapshot(s, sn2) /\ IsMeta(s, sn2.meta)
  BY <1>1 DEF IsSnapshot, Tidy, IsMeta
<1>3. ReplicaOK(s, c, m, d, p, w, None, sn2)
  BY <1>2 DEF ReplicaOK
<1>4. ASSUME ReplicaExact(s, c, m, d, p, w), b.last = m.last,
             p \notin {"applying", "applied", "failed"}
      PROVE  SnapshotExact(s, sn2)
  <2>1. p \in {"idle", "installing", "installed"}
    BY <1>4 DEF ReplicaOK
  <2>2. c = Cats(s.log)[b.last] /\ b = MetaOf(s.log, b.last)
    BY <1>1, <1>4, <2>1 DEF ReplicaExact, IsMeta
  <2>3. sn2 = SnapshotOf(s, sn2.meta.last)
    BY <2>2 DEF SnapshotOf
  <2> QED
    BY <2>3 DEF SnapshotExact
<1> QED
  BY <1>3, <1>4

(* BeginInstall, of a snapshot another replica holds. *)
LEMMA InstallKeeps ==
    ASSUME NEW s \in Setups, NEW c, NEW m, NEW d, NEW w, NEW b, NEW sn,
           ReplicaOK(s, c, m, d, "idle", w, b, sn),
           NEW x, IsSnapshot(s, x), IsMeta(s, x.meta), m.last < x.meta.last
    PROVE  /\ ReplicaOK(s, c, m, d, "installing", x, b, sn)
           /\ ReplicaExact(s, c, m, d, "idle", w) /\ x = SnapshotOf(s, x.meta.last)
              => ReplicaExact(s, c, m, d, "installing", x)
<1>1. d.meta = m
  BY RowsFields DEF ReplicaOK
<1>2. ReplicaOK(s, c, m, d, "installing", x, b, sn)
  BY <1>1 DEF ReplicaOK
<1> QED
  BY <1>2 DEF ReplicaExact

(* What load leaves of the rows it was given. *)
LEMMA LoadFields ==
    \A ranges, nodes, hint, rank :
        /\ Load(ranges, nodes, hint, rank).ranges = ranges
        /\ Load(ranges, nodes, hint, rank).nodes = nodes
BY DEF Load

(* SwapCatalog: the catalog of the snapshot is found again from its rows. *)
LEMMA SwapKeeps ==
    ASSUME RegularLogs, NEW s \in Setups, NEW c, NEW m, NEW d, NEW w, NEW b, NEW sn,
           ReplicaOK(s, c, m, d, "installed", w, b, sn),
           NEW c2, c2 = Load(w.ranges, w.nodes, w.next,
                             [i \in DOMAIN w.ranges |-> w.ranges[i].start_key]),
           NEW w2
    PROVE  /\ ReplicaOK(s, c2, w.meta, d, "idle", w2, b, w)
           /\ ReplicaExact(s, c, m, d, "installed", w) =>
                 ReplicaExact(s, c2, w.meta, d, "idle", w2) /\ SnapshotExact(s, w)
<1>1. IsSnapshot(s, w) /\ IsMeta(s, w.meta) /\ d = Rows(w, w.meta)
  BY DEF ReplicaOK
<1>2. /\ TidyRanges(w.ranges) /\ TidyNodes(w.nodes) /\ w.next \in RangeIds
      /\ w.meta \in MetasIn(s) /\ w.meta.last \in 0 .. Len(s.log)
  BY <1>1 DEF IsSnapshot, MetasIn
<1>3. Tidy(c2) /\ c2.ranges = w.ranges /\ c2.nodes = w.nodes
  BY <1>2, LoadTidy, LoadFields
<1>4. d = Rows(c2, w.meta)
  BY <1>1, <1>3 DEF Rows
<1>5. ReplicaOK(s, c2, w.meta, d, "idle", w2, b, w)
  BY <1>1, <1>2, <1>3, <1>4 DEF ReplicaOK
<1>6. ASSUME ReplicaExact(s, c, m, d, "installed", w)
      PROVE  ReplicaExact(s, c2, w.meta, d, "idle", w2) /\ SnapshotExact(s, w)
  <2> DEFINE k == Cats(s.log)[w.meta.last]
             rank == [i \in DOMAIN w.ranges |-> w.ranges[i].start_key]
  <2>1. w = SnapshotOf(s, w.meta.last)
    BY <1>6 DEF ReplicaExact
  <2>2. w.ranges = k.ranges /\ w.nodes = k.nodes /\ w.next = k.next_range_id
    BY <2>1 DEF SnapshotOf
  <2>3. Sound(k) /\ OwnGroups(k)
    BY <1>2, PrefixFacts
  <2>4. \A i \in DOMAIN k.ranges : rank[i] \in Nat
    BY <1>2, <2>2 DEF TidyRanges, IsDescriptor
  <2>5. c2 = Load(k.ranges, k.nodes, k.next_range_id, rank)
    BY <2>2
  <2> HIDE DEF k, rank
  <2>6. c2 = k
    BY <2>3, <2>4, <2>5, LoadSame
  <2> QED
    BY <1>6, <2>1, <2>6 DEF ReplicaExact, SnapshotExact, k
<1> QED
  BY <1>5, <1>6

(* Crash. *)
LEMMA CrashKeeps ==
    ASSUME NEW s \in Setups, NEW c, NEW m, NEW d, NEW p, NEW w, NEW b, NEW sn,
           ReplicaOK(s, c, m, d, p, w, b, sn)
    PROVE  /\ ReplicaOK(s, NewCatalog, NoMeta, d, "down", None, None, None)
           /\ ReplicaExact(s, c, m, d, p, w) =>
                 ReplicaExact(s, NewCatalog, NoMeta, d, "down", None)
<1>1. IsMeta(s, NoMeta)
  <2>1. Len(s.log) \in Nat
    BY SetupFacts
  <2>2. MetaOf(s.log, 0) = NoMeta
    BY <2>1, MetaSteps
  <2> QED
    BY <2>1, <2>2 DEF NoMeta, MetasIn, IsMeta
<1>2. Tidy(NewCatalog)
  BY IdLimitAssumption
     DEF Tidy, TidyRanges, TidyNodes, IsMap, NewCatalog, Empty, RangeIds
<1>3. ReplicaOK(s, NewCatalog, NoMeta, d, "down", None, None, None)
  BY <1>1, <1>2 DEF ReplicaOK
<1> QED
  BY <1>3 DEF ReplicaExact

(* Open: where the counter can be told from the rows, the catalog of the disk
   is found again.                                                         *)
LEMMA OpenKeeps ==
    ASSUME RegularLogs, NEW s \in Setups, NEW c, NEW m, NEW d, NEW w, NEW b, NEW sn,
           ReplicaOK(s, c, m, d, "down", w, b, sn)
    PROVE  /\ ReplicaOK(s, Rehydrate(d), d.meta, d, "idle", w, b, sn)
           /\ /\ CounterHint(d) = Cats(s.log)[d.meta.last].next_range_id
              /\ ReplicaExact(s, c, m, d, "down", w)
              => ReplicaExact(s, Rehydrate(d), d.meta, d, "idle", w)
<1> DEFINE c2 == Rehydrate(d)
           hint == CounterHint(d)
           rank == [i \in DOMAIN d.ranges |-> i]
<1>1. /\ IsRows(s, d) /\ TidyRanges(d.ranges) /\ TidyNodes(d.nodes)
      /\ d.meta \in MetasIn(s) /\ d.meta.last \in 0 .. Len(s.log)
      /\ DOMAIN d.ranges \subseteq RangeIds
  BY DEF ReplicaOK, IsRows, MetasIn, TidyRanges
<1>2. hint \in RangeIds
  <2>1. 1 \in RangeIds /\ IdLimit - 1 \in Nat
    BY IdLimitAssumption DEF RangeIds
  <2>2. DOMAIN d.ranges # {} => Max(DOMAIN d.ranges) \in RangeIds
    BY <1>1, <2>1, MaxNat DEF RangeIds
  <2> QED
    BY <2>1, <2>2, IdTypes DEF CounterHint
<1>3. c2 = Load(d.ranges, d.nodes, hint, rank)
  BY DEF Rehydrate
<1> HIDE DEF c2, hint, rank
<1>4. Tidy(c2) /\ c2.ranges = d.ranges /\ c2.nodes = d.nodes
  BY <1>1, <1>2, <1>3, LoadTidy, LoadFields
<1>5. d = Rows(c2, d.meta)
  BY <1>1, <1>4 DEF Rows, IsRows
<1>6. ReplicaOK(s, c2, d.meta, d, "idle", w, b, sn)
  BY <1>1, <1>4, <1>5 DEF ReplicaOK
<1>7. ASSUME hint = Cats(s.log)[d.meta.last].next_range_id,
             ReplicaExact(s, c, m, d, "down", w)
      PROVE  ReplicaExact(s, c2, d.meta, d, "idle", w)
  <2> DEFINE k == Cats(s.log)[d.meta.last]
  <2>1. d = RowsOf(s, d.meta.last)
    BY <1>7 DEF ReplicaExact
  <2>2. d.ranges = k.ranges /\ d.nodes = k.nodes
    BY <2>1, RowsFields DEF RowsOf
  <2>3. Sound(k) /\ OwnGroups(k)
    BY <1>1, PrefixFacts
  <2>4. \A i \in DOMAIN k.ranges : rank[i] \in Nat
    BY <1>1, <2>2 DEF rank, RangeIds
  <2>5. c2 = Load(k.ranges, k.nodes, hint, rank) /\ hint = k.next_range_id
    BY <1>3, <1>7, <2>2
  <2> HIDE DEF k
  <2>6. c2 = k
    BY <2>3, <2>4, <2>5, LoadSame
  <2> QED
    BY <1>7, <2>1, <2>6 DEF ReplicaExact, k
<1> QED
  BY <1>6, <1>7 DEF c2, hint
------------------------------------------------------------------------------
(* Every step keeps the invariant. *)

(* g is f but for replica r. *)
Only(f, g, r) == PerReplica(g) /\ \A q \in Replicas : q # r => g[q] = f[q]

(* The set T is S but for replica r. *)
OnlyIn(S, T, r) == T \subseteq Replicas /\ \A q \in Replicas : q # r => (q \in T <=> q \in S)

(* An EXCEPT at one replica, and no change, touch that replica only. *)
LEMMA OnlyOne ==
    ASSUME NEW f, PerReplica(f), NEW r \in Replicas
    PROVE  /\ Only(f, f, r)
           /\ \A x : Only(f, [f EXCEPT ![r] = x], r) /\ [f EXCEPT ![r] = x][r] = x
BY DEF Only, PerReplica, IsMap

(* One replica joins or leaves a set. *)
LEMMA OnlyOneIn ==
    ASSUME NEW S, S \subseteq Replicas, NEW r \in Replicas
    PROVE  OnlyIn(S, S, r) /\ OnlyIn(S, S \cup {r}, r) /\ OnlyIn(S, S \ {r}, r)
BY DEF OnlyIn

(* The answers stay right when neither they nor the set-up change. *)
LEMMA SameAnswers ==
    ASSUME AnswersOK, UNCHANGED <<setup, answers>>
    PROVE  AnswersOK'
BY DEF AnswersOK, log, LogLen

(* A step of replica r has to be looked at for r only. *)
LEMMA OneReplica ==
    ASSUME GroupInv, NEW r \in Replicas, UNCHANGED setup,
           faults' \in 0 .. setup.faults, builds' \in 0 .. setup.builds,
           OnlyIn(torn, torn', r), OnlyIn(strays, strays', r),
           Only(mem, mem', r), Only(meta, meta', r), Only(disk, disk', r),
           Only(pc, pc', r), Only(work, work', r), Only(builder, builder', r),
           Only(snapshot, snapshot', r), AnswersOK', LocalInv(r)'
    PROVE  GroupInv'
<1>1. ASSUME NEW q \in Replicas PROVE LocalInv(q)'
  <2>1. CASE q = r
    BY <2>1
  <2>2. CASE q # r
    <3>1. /\ mem'[q] = mem[q] /\ meta'[q] = meta[q] /\ disk'[q] = disk[q]
          /\ pc'[q] = pc[q] /\ work'[q] = work[q] /\ builder'[q] = builder[q]
          /\ snapshot'[q] = snapshot[q]
          /\ (q \in strays' <=> q \in strays) /\ (q \in torn' <=> q \in torn)
      BY <2>2 DEF Only, OnlyIn
    <3> QED
      BY <3>1 DEF GroupInv, LocalInv
  <2> QED
    BY <2>1, <2>2
<1> QED
  BY <1>1 DEF GroupInv, Only, OnlyIn, Maps

(* The empty group. *)
LEMMA GroupInit == RegularLogs /\ Init => GroupInv
<1> SUFFICES ASSUME RegularLogs, Init PROVE GroupInv
  OBVIOUS
<1>1. setup \in Setups /\ LogOK(setup.log) /\ Len(setup.log) \in Nat
      /\ setup.faults \in Nat /\ setup.builds \in Nat
  BY SetupFacts DEF Init
<1>2. Tidy(NewCatalog)
  BY IdLimitAssumption
     DEF Tidy, TidyRanges, TidyNodes, IsMap, NewCatalog, Empty, RangeIds
<1>3. NoMeta \in MetasIn(setup) /\ NoMeta.last = 0
  BY <1>1 DEF NoMeta, MetasIn
<1>4. Cats(setup.log)[0] = NewCatalog /\ MetaOf(setup.log, 0) = NoMeta
  BY <1>1, CatalogsUnfold, MetaSteps
<1>5. /\ IsRows(setup, Rows(NewCatalog, NoMeta)) /\ Rows(NewCatalog, NoMeta).meta = NoMeta
      /\ Rows(NewCatalog, NoMeta) = RowsOf(setup, 0)
  BY <1>2, <1>3, <1>4, RowsFields DEF RowsOf
<1>6. ReplicaOK(setup, NewCatalog, NoMeta, Rows(NewCatalog, NoMeta), "idle", None,
                None, None)
  BY <1>2, <1>3, <1>4, <1>5 DEF ReplicaOK, IsMeta
<1>7. ReplicaExact(setup, NewCatalog, NoMeta, Rows(NewCatalog, NoMeta), "idle", None)
  BY <1>3, <1>4, <1>5 DEF ReplicaExact
<1>8. AnswersOK
  BY DEF Init, AnswersOK, IsMap
<1>9. Maps /\ faults = 0 /\ builds = 0 /\ torn = {} /\ strays = {}
  BY DEF Init, Maps, PerReplica, IsMap
<1>10. \A r \in Replicas :
           /\ mem[r] = NewCatalog /\ meta[r] = NoMeta
           /\ disk[r] = Rows(NewCatalog, NoMeta) /\ pc[r] = "idle" /\ work[r] = None
           /\ builder[r] = None /\ snapshot[r] = None
  BY DEF Init
<1> QED
  BY <1>1, <1>6, <1>7, <1>8, <1>9, <1>10 DEF GroupInv, LocalInv, SnapshotExact

(* ApplyInMemory and ApplyMetaOnly. *)
LEMMA ApplyStep ==
    ASSUME RegularLogs, GroupInv, NEW r \in Replicas, ApplyInMemory(r) \/ ApplyMetaOnly(r)
    PROVE  GroupInv'
<1> DEFINE e == setup.log[meta[r].last + 1]
           m2 == NewMeta(meta[r], e)
<1>0. /\ setup \in Setups
      /\ PerReplica(mem) /\ PerReplica(meta) /\ PerReplica(disk) /\ PerReplica(pc)
      /\ PerReplica(work) /\ PerReplica(builder) /\ PerReplica(snapshot)
      /\ LocalInv(r) /\ AnswersOK /\ torn \subseteq Replicas /\ strays \subseteq Replicas
      /\ faults \in 0 .. setup.faults /\ builds \in 0 .. setup.builds
  BY DEF GroupInv, Maps
<1>1. /\ pc[r] = "idle"
      /\ meta[r].last < Len(setup.log) /\ pc' = [pc EXCEPT ![r] = "applying"]
      /\ UNCHANGED <<setup, meta, disk, builder, snapshot, faults, builds, torn, strays>>
  BY DEF ApplyInMemory, ApplyMetaOnly, LogLen, log
<1>2. /\ Only(mem, mem', r) /\ Only(work, work', r)
      /\ IF IsCommand(e)
         THEN /\ mem'[r] = Apply(mem[r], e)
              /\ work'[r] = IF Accepts(mem[r], e)
                            THEN WriteBatch(disk[r], mem'[r], e, Response(mem[r], e), m2)
                            ELSE [disk[r] EXCEPT !.meta = m2]
         ELSE mem'[r] = mem[r] /\ work'[r] = [disk[r] EXCEPT !.meta = m2]
  <2>1. CASE ApplyInMemory(r)
    <3> DEFINE w2 == IF Accepts(mem[r], e)
                     THEN WriteBatch(disk[r], mem'[r], e, Response(mem[r], e), m2)
                     ELSE [disk[r] EXCEPT !.meta = m2]
    <3>1. IsCommand(e)
      BY <2>1 DEF ApplyInMemory, NextEntry, log, IsCommand
    <3>2. /\ mem' = [mem EXCEPT ![r] = Apply(mem[r], e)]
          /\ work' = [work EXCEPT ![r] = w2]
      BY <2>1 DEF ApplyInMemory, NextEntry, log
    <3> HIDE DEF e, m2, w2
    <3>3. Only(mem, mem', r) /\ mem'[r] = Apply(mem[r], e)
      BY <1>0, <3>2, OnlyOne
    <3>4. /\ Only(work, work', r)
          /\ work'[r] = w2
      BY <1>0, <3>2, OnlyOne
    <3> QED
      BY <3>1, <3>3, <3>4 DEF w2
  <2>2. CASE ApplyMetaOnly(r)
    <3>1. ~IsCommand(e)
      BY <2>2 DEF ApplyMetaOnly, NextEntry, log, IsCommand
    <3>2. mem' = mem /\ work' = [work EXCEPT ![r] = [disk[r] EXCEPT !.meta = m2]]
      BY <2>2 DEF ApplyMetaOnly, NextEntry, log
    <3> HIDE DEF e, m2
    <3> QED
      BY <1>0, <3>1, <3>2, OnlyOne
  <2> QED
    BY <2>1, <2>2
<1>3. /\ ReplicaOK(setup, mem'[r], meta[r], disk[r], "applying", work'[r], builder[r],
                   snapshot[r])
      /\ r \notin strays =>
            ReplicaExact(setup, mem'[r], meta[r], disk[r], "applying", work'[r])
  BY <1>0, <1>1, <1>2, ApplyKeeps DEF LocalInv
<1>4. AnswersOK'
  <2>1. CASE ApplyMetaOnly(r)
    BY <1>0, <2>1, SameAnswers DEF ApplyMetaOnly
  <2>2. CASE ApplyInMemory(r)
    <3> DEFINE a0 == [resp |-> Response(mem[r], e), stray |-> r \in strays]
    <3>1. answers' = [answers EXCEPT ![m2.last] = @ \cup {a0}]
      BY <2>2 DEF ApplyInMemory, NextEntry, log
    <3>2. /\ m2.last = meta[r].last + 1 /\ meta[r].last \in 0 .. Len(setup.log)
          /\ Len(setup.log) \in Nat
      BY <1>0, <1>1, NextMeta, SetupFacts DEF ReplicaOK, LocalInv
    <3>3. r \notin strays => mem[r] = Cats(setup.log)[meta[r].last]
      BY <1>0, <1>1 DEF ReplicaExact, LocalInv
    <3> HIDE DEF m2
    <3>4. /\ IsMap(answers') /\ DOMAIN answers' = 1 .. Len(setup.log)
          /\ \A i \in 1 .. Len(setup.log) :
                IF i = m2.last THEN answers'[i] = answers[i] \cup {a0}
                ELSE answers'[i] = answers[i]
      <4> HIDE DEF a0
      <4> QED
        BY <1>0, <3>1 DEF AnswersOK, IsMap, LogLen, log
    <3>5. ASSUME NEW i \in 1 .. Len(setup.log), NEW a \in answers'[i], ~a.stray
          PROVE  a.resp = Response(Cats(setup.log)[i - 1], setup.log[i])
      <4>1. CASE a \in answers[i]
        BY <1>0, <3>5, <4>1 DEF AnswersOK, LogLen, log
      <4>2. CASE a \notin answers[i]
        <5>1. i = m2.last /\ a = a0
          BY <3>4, <3>5, <4>2
        <5>2. i = meta[r].last + 1 /\ i - 1 = meta[r].last
          BY <3>2, <5>1
        <5>3. r \notin strays /\ a.resp = Response(mem[r], e)
          BY <3>5, <5>1
        <5> QED
          BY <3>3, <5>2, <5>3
      <4> QED
        BY <4>1, <4>2
    <3> QED
      BY <1>1, <3>4, <3>5 DEF AnswersOK, LogLen, log
  <2> QED
    BY <2>1, <2>2
<1>5. pc'[r] = "applying" /\ Only(pc, pc', r)
  BY <1>0, <1>1, OnlyOne
<1>6. /\ Only(meta, meta', r) /\ Only(disk, disk', r) /\ Only(builder, builder', r)
      /\ Only(snapshot, snapshot', r) /\ OnlyIn(torn, torn', r) /\ OnlyIn(strays, strays', r)
  BY <1>0, <1>1, OnlyOne DEF OnlyIn
<1>7. LocalInv(r)'
  BY <1>0, <1>1, <1>3, <1>5 DEF LocalInv
<1> QED
  BY <1>0, <1>1, <1>2, <1>4, <1>5, <1>6, <1>7, OneReplica

(* What the invariant says at a replica. *)
LEMMA AtReplica ==
    ASSUME GroupInv, NEW r \in Replicas
    PROVE  /\ setup \in Setups /\ setup.faults \in Nat /\ setup.builds \in Nat
           /\ PerReplica(mem) /\ PerReplica(meta) /\ PerReplica(disk) /\ PerReplica(pc)
           /\ PerReplica(work) /\ PerReplica(builder) /\ PerReplica(snapshot)
           /\ ReplicaOK(setup, mem[r], meta[r], disk[r], pc[r], work[r], builder[r],
                        snapshot[r])
           /\ r \notin strays =>
                 ReplicaExact(setup, mem[r], meta[r], disk[r], pc[r], work[r])
           /\ r \notin torn => SnapshotExact(setup, snapshot[r])
           /\ AnswersOK /\ torn \subseteq Replicas /\ strays \subseteq Replicas
           /\ OnlyIn(torn, torn, r) /\ OnlyIn(strays, strays, r)
           /\ faults \in 0 .. setup.faults /\ builds \in 0 .. setup.builds
BY SetupFacts DEF GroupInv, Maps, LocalInv, OnlyIn

(* WriteDurably. *)
LEMMA WriteStep ==
    ASSUME GroupInv, NEW r \in Replicas, WriteDurably(r)
    PROVE  GroupInv'
<1> DEFINE d2 == Rows(work[r], work[r].meta)
           p2 == IF pc[r] = "applying" THEN "applied" ELSE "installed"
<1>1. /\ pc[r] = "applying" \/ pc[r] = "installing"
      /\ disk' = [disk EXCEPT ![r] = d2] /\ pc' = [pc EXCEPT ![r] = p2]
      /\ UNCHANGED <<setup, mem, meta, work, builder, snapshot, answers, faults, builds,
                     torn, strays>>
  BY DEF WriteDurably
<1>2. /\ ReplicaOK(setup, mem[r], meta[r], d2, p2, work[r], builder[r], snapshot[r])
      /\ r \notin strays =>
            ReplicaExact(setup, mem[r], meta[r], d2, p2, work[r])
  BY <1>1, AtReplica, WriteKeeps
<1> HIDE DEF d2, p2
<1>3. Only(disk, disk', r) /\ disk'[r] = d2 /\ Only(pc, pc', r) /\ pc'[r] = p2
  BY <1>1, AtReplica, OnlyOne
<1>4. /\ Only(mem, mem', r) /\ Only(meta, meta', r) /\ Only(work, work', r)
      /\ Only(builder, builder', r) /\ Only(snapshot, snapshot', r)
  BY <1>1, AtReplica, OnlyOne
<1>5. LocalInv(r)'
  BY <1>1, <1>2, <1>3, AtReplica DEF LocalInv
<1>6. /\ AnswersOK' /\ faults' \in 0 .. setup.faults /\ builds' \in 0 .. setup.builds
      /\ OnlyIn(torn, torn', r) /\ OnlyIn(strays, strays', r)
  BY <1>1, AtReplica, SameAnswers
<1> QED
  BY <1>1, <1>3, <1>4, <1>5, <1>6, OneReplica

(* CacheMeta. *)
LEMMA CacheStep ==
    ASSUME RegularLogs, GroupInv, NEW r \in Replicas, CacheMeta(r)
    PROVE  GroupInv'
<1> DEFINE m2 == work[r].meta
<1>1. /\ pc[r] = "applied" /\ meta' = [meta EXCEPT ![r] = m2]
      /\ work' = [work EXCEPT ![r] = None] /\ pc' = [pc EXCEPT ![r] = "idle"]
      /\ UNCHANGED <<setup, mem, disk, builder, snapshot, answers, faults, builds, torn, strays>>
  BY DEF CacheMeta
<1>2. /\ ReplicaOK(setup, mem[r], m2, disk[r], "idle", None, builder[r], snapshot[r])
      /\ r \notin strays =>
            ReplicaExact(setup, mem[r], m2, disk[r], "idle", None)
  BY <1>1, AtReplica, CacheKeeps
<1> HIDE DEF m2
<1>3. /\ Only(meta, meta', r) /\ meta'[r] = m2 /\ Only(work, work', r) /\ work'[r] = None
      /\ Only(pc, pc', r) /\ pc'[r] = "idle"
  BY <1>1, AtReplica, OnlyOne
<1>4. /\ Only(mem, mem', r) /\ Only(disk, disk', r) /\ Only(builder, builder', r)
      /\ Only(snapshot, snapshot', r)
  BY <1>1, AtReplica, OnlyOne
<1>5. LocalInv(r)'
  BY <1>1, <1>2, <1>3, AtReplica DEF LocalInv
<1>6. /\ AnswersOK' /\ faults' \in 0 .. setup.faults /\ builds' \in 0 .. setup.builds
      /\ OnlyIn(torn, torn', r) /\ OnlyIn(strays, strays', r)
  BY <1>1, AtReplica, SameAnswers
<1> QED
  BY <1>1, <1>3, <1>4, <1>5, <1>6, OneReplica

(* FailWrite. *)
LEMMA FailStep ==
    ASSUME GroupInv, NEW r \in Replicas, FailWrite(r)
    PROVE  GroupInv'
<1>1. /\ pc[r] = "applying" \/ pc[r] = "installing"
      /\ work' = [work EXCEPT ![r] = None] /\ pc' = [pc EXCEPT ![r] = "failed"]
      /\ faults < setup.faults /\ faults' = faults + 1
      /\ UNCHANGED <<setup, mem, meta, builder, snapshot, answers, builds, torn, strays>>
  BY DEF FailWrite
<1>2. faults' \in 0 .. setup.faults
  <2>1. setup.faults \in Nat /\ faults \in 0 .. setup.faults
    BY AtReplica
  <2> QED
    BY <1>1, <2>1
<1>3. Only(disk, disk', r) /\ (disk'[r] = disk[r] \/ disk'[r] = Rows(work[r], work[r].meta))
  <2> DEFINE d2 == Rows(work[r], work[r].meta)
  <2>1. disk' = disk \/ disk' = [disk EXCEPT ![r] = d2]
    BY DEF FailWrite
  <2> HIDE DEF d2
  <2>2. PerReplica(disk)
    BY AtReplica
  <2>3. Only(disk, disk', r) /\ (disk'[r] = disk[r] \/ disk'[r] = d2)
    BY <2>1, <2>2, OnlyOne
  <2> QED
    BY <2>3 DEF d2
<1>4. /\ ReplicaOK(setup, mem[r], meta[r], disk'[r], "failed", None, builder[r],
                   snapshot[r])
      /\ r \notin strays =>
            ReplicaExact(setup, mem[r], meta[r], disk'[r], "failed", None)
  BY <1>1, <1>3, AtReplica, FailKeeps
<1>5. /\ Only(work, work', r) /\ work'[r] = None
      /\ Only(pc, pc', r) /\ pc'[r] = "failed"
  BY <1>1, AtReplica, OnlyOne
<1>6. /\ Only(mem, mem', r) /\ Only(meta, meta', r) /\ Only(builder, builder', r)
      /\ Only(snapshot, snapshot', r)
  BY <1>1, AtReplica, OnlyOne
<1>7. LocalInv(r)'
  BY <1>1, <1>4, <1>5, AtReplica DEF LocalInv
<1>8. /\ AnswersOK' /\ builds' \in 0 .. setup.builds
      /\ OnlyIn(torn, torn', r) /\ OnlyIn(strays, strays', r)
  BY <1>1, AtReplica, SameAnswers
<1> QED
  BY <1>1, <1>2, <1>3, <1>5, <1>6, <1>7, <1>8, OneReplica

(* BuilderReadsMeta. *)
LEMMA ReadMetaStep ==
    ASSUME GroupInv, NEW r \in Replicas, BuilderReadsMeta(r)
    PROVE  GroupInv'
<1>1. /\ builder[r] = None /\ pc[r] # "down" /\ builds < setup.builds /\ builds' = builds + 1
      /\ builder' = [builder EXCEPT ![r] = meta[r]]
      /\ UNCHANGED <<setup, mem, meta, disk, pc, work, snapshot, answers, faults, torn,
                     strays>>
  BY DEF BuilderReadsMeta
<1>2. ReplicaOK(setup, mem[r], meta[r], disk[r], pc[r], work[r], meta[r], snapshot[r])
  BY <1>1, AtReplica DEF ReplicaOK
<1>3. Only(builder, builder', r) /\ builder'[r] = meta[r]
  BY <1>1, AtReplica, OnlyOne
<1>4. /\ Only(mem, mem', r) /\ Only(meta, meta', r) /\ Only(disk, disk', r)
      /\ Only(pc, pc', r) /\ Only(work, work', r) /\ Only(snapshot, snapshot', r)
  BY <1>1, AtReplica, OnlyOne
<1>5. LocalInv(r)'
  BY <1>1, <1>2, <1>3, AtReplica DEF LocalInv
<1>6. /\ AnswersOK' /\ faults' \in 0 .. setup.faults /\ builds' \in 0 .. setup.builds
      /\ OnlyIn(torn, torn', r) /\ OnlyIn(strays, strays', r)
  BY <1>1, AtReplica, SameAnswers
<1> QED
  BY <1>1, <1>3, <1>4, <1>5, <1>6, OneReplica

(* BuilderReadsCatalog. *)
LEMMA BuildStep ==
    ASSUME GroupInv, NEW r \in Replicas, BuilderReadsCatalog(r)
    PROVE  GroupInv'
<1> DEFINE sn2 == [ranges |-> mem[r].ranges, nodes |-> mem[r].nodes,
                   meta |-> builder[r], next |-> mem[r].next_range_id]
<1>1. /\ builder[r] # None /\ snapshot' = [snapshot EXCEPT ![r] = sn2]
      /\ builder' = [builder EXCEPT ![r] = None]
      /\ torn' = IF ReadApart(r) \/ r \in strays THEN torn \cup {r} ELSE torn \ {r}
      /\ UNCHANGED <<setup, mem, meta, disk, pc, work, answers, faults, builds, strays>>
  BY DEF BuilderReadsCatalog
<1>2. /\ ReplicaOK(setup, mem[r], meta[r], disk[r], pc[r], work[r], None, sn2)
      /\ /\ ReplicaExact(setup, mem[r], meta[r], disk[r], pc[r], work[r])
         /\ builder[r].last = meta[r].last /\ pc[r] \notin {"applying", "applied", "failed"}
         => SnapshotExact(setup, sn2)
  BY <1>1, AtReplica, BuildKeeps
<1> HIDE DEF sn2
<1>3. r \notin torn' => SnapshotExact(setup, sn2)
  <2> SUFFICES ASSUME r \notin torn' PROVE SnapshotExact(setup, sn2)
    OBVIOUS
  <2>1. ~ReadApart(r) /\ r \notin strays
    BY <1>1
  <2> QED
    BY <1>2, <2>1, AtReplica DEF ReadApart
<1>4. /\ Only(snapshot, snapshot', r) /\ snapshot'[r] = sn2
      /\ Only(builder, builder', r) /\ builder'[r] = None
  BY <1>1, AtReplica, OnlyOne
<1>5. /\ Only(mem, mem', r) /\ Only(meta, meta', r) /\ Only(disk, disk', r)
      /\ Only(pc, pc', r) /\ Only(work, work', r)
  BY <1>1, AtReplica, OnlyOne
<1>6. LocalInv(r)'
  BY <1>1, <1>2, <1>3, <1>4, AtReplica DEF LocalInv
<1>7. /\ AnswersOK' /\ faults' \in 0 .. setup.faults /\ builds' \in 0 .. setup.builds
      /\ OnlyIn(torn, torn', r) /\ OnlyIn(strays, strays', r)
  BY <1>1, AtReplica, SameAnswers, OnlyOneIn
<1> QED
  BY <1>1, <1>4, <1>5, <1>6, <1>7, OneReplica

(* BeginInstall. *)
LEMMA InstallStep ==
    ASSUME GroupInv, NEW r \in Replicas, NEW q \in Replicas, BeginInstall(r, q)
    PROVE  GroupInv'
<1> DEFINE x == snapshot[q]
<1>1. /\ pc[r] = "idle"
      /\ x # None /\ x.meta.last > meta[r].last
      /\ work' = [work EXCEPT ![r] = x] /\ pc' = [pc EXCEPT ![r] = "installing"]
      /\ strays' = IF q \in torn THEN strays \cup {r} ELSE strays
      /\ UNCHANGED <<setup, mem, meta, disk, builder, snapshot, answers, faults, builds,
                     torn>>
  BY DEF BeginInstall
<1>2. /\ IsSnapshot(setup, x) /\ IsMeta(setup, x.meta)
      /\ q \notin torn => x = SnapshotOf(setup, x.meta.last)
  <2>1. /\ ReplicaOK(setup, mem[q], meta[q], disk[q], pc[q], work[q], builder[q], x)
        /\ q \notin torn => SnapshotExact(setup, x)
    BY AtReplica
  <2> HIDE DEF x
  <2> QED
    BY <1>1, <2>1 DEF ReplicaOK, SnapshotExact
<1> HIDE DEF x
<1>3. meta[r].last < x.meta.last
  <2>1. meta[r] \in MetasIn(setup) /\ x.meta \in MetasIn(setup) /\ Len(setup.log) \in Nat
    BY <1>2, AtReplica, SetupFacts DEF ReplicaOK, IsSnapshot, IsMeta
  <2> QED
    BY <1>1, <2>1 DEF MetasIn
<1>4. /\ ReplicaOK(setup, mem[r], meta[r], disk[r], "installing", x, builder[r],
                   snapshot[r])
      /\ r \notin strays' =>
            ReplicaExact(setup, mem[r], meta[r], disk[r], "installing", x)
  BY <1>1, <1>2, <1>3, AtReplica, InstallKeeps
<1>5. /\ Only(work, work', r) /\ work'[r] = x
      /\ Only(pc, pc', r) /\ pc'[r] = "installing"
  BY <1>1, AtReplica, OnlyOne
<1>6. /\ Only(mem, mem', r) /\ Only(meta, meta', r) /\ Only(disk, disk', r)
      /\ Only(builder, builder', r) /\ Only(snapshot, snapshot', r)
  BY <1>1, AtReplica, OnlyOne
<1>7. LocalInv(r)'
  BY <1>1, <1>4, <1>5, AtReplica DEF LocalInv
<1>8. /\ AnswersOK' /\ faults' \in 0 .. setup.faults /\ builds' \in 0 .. setup.builds
      /\ OnlyIn(torn, torn', r) /\ OnlyIn(strays, strays', r)
  BY <1>1, AtReplica, SameAnswers, OnlyOneIn
<1> QED
  BY <1>1, <1>5, <1>6, <1>7, <1>8, OneReplica

(* SwapCatalog. *)
LEMMA SwapStep ==
    ASSUME RegularLogs, GroupInv, NEW r \in Replicas, SwapCatalog(r)
    PROVE  GroupInv'
<1> DEFINE w == work[r]
           c2 == Load(w.ranges, w.nodes, w.next,
                      [i \in DOMAIN w.ranges |-> w.ranges[i].start_key])
<1>1. /\ pc[r] = "installed" /\ mem' = [mem EXCEPT ![r] = c2]
      /\ meta' = [meta EXCEPT ![r] = w.meta] /\ snapshot' = [snapshot EXCEPT ![r] = w]
      /\ work' = [work EXCEPT ![r] = None] /\ pc' = [pc EXCEPT ![r] = "idle"]
      /\ torn' = IF r \in strays THEN torn \cup {r} ELSE torn \ {r}
      /\ UNCHANGED <<setup, disk, builder, answers, faults, builds, strays>>
  BY DEF SwapCatalog
<1>2. /\ ReplicaOK(setup, c2, w.meta, disk[r], "idle", None, builder[r], w)
      /\ r \notin strays =>
            ReplicaExact(setup, c2, w.meta, disk[r], "idle", None) /\ SnapshotExact(setup, w)
  BY <1>1, AtReplica, SwapKeeps
<1> HIDE DEF w, c2
<1>3. /\ Only(mem, mem', r) /\ mem'[r] = c2 /\ Only(meta, meta', r) /\ meta'[r] = w.meta
      /\ Only(snapshot, snapshot', r) /\ snapshot'[r] = w
      /\ Only(work, work', r) /\ work'[r] = None /\ Only(pc, pc', r) /\ pc'[r] = "idle"
  BY <1>1, AtReplica, OnlyOne
<1>4. Only(disk, disk', r) /\ Only(builder, builder', r)
  BY <1>1, AtReplica, OnlyOne
<1>5. LocalInv(r)'
  BY <1>1, <1>2, <1>3, AtReplica DEF LocalInv
<1>6. /\ AnswersOK' /\ faults' \in 0 .. setup.faults /\ builds' \in 0 .. setup.builds
      /\ OnlyIn(torn, torn', r) /\ OnlyIn(strays, strays', r)
  BY <1>1, AtReplica, SameAnswers, OnlyOneIn
<1> QED
  BY <1>1, <1>3, <1>4, <1>5, <1>6, OneReplica

(* Crash. *)
LEMMA CrashStep ==
    ASSUME GroupInv, NEW r \in Replicas, Crash(r)
    PROVE  GroupInv'
<1>1. /\ pc[r] = "failed" \/ faults < setup.faults
      /\ faults' = IF pc[r] = "failed" THEN faults ELSE faults + 1
      /\ pc' = [pc EXCEPT ![r] = "down"] /\ mem' = [mem EXCEPT ![r] = NewCatalog]
      /\ meta' = [meta EXCEPT ![r] = NoMeta] /\ work' = [work EXCEPT ![r] = None]
      /\ builder' = [builder EXCEPT ![r] = None]
      /\ snapshot' = [snapshot EXCEPT ![r] = None]
      /\ UNCHANGED <<setup, disk, answers, builds, torn, strays>>
  BY DEF Crash
<1>2. faults' \in 0 .. setup.faults
  <2>1. setup.faults \in Nat /\ faults \in 0 .. setup.faults
    BY AtReplica
  <2> QED
    BY <1>1, <2>1
<1>3. /\ ReplicaOK(setup, NewCatalog, NoMeta, disk[r], "down", None, None, None)
      /\ r \notin strays =>
            ReplicaExact(setup, NewCatalog, NoMeta, disk[r], "down", None)
  BY AtReplica, CrashKeeps
<1>4. /\ Only(mem, mem', r) /\ mem'[r] = NewCatalog /\ Only(meta, meta', r)
      /\ meta'[r] = NoMeta /\ Only(snapshot, snapshot', r) /\ snapshot'[r] = None
      /\ Only(work, work', r) /\ work'[r] = None /\ Only(pc, pc', r) /\ pc'[r] = "down"
      /\ Only(builder, builder', r) /\ builder'[r] = None
  BY <1>1, AtReplica, OnlyOne
<1>5. Only(disk, disk', r)
  BY <1>1, AtReplica, OnlyOne
<1>6. LocalInv(r)'
  BY <1>1, <1>3, <1>4, AtReplica DEF LocalInv, SnapshotExact
<1>7. /\ AnswersOK' /\ builds' \in 0 .. setup.builds
      /\ OnlyIn(torn, torn', r) /\ OnlyIn(strays, strays', r)
  BY <1>1, AtReplica, SameAnswers
<1> QED
  BY <1>1, <1>2, <1>4, <1>5, <1>6, <1>7, OneReplica

(* Open. *)
LEMMA OpenStep ==
    ASSUME RegularLogs, GroupInv, NEW r \in Replicas, Open(r)
    PROVE  GroupInv'
<1> DEFINE c2 == Rehydrate(disk[r])
           m2 == disk[r].meta
<1>1. /\ pc[r] = "down" /\ mem' = [mem EXCEPT ![r] = c2]
      /\ meta' = [meta EXCEPT ![r] = m2] /\ pc' = [pc EXCEPT ![r] = "idle"]
      /\ strays' = IF CounterLost(disk[r]) THEN strays \cup {r} ELSE strays
      /\ UNCHANGED <<setup, disk, work, builder, snapshot, answers, faults, builds, torn>>
  BY DEF Open
<1>2. /\ ReplicaOK(setup, c2, m2, disk[r], "idle", work[r], builder[r], snapshot[r])
      /\ r \notin strays' => ReplicaExact(setup, c2, m2, disk[r], "idle", work[r])
  <2>1. CatalogAt(disk[r].meta.last) = Cats(setup.log)[disk[r].meta.last]
    BY DEF CatalogAt, Promise!CatalogAt, Cats, log
  <2>2. r \notin strays' =>
            /\ r \notin strays
            /\ CounterHint(disk[r]) = Cats(setup.log)[disk[r].meta.last].next_range_id
    BY <1>1, <2>1 DEF CounterLost
  <2> QED
    BY <1>1, <2>2, AtReplica, OpenKeeps
<1> HIDE DEF c2, m2
<1>3. /\ Only(mem, mem', r) /\ mem'[r] = c2 /\ Only(meta, meta', r) /\ meta'[r] = m2
      /\ Only(pc, pc', r) /\ pc'[r] = "idle"
  BY <1>1, AtReplica, OnlyOne
<1>4. /\ Only(disk, disk', r) /\ Only(work, work', r) /\ Only(builder, builder', r)
      /\ Only(snapshot, snapshot', r)
  BY <1>1, AtReplica, OnlyOne
<1>5. LocalInv(r)'
  BY <1>1, <1>2, <1>3, AtReplica DEF LocalInv
<1>6. /\ AnswersOK' /\ faults' \in 0 .. setup.faults /\ builds' \in 0 .. setup.builds
      /\ OnlyIn(torn, torn', r) /\ OnlyIn(strays, strays', r)
  BY <1>1, AtReplica, SameAnswers, OnlyOneIn
<1> QED
  BY <1>1, <1>3, <1>4, <1>5, <1>6, OneReplica

(* Every step of the group, and a stuttering step. *)
LEMMA GroupStep == RegularLogs /\ GroupInv /\ [Next]_vars => GroupInv'
<1> SUFFICES ASSUME RegularLogs, GroupInv, [Next]_vars PROVE GroupInv'
  OBVIOUS
<1>1. CASE Next
  <2>1. PICK r \in Replicas : \/ Step(r) \/ FailWrite(r) \/ BuilderReadsMeta(r) \/ Crash(r)
                              \/ \E q \in Replicas : BeginInstall(r, q)
    BY <1>1 DEF Next
  <2> QED
    BY <2>1, ApplyStep, WriteStep, CacheStep, FailStep, ReadMetaStep, BuildStep,
       InstallStep, SwapStep, CrashStep, OpenStep DEF Step
<1>2. CASE UNCHANGED vars
  BY <1>2 DEF vars, GroupInv, Maps, PerReplica, IsMap, LocalInv, AnswersOK, log, LogLen
<1> QED
  BY <1>1, <1>2

(* What the invariant says of the promise: names of the same thing. *)
LEMMA PromiseNames ==
    /\ \A n : CatalogAt(n) = Cats(setup.log)[n]
    /\ \A n : Promise!RowsAt(n) = RowsOf(setup, n)
<1>1. \A n : CatalogAt(n) = Cats(setup.log)[n]
  BY DEF CatalogAt, Promise!CatalogAt, Cats, log
<1>2. \A n : Promise!RowsAt(n) = RowsOf(setup, n)
  BY DEF Promise!RowsAt, Promise!RowsOf, RowsOf, Rows, Cats, MetaOf, log
<1> QED
  BY <1>1, <1>2

(* The invariant gives the property the runs check. *)
LEMMA GroupInvAgrees == GroupInv => GroupAgrees
<1> SUFFICES ASSUME GroupInv PROVE GroupAgrees
  OBVIOUS
<1>1. TypeOK
  <2>1. ASSUME NEW r \in Replicas
        PROVE  /\ {meta[r], disk[r].meta} \subseteq Metas
               /\ pc[r] \in {"idle", "applying", "applied", "installing", "installed",
                             "failed", "down"}
               /\ builder[r] \in Metas \cup {None}
    <3>1. Metas = MetasIn(setup)
      BY DEF Metas, MetasIn, LogLen, log
    <3> QED
      BY <3>1, AtReplica DEF ReplicaOK, IsRows, IsMeta
  <2> QED
    BY <2>1 DEF TypeOK, GroupInv
<1>2. ReplicaAgreement
  <2> SUFFICES ASSUME NEW r \in Replicas, r \notin strays
               PROVE  /\ pc[r] \in {"idle", "installing", "installed"} =>
                            mem[r] = CatalogAt(meta[r].last)
                      /\ pc[r] \in {"applying", "applied"} =>
                            mem[r] = CatalogAt(meta[r].last + 1)
    BY DEF ReplicaAgreement
  <2> QED
    BY AtReplica, PromiseNames DEF ReplicaExact
<1>3. SnapshotsExact
  <2> SUFFICES ASSUME NEW r \in Replicas, r \notin torn, snapshot[r] # None
               PROVE  Rows(snapshot[r], snapshot[r].meta)
                        = Promise!RowsAt(snapshot[r].meta.last)
    BY DEF SnapshotsExact
  <2> DEFINE x == snapshot[r]
  <2>1. x = SnapshotOf(setup, x.meta.last)
    BY AtReplica DEF SnapshotExact
  <2>2. /\ x.ranges = Cats(setup.log)[x.meta.last].ranges
        /\ x.nodes = Cats(setup.log)[x.meta.last].nodes
        /\ x.meta = MetaOf(setup.log, x.meta.last)
    BY <2>1 DEF SnapshotOf
  <2>3. Rows(x, x.meta) = RowsOf(setup, x.meta.last)
    BY <2>2 DEF RowsOf, Rows
  <2> QED
    BY <2>3, PromiseNames
<1>4. AnswersAgree
  BY PromiseNames DEF AnswersAgree, GroupInv, AnswersOK, log
<1>5. DiskMirrorsMemory
  BY AtReplica DEF DiskMirrorsMemory, ReplicaOK
<1> QED
  BY <1>1, <1>2, <1>3, <1>4, <1>5 DEF GroupAgrees

(* raft/state_machine.rs, state_machine.rs: for any replicas, regular logs with
   or without merges, faults and snapshots, catalogs, snapshots and answers
   are those of the log entries they count on every replica that neither
   re-opened with its counter lost nor installed a snapshot read apart; so
   these two are the only ways for a replica to leave its log.             *)
THEOREM GroupSafe ==
    ASSUME RegularLogs
    PROVE  Spec => []GroupAgrees
<1>1. Init => GroupInv
  BY GroupInit
<1>2. GroupInv /\ [Next]_vars => GroupInv'
  BY GroupStep
<1>3. GroupInv => GroupAgrees
  BY GroupInvAgrees
<1> QED
  BY <1>1, <1>2, <1>3, PTL DEF Spec
------------------------------------------------------------------------------
(* The refinement of ReplicatedCatalog.                                    *)

(* A batch that lands is a step of the promise. *)
LEMMA LandingAdvances ==
    ASSUME GroupInv, NEW r \in Replicas, UNCHANGED <<setup, strays>>,
           pc[r] = "applying" \/ pc[r] = "installing",
           disk' = [disk EXCEPT ![r] = Rows(work[r], work[r].meta)]
    PROVE  Promise!Advance(r) /\ UNCHANGED log
<1> DEFINE d2 == Rows(work[r], work[r].meta)
           n == work[r].meta.last
<1>0. log' = log /\ LogLen = Len(setup.log) /\ Promise!LogLen = LogLen
  BY DEF log, LogLen, Promise!LogLen
<1>1. /\ setup \in Setups /\ PerReplica(disk)
      /\ ReplicaOK(setup, mem[r], meta[r], disk[r], pc[r], work[r], builder[r],
                   snapshot[r])
      /\ r \notin strays => ReplicaExact(setup, mem[r], meta[r], disk[r], pc[r], work[r])
  BY AtReplica
<1>2. /\ IsMeta(setup, work[r].meta) /\ d2.meta = work[r].meta
      /\ n \in 0 .. Len(setup.log) /\ disk[r].meta.last < n
  BY <1>1, LandedRows
<1>3. r \notin strays => d2 = RowsOf(setup, n)
  BY <1>1, LandedExact
<1>4. disk[r].meta.last \in 0 .. Len(setup.log) /\ Len(setup.log) \in Nat
  BY <1>1, SetupFacts DEF ReplicaOK, IsRows, MetasIn
<1>5. d2.meta = Promise!MetaOf(log, n)
  BY <1>2 DEF IsMeta, MetaOf, log
<1> HIDE DEF n, d2
<1>6. disk' = [disk EXCEPT ![r] = d2] /\ disk'[r] = d2
  <2>1. disk' = [disk EXCEPT ![r] = d2]
    BY DEF d2
  <2> QED
    BY <1>1, <2>1 DEF PerReplica
<1>7. n \in disk[r].meta.last + 1 .. LogLen
  BY <1>0, <1>2, <1>4
<1>8. r \notin strays => disk'[r] = Promise!RowsAt(n)
  BY <1>3, <1>6, PromiseNames
<1> QED
  BY <1>0, <1>5, <1>6, <1>7, <1>8 DEF Promise!Advance

(* Every step of the group is one of the promise, or leaves it unchanged. *)
LEMMA PromiseStep == GroupInv /\ [Next]_vars => [Promise!Next]_<<log, disk, strays>>
<1> SUFFICES ASSUME GroupInv, [Next]_vars
             PROVE  Promise!Next \/ UNCHANGED <<log, disk, strays>>
  OBVIOUS
<1>1. CASE UNCHANGED vars
  BY <1>1 DEF vars, log
<1>2. CASE Next
  <2>1. PICK r \in Replicas : \/ Step(r) \/ FailWrite(r) \/ BuilderReadsMeta(r) \/ Crash(r)
                              \/ \E q \in Replicas : BeginInstall(r, q)
    BY <1>2 DEF Next
  <2>2. CASE WriteDurably(r)
    <3>1. Promise!Advance(r) /\ UNCHANGED log
      BY <2>2, LandingAdvances DEF WriteDurably
    <3> QED
      BY <3>1 DEF Promise!Next
  <2>3. CASE FailWrite(r)
    <3>1. UNCHANGED <<log, disk, strays>> \/ (Promise!Advance(r) /\ UNCHANGED log)
      BY <2>3, LandingAdvances DEF FailWrite, log
    <3> QED
      BY <3>1 DEF Promise!Next
  <2>4. CASE ~WriteDurably(r) /\ ~FailWrite(r)
    <3>1. UNCHANGED <<setup, disk>>
      BY <2>1, <2>4 DEF Step, ApplyInMemory, ApplyMetaOnly, CacheMeta, BuilderReadsCatalog,
         SwapCatalog, Open, BuilderReadsMeta, Crash, BeginInstall
    <3>2. strays' = strays \/ strays' = strays \cup {r}
      BY <2>1, <2>4 DEF Step, ApplyInMemory, ApplyMetaOnly, CacheMeta, BuilderReadsCatalog,
         SwapCatalog, Open, BuilderReadsMeta, Crash, BeginInstall
    <3> QED
      BY <3>1, <3>2 DEF Promise!Next, Promise!Stray, log
  <2> QED
    BY <2>2, <2>3, <2>4
<1> QED
  BY <1>1, <1>2

(* state_machine.rs, "Consistency model": the group implements
   ReplicatedCatalog.  The rows on the disk of a replica that did not stray
   are, at every moment of every crash and failed write, those of the entries
   its meta row counts, and on every replica that row is right and only ever
   counts more.                                                            *)
THEOREM GroupKeepsPromise ==
    ASSUME RegularLogs
    PROVE  Spec => KeepsPromise
<1>1. Init => GroupInv
  BY GroupInit
<1>2. GroupInv /\ [Next]_vars => GroupInv'
  BY GroupStep
<1>3. Init => Promise!Init
  <2> SUFFICES ASSUME Init PROVE Promise!Init
    OBVIOUS
  <2>1. /\ setup \in Setups /\ disk = [r \in Replicas |-> Rows(NewCatalog, NoMeta)]
        /\ strays = {}
    BY DEF Init
  <2>2. Promise!RowsAt(0) = Rows(NewCatalog, NoMeta)
    BY <2>1, PromiseNames, SetupFacts, CatalogsUnfold, MetaSteps DEF RowsOf
  <2> QED
    BY <2>1, <2>2 DEF Promise!Init, log
<1>4. GroupInv /\ [Next]_vars => [Promise!Next]_<<log, disk, strays>>
  BY PromiseStep
<1> QED
  BY <1>1, <1>2, <1>3, <1>4, PTL DEF Spec, KeepsPromise, Promise!Spec
==============================================================================
