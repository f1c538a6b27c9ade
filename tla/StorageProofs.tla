---------------------------- MODULE StorageProofs ----------------------------
(***************************************************************************)
(* Proofs about a v1 database in use: no acknowledged write is lost to a   *)
(* reader, the edge indexes agree with the edge table, and the property    *)
(* and full-text indexes find each node they cover under its values.       *)
(***************************************************************************)
EXTENDS TieredStorage, NaturalSets, FiniteSetTheorems, SequenceTheorems, TLAPS

-------------------------------------------------------------------------------
(* The tables. *)

Tables == {"nodes", "index", "payloads", "edges", "types", "from", "to", "etypes", "props",
           "registry", "fulltext", "ftRegistry", "docFreq"}

(* d is a record of the redb tables. *)
IsDb(d) == DOMAIN d = Tables

(* e has d's rows of nodes; d's edges. *)
SameRows(d, e) == e.index = d.index /\ e.payloads = d.payloads /\ e.nodes = d.nodes

SameEdges(d, e) == e.edges = d.edges /\ e.from = d.from /\ e.to = d.to

LEMMA EmptyIs == 
    /\ IsDb(EmptyDb)
    /\ DOMAIN EmptyDb.index = {} /\ DOMAIN EmptyDb.payloads = {} /\ DOMAIN EmptyDb.nodes = {}
    /\ DOMAIN EmptyDb.edges = {} /\ EmptyDb.from = {} /\ EmptyDb.to = {}
  BY DEF IsDb, Tables, EmptyDb

(* Inserting and overwriting keys of a table, and removing them. *)
LEMMA PutIs ==
    ASSUME NEW f, NEW k, NEW v
    PROVE  /\ DOMAIN Put(f, k, v) = DOMAIN f \cup {k}
           /\ Put(f, k, v)[k] = v
           /\ \A x \in DOMAIN f : x # k => Put(f, k, v)[x] = f[x]
  BY DEF Put

LEMMA MergeIs ==
    ASSUME NEW f, NEW g
    PROVE  /\ DOMAIN Merge(f, g) = DOMAIN f \cup DOMAIN g
           /\ \A x \in DOMAIN g : Merge(f, g)[x] = g[x]
           /\ \A x \in DOMAIN f : x \notin DOMAIN g => Merge(f, g)[x] = f[x]
  BY DEF Merge

LEMMA WithoutIs ==
    ASSUME NEW f, NEW keys
    PROVE  /\ DOMAIN Without(f, keys) = DOMAIN f \ keys
           /\ \A x \in DOMAIN f \ keys : Without(f, keys)[x] = f[x]
  BY DEF Without, Restrict

LEMMA InsertNodeIs ==
    ASSUME NEW d, IsDb(d), NEW n, NEW type, NEW props
    PROVE  LET e == InsertNode(d, n, type, props) IN
           /\ IsDb(e) /\ SameEdges(d, e)
           /\ e.index = d.index /\ e.payloads = d.payloads
           /\ e.nodes = Put(d.nodes, n, [type |-> type, props |-> props])
  BY DEF IsDb, Tables, SameEdges, InsertNode

LEMMA UpdateNodeIs ==
    ASSUME NEW d, IsDb(d), NEW n, NEW new
    PROVE  LET e == UpdateNode(d, n, new) IN
           /\ IsDb(e) /\ SameEdges(d, e)
           /\ e.index = d.index /\ e.payloads = d.payloads
           /\ e.nodes = Put(d.nodes, n, [type |-> d.nodes[n].type,
                                         props |-> Merge(d.nodes[n].props, new)])
  BY DEF IsDb, Tables, SameEdges, UpdateNode

LEMMA InsertNodeTieredIs ==
    ASSUME NEW d, IsDb(d), NEW n, NEW index, NEW payload
    PROVE  LET e == InsertNodeTiered(d, n, index, payload) IN
           /\ IsDb(e) /\ SameEdges(d, e)
           /\ e.payloads = Put(d.payloads, n, payload)
           /\ e.index = Put(d.index, n, index) /\ e.nodes = d.nodes
  BY DEF IsDb, Tables, SameEdges, InsertNodeTiered

LEMMA InsertNodesTieredBatchIs ==
    ASSUME NEW d, IsDb(d), NEW rows
    PROVE  LET e == InsertNodesTieredBatch(d, rows) IN
           /\ IsDb(e) /\ SameEdges(d, e)
           /\ e.payloads = Merge(d.payloads, [n \in DOMAIN rows |-> rows[n].payload])
           /\ e.index = Merge(d.index, [n \in DOMAIN rows |-> rows[n].index])
           /\ e.nodes = d.nodes
  BY DEF IsDb, Tables, SameEdges, InsertNodesTieredBatch

LEMMA PutPayloadIs ==
    ASSUME NEW d, IsDb(d), NEW n, NEW payload
    PROVE  LET e == PutPayload(d, n, payload) IN
           /\ IsDb(e) /\ SameEdges(d, e)
           /\ e.payloads = Put(d.payloads, n, payload)
           /\ e.index = d.index /\ e.nodes = d.nodes
  BY DEF IsDb, Tables, SameEdges, PutPayload

LEMMA DeletePayloadIs ==
    ASSUME NEW d, IsDb(d), NEW n
    PROVE  LET e == DeletePayload(d, n) IN
           /\ IsDb(e) /\ SameEdges(d, e)
           /\ e.payloads = Without(d.payloads, {n})
           /\ e.index = d.index /\ e.nodes = d.nodes
  BY DEF IsDb, Tables, SameEdges, DeletePayload

LEMMA UpdateNodeIndexIs ==
    ASSUME NEW d, IsDb(d), NEW n, NEW index
    PROVE  LET e == UpdateNodeIndex(d, n, index) IN
           /\ IsDb(e) /\ SameEdges(d, e)
           /\ e.index = Put(d.index, n, index)
           /\ e.payloads = d.payloads /\ e.nodes = d.nodes
  BY DEF IsDb, Tables, SameEdges, UpdateNodeIndex

LEMMA UpdateNodeTieredIs ==
    ASSUME NEW d, IsDb(d), NEW n, NEW index, NEW payload
    PROVE  LET e == UpdateNodeTiered(d, n, index, payload) IN
           /\ IsDb(e) /\ SameEdges(d, e)
           /\ e.payloads = Put(d.payloads, n, payload)
           /\ e.index = Put(d.index, n, index)
           /\ e.nodes = Put(d.nodes, n, [type |-> index.type, props |-> payload])
  BY DEF IsDb, Tables, SameEdges, UpdateNodeTiered

LEMMA MigrateIs ==
    ASSUME NEW d, IsDb(d)
    PROVE  LET e == MigrateToTiered(d) IN
           /\ IsDb(e) /\ SameEdges(d, e)
           /\ e.nodes = d.nodes
           /\ DOMAIN d.index # {} => e.index = d.index /\ e.payloads = d.payloads
           /\ DOMAIN d.index = {} =>
                 /\ e.index = [n \in DOMAIN d.nodes |->
                                 IndexRecord(d.nodes[n].type, "local", d.nodes[n].props)]
                 /\ e.payloads = Merge(d.payloads, [n \in DOMAIN d.nodes |-> d.nodes[n].props])
  BY DEF IsDb, Tables, SameEdges, MigrateToTiered

(* Index calls leave rows and edges alone. *)
LEMMA IndexCalls ==
    ASSUME NEW d, IsDb(d), NEW n, NEW type, NEW field, NEW props,
           NEW e \in {CreatePropertyIndex(d, type, field), CreateFulltextIndex(d, type, field),
                      DropPropertyIndex(d, type, field),
                      UpdatePropertyIndexes(d, n, type, props),
                      UpdateFulltextIndex(d, n, type, props)}
    PROVE  IsDb(e) /\ SameRows(d, e) /\ SameEdges(d, e)
<1>1. \A t, texts, x : IsDb(x) => LET y == IndexTexts(x, t, texts) IN
         IsDb(y) /\ SameRows(x, y) /\ SameEdges(x, y)
  BY DEF IsDb, Tables, SameRows, SameEdges, IndexTexts
<1>2. CASE e = CreatePropertyIndex(d, type, field)
  BY <1>2 DEF IsDb, Tables, SameRows, SameEdges, CreatePropertyIndex
<1>3. CASE e = CreateFulltextIndex(d, type, field)
  <2> DEFINE x == [d EXCEPT !.ftRegistry = @ \cup {<<type, field>>}]
  <2>1. IsDb(x) /\ SameRows(d, x) /\ SameEdges(d, x)
    BY DEF IsDb, Tables, SameRows, SameEdges
  <2>2. e = d \/ \E texts : e = IndexTexts(x, type, texts)
    BY <1>3 DEF CreateFulltextIndex
  <2> HIDE DEF x
  <2> QED
    BY <1>1, <2>1, <2>2 DEF SameRows, SameEdges
<1>4. CASE e = DropPropertyIndex(d, type, field)
  BY <1>4 DEF IsDb, Tables, SameRows, SameEdges, DropPropertyIndex
<1>5. CASE e = UpdatePropertyIndexes(d, n, type, props)
  BY <1>5 DEF IsDb, Tables, SameRows, SameEdges, UpdatePropertyIndexes
<1>6. CASE e = UpdateFulltextIndex(d, n, type, props)
  <2>1. \E texts : e = IndexTexts(d, type, texts)
    BY <1>6 DEF UpdateFulltextIndex
  <2> QED
    BY <1>1, <2>1
<1> QED
  BY <1>2, <1>3, <1>4, <1>5, <1>6

-------------------------------------------------------------------------------
(* Edges.  Every edge has its entries in both indexes, and an entry names the
   end of its edge as long as the edge exists.  Ids are fresh, so an entry
   left behind by a delete never comes to stand for another edge.          *)
FromOK(d, used) ==
    /\ \A e \in DOMAIN d.edges : e \in used /\ <<d.edges[e].from, e>> \in d.from
    /\ \A n, e : <<n, e>> \in d.from =>
          e \in used /\ (e \in DOMAIN d.edges => n = d.edges[e].from)

ToOK(d, used) ==
    /\ \A e \in DOMAIN d.edges : e \in used /\ <<d.edges[e].to, e>> \in d.to
    /\ \A n, e : <<n, e>> \in d.to =>
          e \in used /\ (e \in DOMAIN d.edges => n = d.edges[e].to)

EdgesOK(d, used) == FromOK(d, used) /\ ToOK(d, used)

LEMMA SameEdgesOK ==
    ASSUME NEW d, NEW e, NEW used, SameEdges(d, e), EdgesOK(d, used)
    PROVE  EdgesOK(e, used)
  BY DEF SameEdges, EdgesOK, FromOK, ToOK

LEMMA InsertEdgeOK ==
    ASSUME NEW d, IsDb(d), NEW used, EdgesOK(d, used), NEW e, e \notin used, NEW row,
           NEW x, IsDb(x),
           x.edges = Put(d.edges, e, row),
           x.from = d.from \cup {<<row.from, e>>}, x.to = d.to \cup {<<row.to, e>>}
    PROVE  EdgesOK(x, used \cup {e})
<1> DEFINE f == d.edges
           g == Put(f, e, row)
<1>a. DOMAIN g = DOMAIN f \cup {e} /\ g[e] = row /\ \A y \in DOMAIN f : y # e => g[y] = f[y]
  <2> HIDE DEF f
  <2> QED
    BY DEF Put
<1>b. x.edges = g
  OBVIOUS
<1>c. \A y \in DOMAIN f : y # e
  BY DEF EdgesOK, FromOK
<1> HIDE DEF g
<1>1. DOMAIN x.edges = DOMAIN d.edges \cup {e} /\ x.edges[e] = row
  BY <1>a, <1>b
<1>2. \A y \in DOMAIN d.edges : y # e /\ x.edges[y] = d.edges[y]
  BY <1>a, <1>b, <1>c
<1>3. FromOK(x, used \cup {e})
  BY <1>1, <1>2 DEF EdgesOK, FromOK
<1>4. ToOK(x, used \cup {e})
  BY <1>1, <1>2 DEF EdgesOK, ToOK
<1> QED
  BY <1>3, <1>4 DEF EdgesOK

(* Edges go, and entries of edges that have gone may go with them. *)
LEMMA RemoveEdgesOK ==
    ASSUME NEW d, NEW used, EdgesOK(d, used), NEW keys, NEW x,
           x.edges = Without(d.edges, keys),
           x.from \subseteq d.from, x.to \subseteq d.to,
           \A n, e : <<n, e>> \in d.from /\ <<n, e>> \notin x.from => e \in keys,
           \A n, e : <<n, e>> \in d.to /\ <<n, e>> \notin x.to => e \in keys
    PROVE  EdgesOK(x, used)
<1> DEFINE f == d.edges
           g == Without(f, keys)
<1>a. DOMAIN g = DOMAIN f \ keys /\ \A e \in DOMAIN f \ keys : g[e] = f[e]
  BY WithoutIs
<1>b. x.edges = g
  OBVIOUS
<1> HIDE DEF g
<1>1. DOMAIN x.edges = DOMAIN d.edges \ keys
  BY <1>a, <1>b
<1>2. \A e \in DOMAIN x.edges : x.edges[e] = d.edges[e]
  BY <1>a, <1>b
<1>3. FromOK(x, used)
  BY <1>1, <1>2 DEF EdgesOK, FromOK
<1>4. ToOK(x, used)
  BY <1>1, <1>2 DEF EdgesOK, ToOK
<1> QED
  BY <1>3, <1>4 DEF EdgesOK

LEMMA DropEdgesIs ==
    ASSUME NEW d, IsDb(d), NEW n
    PROVE  LET e == DropEdges(d, n) IN
           /\ IsDb(e) /\ SameRows(d, e)
           /\ \A used : EdgesOK(d, used) => EdgesOK(e, used)
<1> DEFINE leaving == {e \in {p[2] : p \in d.from} : <<n, e>> \in d.from}
           half    == [d EXCEPT !.edges = Without(@, leaving),
                                !.from = @ \ ({n} \X leaving)]
           coming  == {e \in {p[2] : p \in half.to} : <<n, e>> \in half.to}
           whole   == [half EXCEPT !.edges = Without(@, coming),
                                   !.to = @ \ ({n} \X coming)]
<1>1. DropEdges(d, n) = whole
  BY DEF DropEdges
<1> HIDE DEF leaving
<1>2. /\ IsDb(half) /\ SameRows(d, half)
      /\ half.edges = Without(d.edges, leaving) /\ half.to = d.to
      /\ half.from = d.from \ ({n} \X leaving)
  BY DEF IsDb, Tables, SameRows
<1> HIDE DEF half, coming
<1>3. /\ IsDb(whole) /\ SameRows(half, whole)
      /\ whole.edges = Without(half.edges, coming) /\ whole.from = half.from
      /\ whole.to = half.to \ ({n} \X coming)
  BY <1>2 DEF IsDb, Tables, SameRows
<1> HIDE DEF whole
<1>4. ASSUME NEW used, EdgesOK(d, used) PROVE EdgesOK(whole, used)
  <2>1. EdgesOK(half, used)
    <3>1. \A m, e : <<m, e>> \in d.from /\ <<m, e>> \notin half.from => e \in leaving
      BY <1>2
    <3> QED
      BY <1>2, <1>4, <3>1, RemoveEdgesOK
  <2>2. \A m, e : <<m, e>> \in half.to /\ <<m, e>> \notin whole.to => e \in coming
    BY <1>3
  <2> QED
    BY <1>3, <2>1, <2>2, RemoveEdgesOK
<1> QED
  BY <1>1, <1>2, <1>3, <1>4 DEF SameRows

LEMMA DeleteNodeTieredIs ==
    ASSUME NEW d, IsDb(d), NEW n
    PROVE  LET e == DeleteNodeTiered(d, n) IN
           /\ IsDb(e)
           /\ e.index = Without(d.index, {n}) /\ e.payloads = Without(d.payloads, {n})
           /\ e.nodes = Without(d.nodes, {n})
           /\ \A used : EdgesOK(d, used) => EdgesOK(e, used)
<1> DEFINE x == [d EXCEPT !.types = @ \ ({ix.type : ix \in GetNodeIndex(d, n)} \X {n}),
                          !.index = Without(@, {n}),
                          !.payloads = Without(@, {n}),
                          !.nodes = Without(@, {n})]
<1>1. /\ IsDb(x) /\ SameEdges(d, x)
      /\ x.index = Without(d.index, {n}) /\ x.payloads = Without(d.payloads, {n})
      /\ x.nodes = Without(d.nodes, {n})
  BY DEF IsDb, Tables, SameEdges
<1>2. DeleteNodeTiered(d, n) = DropEdges(x, n)
  BY DEF DeleteNodeTiered
<1> HIDE DEF x
<1> QED
  BY <1>1, <1>2, DropEdgesIs, SameEdgesOK DEF SameRows

LEMMA DeleteEdgeIs ==
    ASSUME NEW d, IsDb(d), NEW e
    PROVE  LET x == DeleteEdge(d, e) IN
           /\ IsDb(x) /\ SameRows(d, x)
           /\ \A used : EdgesOK(d, used) => EdgesOK(x, used)
<1>1. CASE e \notin DOMAIN d.edges
  BY <1>1 DEF DeleteEdge, SameRows
<1>2. CASE e \in DOMAIN d.edges
  <2> DEFINE x == DeleteEdge(d, e)
  <2>1. /\ IsDb(x) /\ SameRows(d, x)
        /\ x.edges = Without(d.edges, {e})
        /\ x.from = d.from \ {<<d.edges[e].from, e>>}
        /\ x.to = d.to \ {<<d.edges[e].to, e>>}
    BY <1>2 DEF IsDb, Tables, SameRows, DeleteEdge
  <2> HIDE DEF x
  <2>2. \A used : EdgesOK(d, used) => EdgesOK(x, used)
    BY <2>1, RemoveEdgesOK
  <2> QED
    BY <2>1, <2>2 DEF x
<1> QED
  BY <1>1, <1>2

LEMMA InsertEdgeIs ==
    ASSUME NEW d, IsDb(d), NEW e, NEW row
    PROVE  LET x == InsertEdge(d, e, row) IN
           /\ IsDb(x) /\ SameRows(d, x)
           /\ x.edges = Put(d.edges, e, row)
           /\ x.from = d.from \cup {<<row.from, e>>} /\ x.to = d.to \cup {<<row.to, e>>}
  BY DEF IsDb, Tables, SameRows, InsertEdge

LEMMA InsertEdgesBatchIs ==
    ASSUME NEW d, IsDb(d), NEW batch, EdgesOK(d, {})
    PROVE  LET x == InsertEdgesBatch(d, batch) IN
           /\ IsDb(x) /\ SameRows(d, x)
           /\ EdgesOK(x, DOMAIN batch)
<1> DEFINE x == InsertEdgesBatch(d, batch)
<1>1. /\ IsDb(x) /\ SameRows(d, x)
      /\ x.edges = Merge(d.edges, batch)
      /\ x.from = d.from \cup {<<batch[e].from, e>> : e \in DOMAIN batch}
      /\ x.to = d.to \cup {<<batch[e].to, e>> : e \in DOMAIN batch}
  BY DEF IsDb, Tables, SameRows, InsertEdgesBatch
<1> HIDE DEF x
<1>2. DOMAIN d.edges = {} /\ (\A n, e : <<n, e>> \notin d.from) /\ (\A n, e : <<n, e>> \notin d.to)
  BY DEF EdgesOK, FromOK, ToOK
<1>3. DOMAIN x.edges = DOMAIN batch /\ \A e \in DOMAIN batch : x.edges[e] = batch[e]
  <2> DEFINE f == d.edges
             g == Merge(f, batch)
  <2>1. DOMAIN g = DOMAIN f \cup DOMAIN batch /\ \A e \in DOMAIN batch : g[e] = batch[e]
    BY MergeIs, Zenon
  <2>2. x.edges = g /\ DOMAIN f = {}
    BY <1>1, <1>2
  <2> HIDE DEF g
  <2> QED
    BY <2>1, <2>2
<1>a. \A n, e : <<n, e>> \in x.from <=> e \in DOMAIN batch /\ n = batch[e].from
  BY <1>1, <1>2
<1>b. \A n, e : <<n, e>> \in x.to <=> e \in DOMAIN batch /\ n = batch[e].to
  BY <1>1, <1>2
<1>4. FromOK(x, DOMAIN batch)
  BY <1>a, <1>3 DEF FromOK
<1>5. ToOK(x, DOMAIN batch)
  BY <1>b, <1>3 DEF ToOK
<1> QED
  BY <1>1, <1>4, <1>5 DEF x, EdgesOK

-------------------------------------------------------------------------------
(* The invariant behind WritesSurvive.  Of a node that is live and not exposed
   it says what each tier holds, and what each call at work on it has read:
   the tiers may lag behind acked only where no call will look.            *)

(* The two tables have the same row of n. *)
SameAt(f, g, n) == (n \in DOMAIN g <=> n \in DOMAIN f) /\ (n \in DOMAIN f => g[n] = f[n])

ObjectGood(n) == n \in DOMAIN bucket /\ bucket[n] = acked[n]

(* Every row of n that exists holds acked[n]; the index record points at a tier
   that has it; a node without an index record is a legacy row only.       *)
RowsOK(n) ==
    /\ n \in DOMAIN db.payloads => db.payloads[n] = acked[n]
    /\ n \in DOMAIN db.nodes => db.nodes[n].props = acked[n]
    /\ n \in DOMAIN db.index =>
          /\ db.index[n].loc \in {"local", "cloud"}
          /\ db.index[n].loc = "local" => n \in DOMAIN db.payloads
          /\ db.index[n].loc = "cloud" => ObjectGood(n)
    /\ n \notin DOMAIN db.index => n \in DOMAIN db.nodes /\ n \notin DOMAIN db.payloads

(* The cache is behind only between an update's commit and its cache write. *)
CacheOK(n) ==
    n \in DOMAIN cache =>
        cache[n] = acked[n] \/ \E s \in Slots : At(s, "update", "cache") /\ call[s].node = n

(* A call that has read "cloud" finds the payload in the bucket. *)
IndexOK(index, n) ==
    /\ index.loc \in {"local", "cloud"}
    /\ index.loc = "cloud" => ObjectGood(n)

Reads == {"get", "list", "update"}

(* What the call c, which works on n, has read of it and relies on. *)
CallOK(c, n) ==
    /\ c.op = "insert" => c.props = acked[n]
    /\ c.op = "batch" => c.todo[n] = acked[n]
    /\ c.op \in Reads /\ c.pc = "resolve" /\ c.node = n => IndexOK(c.index, n)
    /\ c.op \in Reads /\ c.pc = "warm" /\ c.node = n => c.props = acked[n]
    /\ c.op = "list" /\ n \in DOMAIN c.todo => IndexOK(c.todo[n], n)
    /\ c.op = "update" /\ c.pc = "commit" => c.props = Merge(acked[n], c.new)
    /\ c.op = "update" /\ c.pc \in {"cache", "through"} => c.props = acked[n]
    /\ c.op = "evict" => c.props = acked[n]
    /\ c.op = "evict" /\ c.pc # "upload" => ObjectGood(n)
    /\ c.op = "evict" /\ c.pc \in {"drop", "cache"} =>
          n \in DOMAIN db.index /\ db.index[n].loc = "cloud"
    /\ c.op = "promote" => n \in DOMAIN db.index
    /\ c.op = "promote" /\ c.pc \in {"write", "index"} => c.props = acked[n]
    /\ c.op = "promote" /\ c.pc # "write" => n \in DOMAIN db.payloads

CallsOK(n) == \A s \in Slots : RunsOn(s, n) => CallOK(call[s], n)

(* No two calls at work on n conflict: exposed would have n. *)
Apart(n) ==
    \A s, r \in Slots : s # r /\ RunsOn(s, n) /\ RunsOn(r, n) =>
        ~Conflict(call[s].op, call[r].op)

(* A call that could still write the index record or the legacy row of a
   deleted node.                                                           *)
Revives(c) ==
    \/ c.op = "update"
    \/ c.op \in {"evict", "promote"} /\ c.pc = "point"

GoneOK(n) ==
    /\ n \notin DOMAIN db.index /\ n \notin DOMAIN db.nodes
    /\ \A s \in Slots : RunsOn(s, n) => ~Revives(call[s])

(* Tables, cache and calls know only nodes that were born. *)
BornOK ==
    /\ IsDb(db) /\ DOMAIN call = Slots
    /\ DOMAIN db.index \subseteq Born /\ DOMAIN db.payloads \subseteq Born
    /\ DOMAIN db.nodes \subseteq Born /\ DOMAIN cache \subseteq Born
    /\ gone \subseteq doomed /\ doomed \subseteq Born
    /\ \A s \in Slots : WorksOn(call[s]) \subseteq Born

TierInv ==
    /\ BornOK
    /\ EdgesOK(db, wired)
    /\ \A n \in Live \ exposed : RowsOK(n) /\ CacheOK(n) /\ CallsOK(n) /\ Apart(n)
    /\ \A n \in gone \ exposed : GoneOK(n)

LEMMA PutSame ==
    ASSUME NEW f, NEW k, NEW v, NEW n, n # k
    PROVE  SameAt(f, Put(f, k, v), n)
  BY DEF Put, SameAt

LEMMA WithoutSame ==
    ASSUME NEW f, NEW k, NEW n, n # k
    PROVE  SameAt(f, Without(f, {k}), n)
  BY DEF Without, Restrict, SameAt

LEMMA MergeSame ==
    ASSUME NEW f, NEW g, NEW n, n \notin DOMAIN g
    PROVE  SameAt(f, Merge(f, g), n)
  BY DEF Merge, SameAt

LEMMA ConflictSymmetric ==
    ASSUME NEW a, NEW b
    PROVE  Conflict(a, b) <=> Conflict(b, a)
  BY DEF Conflict

(* The two parts of WritesSurvive that follow from the state of one node. *)
LEMMA DurableIs ==
    ASSUME NEW n, RowsOK(n)
    PROVE  /\ Durable(n) = {acked[n]}
           /\ \A index \in GetNodeIndex(db, n) :
                 IndexOK(index, n) /\ Fetched(index.loc, n) = {acked[n]}
           /\ GetNodeIndex(db, n) # {}
           /\ \A p \in GetPayload(db, n) : p = acked[n]
<1>1. \A p \in GetPayload(db, n) : p = acked[n]
  BY DEF RowsOK, GetPayload, GetNode
<1>2. CASE n \in DOMAIN db.index
  <2>1. GetNodeIndex(db, n) = {db.index[n]}
    BY <1>2 DEF GetNodeIndex
  <2>2. IndexOK(db.index[n], n)
    BY <1>2 DEF RowsOK, IndexOK
  <2>3. Fetched(db.index[n].loc, n) = {acked[n]}
    <3>1. CASE db.index[n].loc = "local"
      BY <1>2, <3>1 DEF RowsOK, Fetched, GetPayload
    <3>2. CASE db.index[n].loc = "cloud"
      BY <1>2, <3>2 DEF RowsOK, Fetched, ObjectGood
    <3> QED
      BY <2>2, <3>1, <3>2 DEF IndexOK
  <2>4. Durable(n) = {acked[n]}
    BY <2>1, <2>3 DEF Durable
  <2> QED
    BY <1>1, <2>1, <2>2, <2>3, <2>4
<1>3. CASE n \notin DOMAIN db.index
  <2> DEFINE ix == IndexRecord(db.nodes[n].type, "local", db.nodes[n].props)
  <2>1. GetNodeIndex(db, n) = {ix}
    BY <1>3 DEF RowsOK, GetNodeIndex, GetNode
  <2>2. ix.loc = "local"
    BY DEF IndexRecord
  <2>3. Fetched("local", n) = {acked[n]}
    BY <1>3 DEF RowsOK, Fetched, GetPayload, GetNode
  <2> HIDE DEF ix
  <2>4. Durable(n) = {acked[n]}
    BY <2>1, <2>2, <2>3 DEF Durable
  <2> QED
    BY <1>1, <2>1, <2>2, <2>3, <2>4 DEF IndexOK
<1> QED
  BY <1>2, <1>3

-------------------------------------------------------------------------------
(* What a step of one slot leaves as it is. *)

(* Slot s goes on with c, the others rest. *)
Moves(s, c) ==
    /\ DOMAIN call' = Slots
    /\ call'[s] = c
    /\ \A r \in Slots \ {s} : call'[r] = call[r]

LEMMA GoesMoves ==
    ASSUME BornOK, NEW s \in Slots, NEW c, Goes(s, c)
    PROVE  Moves(s, c)
  BY DEF BornOK, Goes, Moves

LEMMA RestMoves ==
    ASSUME BornOK, NEW s \in Slots, NEW c, c = call[s], call' = call
    PROVE  Moves(s, c)
  BY DEF BornOK, Moves

(* The rows of n that a call r at work on it counts on are still there. *)
RowsFor(r, n) ==
    /\ call[r].op = "evict" /\ n \in DOMAIN db.index /\ db.index[n].loc = "cloud" =>
          n \in DOMAIN db'.index /\ db'.index[n].loc = "cloud"
    /\ call[r].op = "promote" =>
          /\ n \in DOMAIN db.index => n \in DOMAIN db'.index
          /\ n \in DOMAIN db.payloads => n \in DOMAIN db'.payloads

LEMMA CallKept ==
    ASSUME NEW r, NEW n, call'[r] = call[r], CallOK(call[r], n), acked'[n] = acked[n],
           ObjectGood(n) => ObjectGood(n)', RowsFor(r, n)
    PROVE  CallOK(call[r], n)'
<1> PICK c : c = call[r]
  OBVIOUS
<1>1. c = call'[r] /\ CallOK(c, n)
  OBVIOUS
<1>2. \A index : IndexOK(index, n) =>
         index.loc \in {"local", "cloud"} /\ (index.loc = "cloud" => ObjectGood(n)')
  BY DEF IndexOK
<1>3. IndexOK(c.index, n) => IndexOK(c.index, n)'
  BY <1>2 DEF IndexOK
<1>4. IndexOK(c.todo[n], n) => IndexOK(c.todo[n], n)'
  BY <1>2 DEF IndexOK
<1>5. CallOK(c, n)'
  BY <1>1, <1>3, <1>4 DEF CallOK, RowsFor
<1> QED
  BY <1>1, <1>5

LEMMA CallsKept ==
    ASSUME NEW s \in Slots, NEW c, NEW n, Moves(s, c), CallsOK(n), Apart(n),
           acked'[n] = acked[n], ObjectGood(n) => ObjectGood(n)',
           \A r \in Slots \ {s} : RunsOn(r, n) => RowsFor(r, n),
           n \in WorksOn(c) =>
               /\ CallOK(c, n)'
               /\ \A r \in Slots \ {s} : RunsOn(r, n) => ~Conflict(c.op, call[r].op)
    PROVE  CallsOK(n)' /\ Apart(n)'
<1>1. \A r \in Slots \ {s} : RunsOn(r, n)' <=> RunsOn(r, n)
  BY DEF Moves, RunsOn
<1>2. RunsOn(s, n)' <=> n \in WorksOn(c)
  BY DEF Moves, RunsOn
<1>3. ASSUME NEW r \in Slots \ {s}, RunsOn(r, n) PROVE CallOK(call[r], n)'
  <2>1. call'[r] = call[r]
    BY DEF Moves
  <2>2. CallOK(call[r], n) /\ RowsFor(r, n)
    BY <1>3 DEF CallsOK
  <2> QED
    BY <2>1, <2>2, CallKept
<1>4. CallOK(c, n)' => CallOK(call[s], n)'
  BY DEF Moves
<1>5. CallsOK(n)'
  BY <1>1, <1>2, <1>3, <1>4 DEF CallsOK
<1>6. Apart(n)'
  <2> SUFFICES ASSUME NEW p \in Slots, NEW q \in Slots, p # q, RunsOn(p, n)', RunsOn(q, n)'
               PROVE  ~Conflict(call'[p].op, call'[q].op)
    BY DEF Apart
  <2>1. CASE p = s
    BY <1>1, <1>2, <2>1 DEF Moves
  <2>2. CASE q = s
    BY <1>1, <1>2, <2>2, ConflictSymmetric DEF Moves
  <2>3. CASE p # s /\ q # s
    <3>1. call'[p] = call[p] /\ call'[q] = call[q]
      BY <2>3 DEF Moves
    <3> QED
      BY <1>1, <2>3, <3>1 DEF Apart
  <2> QED
    BY <2>1, <2>2, <2>3
<1> QED
  BY <1>5, <1>6

LEMMA RowsKept ==
    ASSUME NEW n, RowsOK(n), acked'[n] = acked[n], ObjectGood(n) => ObjectGood(n)',
           SameAt(db.index, db'.index, n), SameAt(db.payloads, db'.payloads, n),
           SameAt(db.nodes, db'.nodes, n)
    PROVE  RowsOK(n)'
<1> DEFINE og == ObjectGood(n)'
<1>2. ObjectGood(n) => og
  OBVIOUS
<1> HIDE DEF og
<1>3. n \in DOMAIN db'.index =>
         /\ db'.index[n].loc \in {"local", "cloud"}
         /\ db'.index[n].loc = "local" => n \in DOMAIN db'.payloads
         /\ db'.index[n].loc = "cloud" => og
  BY <1>2 DEF RowsOK, SameAt
<1>4. /\ n \in DOMAIN db'.payloads => db'.payloads[n] = acked'[n]
      /\ n \in DOMAIN db'.nodes => db'.nodes[n].props = acked'[n]
      /\ n \notin DOMAIN db'.index => n \in DOMAIN db'.nodes /\ n \notin DOMAIN db'.payloads
  BY DEF RowsOK, SameAt
<1> QED
  BY <1>3, <1>4 DEF RowsOK, og

LEMMA CacheKept ==
    ASSUME NEW s \in Slots, NEW c, NEW n, Moves(s, c), CacheOK(n), acked'[n] = acked[n],
           SameAt(cache, cache', n),
           ~(At(s, "update", "cache") /\ call[s].node = n)
    PROVE  CacheOK(n)'
<1>1. ASSUME NEW r \in Slots, At(r, "update", "cache"), call[r].node = n
      PROVE  At(r, "update", "cache")' /\ call'[r].node = n
  BY <1>1 DEF Moves, At
<1> QED
  BY <1>1 DEF CacheOK, SameAt

(* A step of slot s that writes nothing to acked. *)
LEMMA SlotStep ==
    ASSUME TierInv, NEW s \in Slots, NEW c, Moves(s, c),
           IsDb(db'), EdgesOK(db', wired'), acked' = acked,
           doomed \subseteq doomed', exposed \subseteq exposed',
           gone' \subseteq doomed', doomed' \subseteq Born,
           DOMAIN db'.index \subseteq Born, DOMAIN db'.payloads \subseteq Born,
           DOMAIN db'.nodes \subseteq Born, DOMAIN cache' \subseteq Born,
           WorksOn(c) \subseteq Born,
           \A n \in Live \ exposed : n \notin doomed' \cup exposed' =>
               /\ RowsOK(n)' /\ CacheOK(n)'
               /\ ObjectGood(n) => ObjectGood(n)'
               /\ \A r \in Slots \ {s} : RunsOn(r, n) => RowsFor(r, n)
               /\ n \in WorksOn(c) =>
                     /\ CallOK(c, n)'
                     /\ \A r \in Slots \ {s} : RunsOn(r, n) => ~Conflict(c.op, call[r].op),
           \A n \in gone' \ exposed' : GoneOK(n)'
    PROVE  TierInv'
<1>1. BornOK'
  <2>1. Born' = Born
    BY DEF Born
  <2>2. \A r \in Slots : WorksOn(call'[r]) \subseteq Born
    BY DEF TierInv, BornOK, Moves
  <2> QED
    BY <2>1, <2>2 DEF BornOK, Moves
<1>2. ASSUME NEW n \in (Live \ exposed)'
      PROVE  RowsOK(n)' /\ CacheOK(n)' /\ CallsOK(n)' /\ Apart(n)'
  <2>1. n \in Live \ exposed /\ n \notin doomed' \cup exposed'
    BY <1>2 DEF Live, Born
  <2>2. CallsOK(n) /\ Apart(n) /\ acked'[n] = acked[n]
    BY <2>1 DEF TierInv
  <2>3. CallsOK(n)' /\ Apart(n)'
    BY <2>1, <2>2, CallsKept
  <2> QED
    BY <2>1, <2>3
<1> QED
  BY <1>1, <1>2 DEF TierInv

LEMMA GoneKept ==
    ASSUME NEW s \in Slots, NEW c, Moves(s, c), NEW n, GoneOK(n),
           n \in DOMAIN db'.index => n \in DOMAIN db.index,
           n \in DOMAIN db'.nodes => n \in DOMAIN db.nodes,
           n \in WorksOn(c) => ~Revives(c)
    PROVE  GoneOK(n)'
<1>1. ASSUME NEW r \in Slots, RunsOn(r, n)' PROVE ~Revives(call'[r])
  BY <1>1 DEF Moves, RunsOn, GoneOK
<1> QED
  BY <1>1 DEF GoneOK

(* A step that writes to no tier. *)
LEMMA QuietStep ==
    ASSUME TierInv, NEW s \in Slots, NEW c, Moves(s, c),
           IsDb(db'), SameRows(db, db'), EdgesOK(db', wired'),
           acked' = acked, cache' = cache, bucket' = bucket, doomed' = doomed, gone' = gone,
           exposed \subseteq exposed', WorksOn(c) \subseteq Born,
           ~At(s, "update", "cache"),
           \A n \in Live \ exposed : n \notin exposed' /\ n \in WorksOn(c) =>
               /\ CallOK(c, n)
               /\ \A r \in Slots \ {s} : RunsOn(r, n) => ~Conflict(c.op, call[r].op),
           \A n \in gone \ exposed : n \notin exposed' /\ n \in WorksOn(c) => ~Revives(c)
    PROVE  TierInv'
<1>1. /\ DOMAIN db'.index \subseteq Born /\ DOMAIN db'.payloads \subseteq Born
      /\ DOMAIN db'.nodes \subseteq Born /\ DOMAIN cache' \subseteq Born
      /\ gone' \subseteq doomed' /\ doomed' \subseteq Born /\ doomed \subseteq doomed'
  BY DEF TierInv, BornOK, SameRows
<1>2. ASSUME NEW n \in Live \ exposed, n \notin doomed' \cup exposed'
      PROVE  /\ RowsOK(n)' /\ CacheOK(n)'
             /\ ObjectGood(n) => ObjectGood(n)'
             /\ \A r \in Slots \ {s} : RunsOn(r, n) => RowsFor(r, n)
             /\ n \in WorksOn(c) =>
                   /\ CallOK(c, n)'
                   /\ \A r \in Slots \ {s} : RunsOn(r, n) => ~Conflict(c.op, call[r].op)
  <2>1. RowsOK(n) /\ CacheOK(n)
    BY DEF TierInv
  <2>2. ObjectGood(n) => ObjectGood(n)'
    BY DEF ObjectGood
  <2>3. RowsOK(n)'
    BY <2>1, <2>2, RowsKept DEF SameRows, SameAt
  <2>4. CacheOK(n)'
    BY <2>1, CacheKept DEF SameAt
  <2>5. \A r \in Slots \ {s} : RunsOn(r, n) => RowsFor(r, n)
    BY DEF RowsFor, SameRows
  <2>6. CallOK(c, n) => CallOK(c, n)'
    BY DEF CallOK, IndexOK, ObjectGood, SameRows
  <2> QED
    BY <1>2, <2>2, <2>3, <2>4, <2>5, <2>6
<1>3. ASSUME NEW n \in gone' \ exposed' PROVE GoneOK(n)'
  <2>1. n \in gone \ exposed /\ n \notin exposed' /\ GoneOK(n)
    BY <1>3 DEF TierInv
  <2> QED
    BY <2>1, GoneKept DEF SameRows
<1> QED
  BY <1>1, <1>2, <1>3, SlotStep

LEMMA WorksOnIs ==
    ASSUME NEW c
    PROVE  /\ c.op \in {"insert", "get", "update", "delete", "evict", "promote"} =>
                  WorksOn(c) = {c.node}
           /\ c.op = "batch" => WorksOn(c) = DOMAIN c.todo
           /\ c.op = "list" /\ c.pc = "next" => WorksOn(c) = DOMAIN c.todo
           /\ c.op = "list" /\ c.pc # "next" => WorksOn(c) = {c.node} \cup DOMAIN c.todo
           /\ c.op \in {"idle", "round"} => WorksOn(c) = {}
  BY DEF WorksOn

(* A call that goes on with the node it has stays apart from the others, and so
   does one that starts without exposing its node.                         *)
LEMMA StillApart ==
    ASSUME TierInv, NEW s \in Slots, NEW n \in Live \ exposed, RunsOn(s, n), NEW op,
           op = call[s].op
    PROVE  \A r \in Slots \ {s} : RunsOn(r, n) => ~Conflict(op, call[r].op)
  BY DEF TierInv, Apart

LEMMA FreshApart ==
    ASSUME NEW s \in Slots, NEW op, NEW ns, NEW n \in ns, n \notin Overlaps(s, op, ns)
    PROVE  \A r \in Slots \ {s} : RunsOn(r, n) => ~Conflict(op, call[r].op)
  BY DEF Overlaps

(* Calls on the local tables that leave the rows of nodes alone. *)
LEMMA RestStep ==
    ASSUME TierInv, NEW s \in Slots, call[s] = Idle, call' = call,
           IsDb(db'), SameRows(db, db'), EdgesOK(db', wired'),
           acked' = acked, cache' = cache, bucket' = bucket, doomed' = doomed, gone' = gone,
           exposed \subseteq exposed'
    PROVE  TierInv'
<1> PICK c : c = call[s]
  OBVIOUS
<1>1. Moves(s, c)
  BY RestMoves DEF TierInv
<1>2. c.op = "idle"
  BY DEF Idle
<1>3. WorksOn(c) = {} /\ ~At(s, "update", "cache")
  BY <1>2, WorksOnIs DEF At
<1> QED
  BY <1>1, <1>3, QuietStep

LEMMA GraphAndIndexCalls ==
    ASSUME TierInv, NEW s \in Slots,
           \/ CreateEdge(s) \/ CreateEdgesBatch(s) \/ RemoveEdge(s)
           \/ CreateIndexes(s) \/ DropIndex(s)
    PROVE  TierInv'
<1>1. /\ call[s] = Idle /\ call' = call /\ acked' = acked /\ cache' = cache
      /\ bucket' = bucket /\ doomed' = doomed /\ gone' = gone /\ exposed' = exposed
  BY DEF CreateEdge, CreateEdgesBatch, RemoveEdge, CreateIndexes, DropIndex, history
<1>2. IsDb(db) /\ EdgesOK(db, wired)
  BY DEF TierInv, BornOK
<1>3. CASE CreateEdge(s)
  <2>1. PICK e \in Edges \ wired, row \in EdgeRows : db' = InsertEdge(db, e, row) /\ wired' = wired \cup {e}
    BY <1>3 DEF CreateEdge
  <2>2. /\ IsDb(db') /\ SameRows(db, db')
        /\ db'.edges = Put(db.edges, e, row)
        /\ db'.from = db.from \cup {<<row.from, e>>} /\ db'.to = db.to \cup {<<row.to, e>>}
    BY <1>2, <2>1, InsertEdgeIs
  <2>3. EdgesOK(db', wired')
    BY <1>2, <2>1, <2>2, InsertEdgeOK
  <2> QED
    BY <1>1, <2>2, <2>3, RestStep
<1>4. CASE CreateEdgesBatch(s)
  <2>1. PICK batch : db' = InsertEdgesBatch(db, batch) /\ DOMAIN batch = Edges
    BY <1>4 DEF CreateEdgesBatch
  <2>2. wired = {} /\ wired' = Edges
    BY <1>4 DEF CreateEdgesBatch
  <2>3. IsDb(db') /\ SameRows(db, db') /\ EdgesOK(db', wired')
    BY <1>2, <2>1, <2>2, InsertEdgesBatchIs
  <2> QED
    BY <1>1, <2>3, RestStep
<1>5. CASE RemoveEdge(s)
  <2>1. PICK e : db' = DeleteEdge(db, e)
    BY <1>5 DEF RemoveEdge
  <2>2. wired' = wired
    BY <1>5 DEF RemoveEdge, history
  <2>3. IsDb(db') /\ SameRows(db, db') /\ EdgesOK(db', wired')
    BY <1>2, <2>1, <2>2, DeleteEdgeIs
  <2> QED
    BY <1>1, <2>3, RestStep
<1>6. CASE CreateIndexes(s) \/ DropIndex(s)
  <2>1. PICK t, f : db' \in {CreatePropertyIndex(db, t, f), CreateFulltextIndex(db, t, f),
                             DropPropertyIndex(db, t, f)}
    BY <1>6 DEF CreateIndexes, DropIndex
  <2>2. wired' = wired
    BY <1>6 DEF CreateIndexes, DropIndex, history
  <2>3. IsDb(db') /\ SameRows(db, db') /\ SameEdges(db, db')
    BY <1>2, <2>1, IndexCalls
  <2>4. EdgesOK(db', wired')
    BY <1>2, <2>2, <2>3, SameEdgesOK
  <2> QED
    BY <1>1, <2>3, <2>4, RestStep
<1> QED
  BY <1>3, <1>4, <1>5, <1>6

-------------------------------------------------------------------------------
(* The steps of calls that write to no tier. *)

LEMMA InsertIndexesStep ==
    ASSUME TierInv, NEW s \in Slots, InsertNodeIndexes(s)
    PROVE  TierInv'
<1> PICK o : o = call[s]
  OBVIOUS
<1>1. PICK pc : Goes(s, InsertCall(o.node, pc, o.type, o.props))
  BY DEF InsertNodeIndexes
<1>2. /\ o.op = "insert"
      /\ db' \in {UpdatePropertyIndexes(db, o.node, o.type, o.props),
                  UpdateFulltextIndex(db, o.node, o.type, o.props)}
      /\ acked' = acked /\ cache' = cache /\ bucket' = bucket /\ doomed' = doomed
      /\ gone' = gone /\ exposed' = exposed /\ wired' = wired
  BY DEF InsertNodeIndexes, At, history
<1> PICK c : c = InsertCall(o.node, pc, o.type, o.props)
  OBVIOUS
<1>3. c.op = "insert" /\ c.node = o.node /\ c.props = o.props
  BY DEF InsertCall
<1>4. Moves(s, c)
  BY <1>1, GoesMoves DEF TierInv
<1>5. IsDb(db') /\ SameRows(db, db') /\ EdgesOK(db', wired')
  BY <1>2, IndexCalls, SameEdgesOK DEF TierInv, BornOK
<1>6. WorksOn(c) = {o.node} /\ WorksOn(o) = {o.node}
  BY <1>2, <1>3, WorksOnIs
<1>7. WorksOn(c) \subseteq Born /\ ~At(s, "update", "cache")
  BY <1>2, <1>6 DEF TierInv, BornOK, At
<1>8. ASSUME NEW n \in Live \ exposed, n \in WorksOn(c)
      PROVE  CallOK(c, n) /\ \A r \in Slots \ {s} : RunsOn(r, n) => ~Conflict(c.op, call[r].op)
  <2>1. RunsOn(s, n)
    BY <1>6, <1>8 DEF RunsOn
  <2>2. CallOK(o, n)
    BY <2>1 DEF TierInv, CallsOK
  <2>3. CallOK(c, n)
    BY <1>2, <1>3, <2>2 DEF CallOK, Reads
  <2> QED
    BY <1>2, <1>3, <2>1, <2>3, StillApart
<1>9. ~Revives(c)
  BY <1>3 DEF Revives
<1> QED
  BY <1>2, <1>4, <1>5, <1>7, <1>8, <1>9, QuietStep

(* What a read of the index record of a live node finds. *)
LEMMA IndexRead ==
    ASSUME TierInv, NEW n \in Live \ exposed, NEW index \in GetNodeIndex(db, n)
    PROVE  IndexOK(index, n)
  BY DurableIs DEF TierInv

LEMMA ReadStartStep ==
    ASSUME TierInv, NEW s \in Slots, ReadStart(s)
    PROVE  TierInv'
<1>0. PICK n \in Born, op \in {"get", "update"} :
         /\ \E index, new : /\ index \in GetNodeIndex(db, n)
                          /\ Goes(s, ReadCall(op, n, index, new, <<>>))
         /\ exposed' = exposed \cup Overlaps(s, op, {n})
  BY DEF ReadStart
<1>1. PICK index, new : /\ index \in GetNodeIndex(db, n)
                        /\ Goes(s, ReadCall(op, n, index, new, <<>>))
                        /\ exposed' = exposed \cup Overlaps(s, op, {n})
  BY <1>0
<1>2. /\ call[s] = Idle /\ db' = db /\ acked' = acked /\ cache' = cache /\ bucket' = bucket
      /\ doomed' = doomed /\ gone' = gone /\ wired' = wired
  BY DEF ReadStart
<1> PICK c : c = ReadCall(op, n, index, new, <<>>)
  OBVIOUS
<1>3. c.op = op /\ c.node = n /\ c.pc = "resolve" /\ c.index = index
  BY DEF ReadCall
<1>4. Moves(s, c)
  BY <1>1, GoesMoves DEF TierInv
<1>5. WorksOn(c) = {n}
  BY <1>3, WorksOnIs
<1>6. ~At(s, "update", "cache")
  BY <1>2 DEF At, Idle
<1>7. IsDb(db') /\ SameRows(db, db') /\ EdgesOK(db', wired')
  BY <1>2 DEF TierInv, BornOK, SameRows
<1>8. ASSUME n \in Live \ exposed, n \notin exposed'
      PROVE  CallOK(c, n) /\ \A r \in Slots \ {s} : RunsOn(r, n) => ~Conflict(c.op, call[r].op)
  <2>1. IndexOK(c.index, n)
    BY <1>1, <1>3, <1>8, IndexRead
  <2>2. CallOK(c, n)
    BY <1>3, <2>1 DEF CallOK, Reads
  <2>3. n \notin Overlaps(s, op, {n})
    BY <1>1, <1>8
  <2> QED
    BY <1>3, <2>2, <2>3, FreshApart
<1>9. n \notin gone \ exposed
  BY <1>1 DEF TierInv, GoneOK, GetNodeIndex, GetNode
<1> QED
  BY <1>1, <1>2, <1>4, <1>5, <1>6, <1>7, <1>8, <1>9, QuietStep

LEMMA ListStartStep ==
    ASSUME TierInv, NEW s \in Slots, ListStart(s)
    PROVE  TierInv'
<1>1. PICK t :
         LET listed == GetNodeIndexesByType(db, t) IN
         /\ Goes(s, ListCall([n \in listed |-> CHOOSE index \in GetNodeIndex(db, n) : TRUE]))
         /\ exposed' = exposed \cup Overlaps(s, "list", listed)
  BY DEF ListStart
<1>2. /\ call[s] = Idle /\ db' = db /\ acked' = acked /\ cache' = cache /\ bucket' = bucket
      /\ doomed' = doomed /\ gone' = gone /\ wired' = wired
  BY DEF ListStart
<1> PICK listed, todo :
       /\ listed = GetNodeIndexesByType(db, t)
       /\ todo = [n \in listed |-> CHOOSE index \in GetNodeIndex(db, n) : TRUE]
  OBVIOUS
<1> PICK c : c = ListCall(todo)
  OBVIOUS
<1>3. c.op = "list" /\ c.pc = "next" /\ c.todo = todo
  BY DEF ListCall
<1>4. Moves(s, c)
  BY <1>1, GoesMoves DEF TierInv
<1>5. WorksOn(c) = listed
  BY <1>3, WorksOnIs
<1>6. ~At(s, "update", "cache")
  BY <1>2 DEF At, Idle
<1>7. IsDb(db') /\ SameRows(db, db') /\ EdgesOK(db', wired')
  BY <1>2 DEF TierInv, BornOK, SameRows
<1>8. listed \subseteq Born
  BY DEF GetNodeIndexesByType, TierInv, BornOK
<1>9. ASSUME NEW n \in Live \ exposed, n \notin exposed', n \in listed
      PROVE  CallOK(c, n) /\ \A r \in Slots \ {s} : RunsOn(r, n) => ~Conflict(c.op, call[r].op)
  <2>1. GetNodeIndex(db, n) # {}
    BY DurableIs DEF TierInv
  <2>2. todo[n] \in GetNodeIndex(db, n)
    BY <1>9, <2>1
  <2>3. IndexOK(c.todo[n], n)
    BY <1>3, <2>2, IndexRead
  <2>4. CallOK(c, n)
    BY <1>3, <2>3 DEF CallOK, Reads
  <2>5. n \notin Overlaps(s, "list", listed)
    BY <1>1, <1>9
  <2> QED
    BY <1>3, <1>9, <2>4, <2>5, FreshApart
<1>10. ~Revives(c)
  BY <1>3 DEF Revives
<1>11. exposed \subseteq exposed'
  BY <1>1
<1> QED
  BY <1>2, <1>4, <1>5, <1>6, <1>7, <1>8, <1>9, <1>10, <1>11, QuietStep

LEMMA ListNextStep ==
    ASSUME TierInv, NEW s \in Slots, ListNext(s)
    PROVE  TierInv'
<1> PICK o : o = call[s]
  OBVIOUS
<1>1. PICK m \in DOMAIN o.todo :
         Goes(s, ReadCall("list", m, o.todo[m], <<>>, Without(o.todo, {m})))
  BY DEF ListNext
<1>2. /\ o.op = "list" /\ o.pc = "next"
      /\ db' = db /\ acked' = acked /\ cache' = cache /\ bucket' = bucket
      /\ doomed' = doomed /\ gone' = gone /\ wired' = wired /\ exposed' = exposed
  BY DEF ListNext, At, history
<1> PICK rest, c : rest = Without(o.todo, {m}) /\ c = ReadCall("list", m, o.todo[m], <<>>, rest)
  OBVIOUS
<1>3. /\ c.op = "list" /\ c.pc = "resolve" /\ c.node = m /\ c.index = o.todo[m] /\ c.todo = rest
      /\ c.op = o.op
  BY <1>2 DEF ReadCall
<1>4. Moves(s, c)
  BY <1>1, GoesMoves DEF TierInv
<1>5. DOMAIN rest = DOMAIN o.todo \ {m} /\ \A n \in DOMAIN rest : rest[n] = o.todo[n]
  BY DEF Without, Restrict
<1>6. WorksOn(c) = {m} \cup DOMAIN rest /\ WorksOn(o) = DOMAIN o.todo
  BY <1>2, <1>3, WorksOnIs
<1>7. WorksOn(c) \subseteq WorksOn(o)
  BY <1>5, <1>6
<1>8. WorksOn(c) \subseteq Born /\ ~At(s, "update", "cache")
  BY <1>2, <1>7 DEF TierInv, BornOK, At
<1>9. IsDb(db') /\ SameRows(db, db') /\ EdgesOK(db', wired')
  BY <1>2 DEF TierInv, BornOK, SameRows
<1>10. ASSUME NEW n \in Live \ exposed, n \in WorksOn(c)
       PROVE  CallOK(c, n) /\ \A r \in Slots \ {s} : RunsOn(r, n) => ~Conflict(c.op, call[r].op)
  <2>1. RunsOn(s, n) /\ n \in DOMAIN o.todo
    BY <1>6, <1>7, <1>10 DEF RunsOn
  <2>2. IndexOK(o.todo[n], n)
    BY <1>2, <2>1 DEF TierInv, CallsOK, CallOK
  <2>3. CallOK(c, n)
    BY <1>3, <1>5, <2>2 DEF CallOK, Reads
  <2> QED
    BY <1>3, <2>1, <2>3, StillApart
<1>11. ~Revives(c)
  BY <1>3 DEF Revives
<1> QED
  BY <1>2, <1>4, <1>8, <1>9, <1>10, <1>11, QuietStep

(* What the payload read behind an index record is. *)
LEMMA FetchedIs ==
    ASSUME TierInv, NEW n \in Live \ exposed, NEW index, IndexOK(index, n),
           NEW p \in Fetched(index.loc, n)
    PROVE  p = acked[n]
<1>1. RowsOK(n)
  BY DEF TierInv
<1>2. CASE index.loc = "local"
  BY <1>1, <1>2, DurableIs DEF Fetched
<1>3. CASE index.loc = "cloud"
  BY <1>3 DEF Fetched, IndexOK, ObjectGood
<1> QED
  BY <1>2, <1>3 DEF IndexOK

(* The call after a payload that is acked[n] is at hand. *)
LEMMA ResolvedOK ==
    ASSUME NEW o, o.op \in Reads, NEW payload, NEW c, c = Resolved(o, payload)
    PROVE  /\ WorksOn(c) \subseteq DOMAIN o.todo \cup {o.node}
           /\ WorksOn(c) \subseteq WorksOn(o)
           /\ WorksOn(c) # {} => c.op = o.op
           /\ Revives(c) => o.op = "update"
           /\ \A n : n \in WorksOn(c) /\ CallOK(o, n) /\ (n = o.node => payload = acked[n])
                        => CallOK(c, n)
<1>1. CASE o.op = "update"
  <2>1. /\ c.op = "update" /\ c.node = o.node /\ c.pc = "commit" /\ c.new = o.new
        /\ c.props = Merge(payload, o.new)
    BY <1>1 DEF Resolved
  <2>2. WorksOn(c) = {o.node} /\ WorksOn(o) = {o.node}
    BY <1>1, <2>1, WorksOnIs
  <2> QED
    BY <1>1, <2>1, <2>2 DEF CallOK, Reads, Revives
<1>2. CASE o.op = "list" /\ DOMAIN o.todo # {}
  <2>1. c.op = "list" /\ c.pc = "next" /\ c.todo = o.todo
    BY <1>2 DEF Resolved, ListCall
  <2>2. WorksOn(c) = DOMAIN o.todo /\ WorksOn(c) \subseteq WorksOn(o)
    BY <1>2, <2>1, WorksOnIs
  <2> QED
    BY <1>2, <2>1, <2>2 DEF CallOK, Reads, Revives
<1>3. CASE o.op \in {"get", "list"} /\ ~(o.op = "list" /\ DOMAIN o.todo # {})
  <2>1. c.op = "idle"
    BY <1>3 DEF Resolved, Idle
  <2>2. WorksOn(c) = {}
    BY <2>1, WorksOnIs
  <2> QED
    BY <2>1, <2>2 DEF Revives
<1> QED
  BY <1>1, <1>2, <1>3 DEF Reads

LEMMA ResolveCachedStep ==
    ASSUME TierInv, NEW s \in Slots, ResolveCached(s)
    PROVE  TierInv'
<1> PICK o : o = call[s]
  OBVIOUS
<1>1. /\ o.op \in Reads /\ o.pc = "resolve" /\ o.node \in DOMAIN cache
      /\ Goes(s, Resolved(o, cache[o.node]))
      /\ db' = db /\ acked' = acked /\ cache' = cache /\ bucket' = bucket
      /\ doomed' = doomed /\ gone' = gone /\ wired' = wired /\ exposed' = exposed
  BY DEF ResolveCached, Reads, history
<1> PICK payload, c : payload = cache[o.node] /\ c = Resolved(o, payload)
  OBVIOUS
<1>2. /\ WorksOn(c) \subseteq WorksOn(o)
      /\ WorksOn(c) # {} => c.op = o.op
      /\ Revives(c) => o.op = "update"
      /\ \A n : n \in WorksOn(c) /\ CallOK(o, n) /\ (n = o.node => payload = acked[n])
                   => CallOK(c, n)
  BY <1>1, ResolvedOK
<1>3. Moves(s, c)
  BY <1>1, GoesMoves DEF TierInv
<1>4. WorksOn(c) \subseteq Born /\ ~At(s, "update", "cache")
  BY <1>1, <1>2 DEF TierInv, BornOK, At
<1>5. IsDb(db') /\ SameRows(db, db') /\ EdgesOK(db', wired')
  BY <1>1 DEF TierInv, BornOK, SameRows
<1>6. ASSUME NEW n \in Live \ exposed, n \in WorksOn(c)
      PROVE  CallOK(c, n) /\ \A r \in Slots \ {s} : RunsOn(r, n) => ~Conflict(c.op, call[r].op)
  <2>1. RunsOn(s, n) /\ c.op = o.op
    BY <1>2, <1>6 DEF RunsOn
  <2>2. CallOK(o, n) /\ CacheOK(n) /\ Apart(n)
    BY <2>1 DEF TierInv, CallsOK
  <2>3. ASSUME n = o.node PROVE payload = acked[n]
    <3>1. ASSUME NEW r \in Slots, At(r, "update", "cache"), call[r].node = n PROVE FALSE
      <4>1. call[r].op = "update" /\ r # s
        BY <1>1, <3>1 DEF At
      <4>2. RunsOn(r, n)
        BY <3>1, <4>1, WorksOnIs DEF RunsOn
      <4>3. Conflict(call[r].op, call[s].op)
        BY <1>1, <4>1 DEF Conflict, Reads
      <4> QED
        BY <2>1, <2>2, <4>1, <4>2, <4>3 DEF Apart
    <3> QED
      BY <1>1, <2>2, <2>3, <3>1 DEF CacheOK
  <2>4. CallOK(c, n)
    BY <1>2, <1>6, <2>2, <2>3
  <2> QED
    BY <2>1, <2>4, StillApart
<1>7. ASSUME NEW n \in gone \ exposed, n \in WorksOn(c) PROVE ~Revives(c)
  BY <1>2, <1>7 DEF TierInv, GoneOK, RunsOn, Revives
<1> QED
  BY <1>1, <1>3, <1>4, <1>5, <1>6, <1>7, QuietStep

LEMMA ResolveFetchStep ==
    ASSUME TierInv, NEW s \in Slots, ResolveFetch(s)
    PROVE  TierInv'
<1> PICK o : o = call[s]
  OBVIOUS
<1>1. /\ o.op \in Reads /\ o.pc = "resolve"
      /\ db' = db /\ acked' = acked /\ cache' = cache /\ bucket' = bucket
      /\ doomed' = doomed /\ gone' = gone /\ wired' = wired /\ exposed' = exposed
  BY DEF ResolveFetch, Reads, history
<1>2. ~At(s, "update", "cache") /\ WorksOn(o) \subseteq Born
  BY <1>1 DEF At, TierInv, BornOK
<1>3. IsDb(db') /\ SameRows(db, db') /\ EdgesOK(db', wired')
  BY <1>1 DEF TierInv, BornOK, SameRows
<1>4. CASE Goes(s, Idle)
  <2> PICK c : c = Idle
    OBVIOUS
  <2>1. Moves(s, c)
    BY <1>4, GoesMoves DEF TierInv
  <2>2. WorksOn(c) = {}
    BY WorksOnIs DEF Idle
  <2> QED
    BY <1>1, <1>2, <1>3, <2>1, <2>2, QuietStep
<1>5. ASSUME NEW p \in Fetched(o.index.loc, o.node),
             Goes(s, WarmCall(o.op, o.node, o.index, o.new, o.todo, p))
      PROVE  TierInv'
  <2> PICK c : c = WarmCall(o.op, o.node, o.index, o.new, o.todo, p)
    OBVIOUS
  <2>1. c.op = o.op /\ c.node = o.node /\ c.pc = "warm" /\ c.todo = o.todo /\ c.props = p
    BY DEF WarmCall
  <2>2. Moves(s, c)
    BY <1>5, GoesMoves DEF TierInv
  <2>3. WorksOn(c) = WorksOn(o)
    <3>1. CASE o.op = "list"
      BY <1>1, <2>1, <3>1, WorksOnIs
    <3>2. CASE o.op # "list"
      BY <1>1, <2>1, <3>2, WorksOnIs DEF Reads
    <3> QED
      BY <3>1, <3>2
  <2>4. ASSUME NEW n \in Live \ exposed, n \in WorksOn(c)
        PROVE  CallOK(c, n) /\ \A r \in Slots \ {s} : RunsOn(r, n) => ~Conflict(c.op, call[r].op)
    <3>1. RunsOn(s, n)
      BY <2>3, <2>4 DEF RunsOn
    <3>2. CallOK(o, n)
      BY <3>1 DEF TierInv, CallsOK
    <3>3. ASSUME n = o.node PROVE p = acked[n]
      <4>1. IndexOK(o.index, n)
        BY <1>1, <3>2, <3>3 DEF CallOK
      <4> QED
        BY <1>5, <3>3, <4>1, FetchedIs
    <3>4. CallOK(c, n)
      BY <1>1, <2>1, <3>2, <3>3 DEF CallOK, Reads
    <3> QED
      BY <2>1, <3>1, <3>4, StillApart
  <2>5. ASSUME NEW n \in gone \ exposed, n \in WorksOn(c) PROVE ~Revives(c)
    BY <1>1, <2>1, <2>3, <2>5 DEF TierInv, GoneOK, RunsOn, Revives, Reads
  <2> QED
    BY <1>1, <1>2, <1>3, <2>2, <2>3, <2>4, <2>5, QuietStep
<1> QED
  BY <1>4, <1>5 DEF ResolveFetch

(* A call that ends, or an eviction round between two nodes. *)
LEMMA EndStep ==
    ASSUME TierInv, NEW s \in Slots, NEW c, Goes(s, c), c.op \in {"idle", "round"},
           ~At(s, "update", "cache"), db' = db, acked' = acked, cache' = cache,
           bucket' = bucket, doomed' = doomed, gone' = gone, wired' = wired, exposed' = exposed
    PROVE  TierInv'
<1>1. Moves(s, c)
  BY GoesMoves DEF TierInv
<1>2. WorksOn(c) = {}
  BY WorksOnIs
<1>3. IsDb(db') /\ SameRows(db, db') /\ EdgesOK(db', wired')
  BY DEF TierInv, BornOK, SameRows
<1> QED
  BY <1>1, <1>2, <1>3, QuietStep

LEMMA RoundSteps ==
    ASSUME TierInv, NEW s \in Slots, RunEviction(s) \/ RunEvictionEnd(s)
    PROVE  TierInv'
<1>1. /\ db' = db /\ acked' = acked /\ cache' = cache /\ bucket' = bucket
      /\ doomed' = doomed /\ gone' = gone /\ wired' = wired /\ exposed' = exposed
  BY DEF RunEviction, RunEvictionEnd, history
<1>2. PICK c : Goes(s, c) /\ c.op \in {"idle", "round"}
  <2>1. \A todo, shed : RoundCall(todo, shed).op = "round"
    BY DEF RoundCall
  <2>2. Idle.op = "idle"
    BY DEF Idle
  <2> QED
    BY <2>1, <2>2 DEF RunEviction, RunEvictionEnd
<1>3. ~At(s, "update", "cache")
  BY DEF RunEviction, RunEvictionEnd, At, Idle
<1> QED
  BY <1>1, <1>2, <1>3, EndStep

(* A call that starts on node n with what it has read of it. *)
LEMMA StartStep ==
    ASSUME TierInv, NEW s \in Slots, NEW c, Goes(s, c), NEW n \in Born,
           WorksOn(c) = {n}, ~At(s, "update", "cache"), ~Revives(c),
           exposed \subseteq exposed', Overlaps(s, c.op, {n}) \subseteq exposed',
           db' = db, acked' = acked, cache' = cache, bucket' = bucket, doomed' = doomed,
           gone' = gone, wired' = wired,
           n \in Live \ exposed /\ n \notin exposed' => CallOK(c, n)
    PROVE  TierInv'
<1>1. Moves(s, c)
  BY GoesMoves DEF TierInv
<1>2. IsDb(db') /\ SameRows(db, db') /\ EdgesOK(db', wired')
  BY DEF TierInv, BornOK, SameRows
<1>3. n \notin exposed' => \A r \in Slots \ {s} : RunsOn(r, n) => ~Conflict(c.op, call[r].op)
  BY FreshApart
<1> QED
  BY <1>1, <1>2, <1>3, QuietStep

LEMMA EvictReadStep ==
    ASSUME TierInv, NEW s \in Slots, EvictRead(s)
    PROVE  TierInv'
<1> PICK o : o = call[s]
  OBVIOUS
<1>1. /\ o.op = "round"
      /\ db' = db /\ acked' = acked /\ cache' = cache /\ bucket' = bucket
      /\ doomed' = doomed /\ gone' = gone /\ wired' = wired
  BY DEF EvictRead
<1>2. ~At(s, "update", "cache")
  BY <1>1 DEF At
<1>3. ASSUME NEW n, Goes(s, Back(o, n, 0)), exposed' = exposed
      PROVE  TierInv'
  <2> PICK c : c = Back(o, n, 0)
    OBVIOUS
  <2>1. c.op = "round"
    BY DEF Back, RoundCall
  <2> QED
    BY <1>1, <1>2, <1>3, <2>1, EndStep
<1>4. ASSUME NEW n, NEW p \in GetPayload(db, n),
             Goes(s, EvictCall(n, "upload", p, o.todo, o.shed)),
             exposed' = exposed \cup Overlaps(s, "evict", {n})
      PROVE  TierInv'
  <2> PICK c : c = EvictCall(n, "upload", p, o.todo, o.shed)
    OBVIOUS
  <2>1. c.op = "evict" /\ c.node = n /\ c.pc = "upload" /\ c.props = p
    BY DEF EvictCall
  <2>2. n \in Born
    BY <1>4 DEF GetPayload, GetNode, TierInv, BornOK
  <2>3. WorksOn(c) = {n} /\ ~Revives(c)
    BY <2>1, WorksOnIs DEF Revives
  <2>4. n \in Live \ exposed => p = acked[n]
    BY <1>4, DurableIs DEF TierInv
  <2>5. n \in Live \ exposed => CallOK(c, n)
    BY <2>1, <2>4 DEF CallOK, Reads
  <2>6. exposed \subseteq exposed' /\ Overlaps(s, c.op, {n}) \subseteq exposed'
    BY <1>4, <2>1
  <2> QED
    BY <1>1, <1>2, <1>4, <2>2, <2>3, <2>5, <2>6, StartStep
<1> QED
  BY <1>3, <1>4 DEF EvictRead

LEMMA PromoteFetchStep ==
    ASSUME TierInv, NEW s \in Slots, PromoteFetch(s)
    PROVE  TierInv'
<1>1. PICK n \in Born :
         /\ n \in DOMAIN bucket
         /\ Goes(s, PromoteCall(n, "write", bucket[n]))
         /\ exposed' = exposed \cup Overlaps(s, "promote", {n}) \cup
               (IF \E index \in GetNodeIndex(db, n) : index.loc = "local" THEN {n} ELSE {})
  BY DEF PromoteFetch
<1>2. /\ call[s] = Idle
      /\ db' = db /\ acked' = acked /\ cache' = cache /\ bucket' = bucket
      /\ doomed' = doomed /\ gone' = gone /\ wired' = wired
  BY DEF PromoteFetch
<1> PICK p, c : p = bucket[n] /\ c = PromoteCall(n, "write", p)
  OBVIOUS
<1>3. c.op = "promote" /\ c.node = n /\ c.pc = "write" /\ c.props = p
  BY DEF PromoteCall
<1>4. WorksOn(c) = {n} /\ ~Revives(c) /\ ~At(s, "update", "cache")
  BY <1>2, <1>3, WorksOnIs DEF Revives, At, Idle
<1>5. exposed \subseteq exposed' /\ Overlaps(s, c.op, {n}) \subseteq exposed'
  BY <1>1, <1>3
<1>6. ASSUME n \in Live \ exposed, n \notin exposed' PROVE CallOK(c, n)
  <2>1. PICK index : index \in GetNodeIndex(db, n)
    BY <1>6, DurableIs DEF TierInv
  <2>2. IndexOK(index, n) /\ index.loc # "local"
    BY <1>1, <1>6, <2>1, IndexRead
  <2>3. ObjectGood(n)
    BY <2>2 DEF IndexOK
  <2>4. n \in DOMAIN db.index
    BY <2>1, <2>2 DEF GetNodeIndex, IndexRecord
  <2>5. p = acked[n]
    BY <2>3 DEF ObjectGood
  <2> QED
    BY <1>3, <2>4, <2>5 DEF CallOK, Reads
<1> QED
  BY <1>1, <1>2, <1>4, <1>5, <1>6, StartStep

LEMMA PrefetchStep ==
    ASSUME TierInv, NEW s \in Slots, Prefetch(s)
    PROVE  TierInv'
<1>1. PICK m, p :
         /\ p \in GetPayload(db, m)
         /\ Goes(s, WarmCall("get", m, IndexRecord("none", "local", p), <<>>, <<>>, p))
         /\ exposed' = exposed \cup Overlaps(s, "get", {m})
  BY DEF Prefetch
<1>2. /\ call[s] = Idle
      /\ db' = db /\ acked' = acked /\ cache' = cache /\ bucket' = bucket
      /\ doomed' = doomed /\ gone' = gone /\ wired' = wired
  BY DEF Prefetch
<1> PICK c : c = WarmCall("get", m, IndexRecord("none", "local", p), <<>>, <<>>, p)
  OBVIOUS
<1>3. c.op = "get" /\ c.node = m /\ c.pc = "warm" /\ c.props = p
  BY DEF WarmCall
<1>4. m \in Born
  BY <1>1 DEF GetPayload, GetNode, TierInv, BornOK
<1>5. WorksOn(c) = {m} /\ ~Revives(c) /\ ~At(s, "update", "cache")
  BY <1>2, <1>3, WorksOnIs DEF Revives, At, Idle
<1>6. exposed \subseteq exposed' /\ Overlaps(s, c.op, {m}) \subseteq exposed'
  BY <1>1, <1>3
<1>7. m \in Live \ exposed => p = acked[m]
  BY <1>1, DurableIs DEF TierInv
<1>8. m \in Live \ exposed => CallOK(c, m)
  BY <1>3, <1>7 DEF CallOK, Reads
<1> QED
  BY <1>1, <1>2, <1>4, <1>5, <1>6, <1>8, StartStep

(* A call that goes on with the node it has. *)
LEMMA NextStep ==
    ASSUME TierInv, NEW s \in Slots, NEW c, Goes(s, c), NEW n, WorksOn(call[s]) = {n},
           WorksOn(c) = {n}, c.op = call[s].op, ~At(s, "update", "cache"),
           db' = db, acked' = acked, cache' = cache, bucket' = bucket, doomed' = doomed,
           gone' = gone, wired' = wired, exposed' = exposed,
           n \in Live \ exposed /\ CallOK(call[s], n) => CallOK(c, n),
           n \in gone \ exposed => ~Revives(c)
    PROVE  TierInv'
<1>1. Moves(s, c)
  BY GoesMoves DEF TierInv
<1>2. IsDb(db') /\ SameRows(db, db') /\ EdgesOK(db', wired')
  BY DEF TierInv, BornOK, SameRows
<1>3. n \in Born /\ RunsOn(s, n)
  BY DEF TierInv, BornOK, RunsOn
<1>4. n \in Live \ exposed => CallOK(c, n)
  BY <1>3 DEF TierInv, CallsOK
<1>5. n \in Live \ exposed =>
         \A r \in Slots \ {s} : RunsOn(r, n) => ~Conflict(c.op, call[r].op)
  BY <1>3, StillApart
<1> QED
  BY <1>1, <1>2, <1>3, <1>4, <1>5, QuietStep

LEMMA EvictIndexStep ==
    ASSUME TierInv, NEW s \in Slots, EvictIndex(s)
    PROVE  TierInv'
<1> PICK o : o = call[s]
  OBVIOUS
<1>1. /\ o.op = "evict" /\ o.pc = "index"
      /\ db' = db /\ acked' = acked /\ cache' = cache /\ bucket' = bucket
      /\ doomed' = doomed /\ gone' = gone /\ wired' = wired /\ exposed' = exposed
  BY DEF EvictIndex, At, history
<1>2. ~At(s, "update", "cache") /\ WorksOn(call[s]) = {o.node}
  BY <1>1, WorksOnIs DEF At
<1>3. ASSUME NEW index \in GetNodeIndex(db, o.node),
             Goes(s, PointCall(o.node, o.props, o.todo, o.shed, index))
      PROVE  TierInv'
  <2> PICK c : c = PointCall(o.node, o.props, o.todo, o.shed, index)
    OBVIOUS
  <2>1. c.op = "evict" /\ c.node = o.node /\ c.pc = "point" /\ c.props = o.props
    BY DEF PointCall
  <2>2. WorksOn(c) = {o.node}
    BY <2>1, WorksOnIs
  <2>3. CallOK(o, o.node) => CallOK(c, o.node)
    BY <1>1, <2>1 DEF CallOK, Reads
  <2>4. o.node \notin gone \ exposed
    BY <1>3 DEF TierInv, GoneOK, GetNodeIndex, GetNode
  <2> QED
    BY <1>1, <1>2, <1>3, <2>1, <2>2, <2>3, <2>4, NextStep
<1>4. ASSUME GetNodeIndex(db, o.node) = {},
             Goes(s, EvictCall(o.node, "drop", o.props, o.todo, o.shed))
      PROVE  TierInv'
  <2> PICK c : c = EvictCall(o.node, "drop", o.props, o.todo, o.shed)
    OBVIOUS
  <2>1. c.op = "evict" /\ c.node = o.node /\ c.pc = "drop" /\ c.props = o.props
    BY DEF EvictCall
  <2>2. WorksOn(c) = {o.node} /\ ~Revives(c)
    BY <2>1, WorksOnIs DEF Revives
  <2>3. o.node \notin Live \ exposed
    BY <1>4, DurableIs DEF TierInv
  <2> QED
    BY <1>1, <1>2, <1>4, <2>1, <2>2, <2>3, NextStep
<1> QED
  BY <1>3, <1>4 DEF EvictIndex

LEMMA PromoteIndexStep ==
    ASSUME TierInv, NEW s \in Slots, PromoteIndex(s)
    PROVE  TierInv'
<1> PICK o : o = call[s]
  OBVIOUS
<1>1. /\ o.op = "promote" /\ o.pc = "index"
      /\ db' = db /\ acked' = acked /\ cache' = cache /\ bucket' = bucket
      /\ doomed' = doomed /\ gone' = gone /\ wired' = wired /\ exposed' = exposed
  BY DEF PromoteIndex, At, history
<1>2. ~At(s, "update", "cache") /\ WorksOn(call[s]) = {o.node}
  BY <1>1, WorksOnIs DEF At
<1>3. CASE GetNodeIndex(db, o.node) = {}
  <2>1. Goes(s, Idle)
    BY <1>3 DEF PromoteIndex
  <2>2. Idle.op = "idle"
    BY DEF Idle
  <2> QED
    BY <1>1, <1>2, <2>1, <2>2, EndStep
<1>4. CASE GetNodeIndex(db, o.node) # {}
  <2>1. PICK index : Goes(s, [op |-> "promote", node |-> o.node, pc |-> "point",
                              index |-> index])
    BY <1>4 DEF PromoteIndex
  <2> PICK c : c = [op |-> "promote", node |-> o.node, pc |-> "point", index |-> index]
    OBVIOUS
  <2>2. c.op = "promote" /\ c.node = o.node /\ c.pc = "point"
    OBVIOUS
  <2>3. WorksOn(c) = {o.node}
    BY <2>2, WorksOnIs
  <2>4. CallOK(o, o.node) => CallOK(c, o.node)
    BY <1>1, <2>2 DEF CallOK, Reads
  <2>5. o.node \notin gone \ exposed
    BY <1>4 DEF TierInv, GoneOK, GetNodeIndex, GetNode
  <2> QED
    BY <1>1, <1>2, <2>1, <2>2, <2>3, <2>4, <2>5, NextStep
<1> QED
  BY <1>3, <1>4

-------------------------------------------------------------------------------
(* The steps that write the cache or the bucket. *)

LEMMA CacheStep ==
    ASSUME TierInv, NEW s \in Slots, NEW c, Moves(s, c), NEW m \in Born, NEW p,
           cache' = Put(cache, m, p), m \in Live \ exposed => p = acked[m],
           db' = db, acked' = acked, bucket' = bucket, doomed' = doomed, gone' = gone,
           wired' = wired, exposed' = exposed,
           WorksOn(c) \subseteq WorksOn(call[s]), WorksOn(c) # {} => c.op = call[s].op,
           \A n \in Live \ exposed : n \in WorksOn(c) /\ CallOK(call[s], n) => CallOK(c, n),
           At(s, "update", "cache") => call[s].node = m,
           Revives(c) => Revives(call[s])
    PROVE  TierInv'
<1>1. /\ IsDb(db') /\ EdgesOK(db', wired')
      /\ doomed \subseteq doomed' /\ exposed \subseteq exposed'
      /\ gone' \subseteq doomed' /\ doomed' \subseteq Born
      /\ DOMAIN db'.index \subseteq Born /\ DOMAIN db'.payloads \subseteq Born
      /\ DOMAIN db'.nodes \subseteq Born /\ WorksOn(c) \subseteq Born
  BY DEF TierInv, BornOK
<1>2. DOMAIN cache' \subseteq Born
  BY DEF TierInv, BornOK, Put
<1>3. ASSUME NEW n \in Live \ exposed
      PROVE  /\ RowsOK(n)' /\ CacheOK(n)'
             /\ ObjectGood(n) => ObjectGood(n)'
             /\ \A r \in Slots \ {s} : RunsOn(r, n) => RowsFor(r, n)
             /\ n \in WorksOn(c) =>
                   /\ CallOK(c, n)'
                   /\ \A r \in Slots \ {s} : RunsOn(r, n) => ~Conflict(c.op, call[r].op)
  <2>1. RowsOK(n) /\ CacheOK(n) /\ CallsOK(n)
    BY DEF TierInv
  <2>2. ObjectGood(n) => ObjectGood(n)'
    BY DEF ObjectGood
  <2>3. RowsOK(n)'
    BY <2>1, <2>2, RowsKept DEF SameAt
  <2>4. CacheOK(n)'
    <3>1. CASE n = m
      <4>1. cache'[n] = acked'[n]
        BY <1>3, <3>1 DEF Put
      <4> QED
        BY <4>1 DEF CacheOK
    <3>2. CASE n # m
      BY <2>1, <3>2, CacheKept, PutSame
    <3> QED
      BY <3>1, <3>2
  <2>5. \A r \in Slots \ {s} : RunsOn(r, n) => RowsFor(r, n)
    BY DEF RowsFor
  <2>6. CallOK(c, n) => CallOK(c, n)'
    BY DEF CallOK, IndexOK, ObjectGood
  <2>7. ASSUME n \in WorksOn(c)
        PROVE  CallOK(c, n) /\ \A r \in Slots \ {s} : RunsOn(r, n) => ~Conflict(c.op, call[r].op)
    <3>1. RunsOn(s, n) /\ c.op = call[s].op
      BY <2>7 DEF RunsOn
    <3>2. CallOK(c, n)
      BY <2>1, <2>7, <3>1 DEF CallsOK
    <3> QED
      BY <3>1, <3>2, StillApart
  <2> QED
    BY <2>2, <2>3, <2>4, <2>5, <2>6, <2>7
<1>4. ASSUME NEW n \in gone' \ exposed' PROVE GoneOK(n)'
  <2>1. GoneOK(n)
    BY <1>4 DEF TierInv
  <2>2. n \in WorksOn(c) => ~Revives(c)
    BY <2>1 DEF GoneOK, RunsOn
  <2> QED
    BY <2>1, <2>2, GoneKept
<1> QED
  BY <1>1, <1>2, <1>3, <1>4, SlotStep

LEMMA InsertCacheStep ==
    ASSUME TierInv, NEW s \in Slots, InsertNodeCache(s)
    PROVE  TierInv'
<1> PICK o, c : o = call[s] /\ c = Idle
  OBVIOUS
<1>1. /\ o.op = "insert" /\ cache' = Put(cache, o.node, o.props) /\ Goes(s, c)
      /\ db' = db /\ acked' = acked /\ bucket' = bucket
      /\ doomed' = doomed /\ gone' = gone /\ wired' = wired /\ exposed' = exposed
  BY DEF InsertNodeCache, At, history
<1>2. WorksOn(o) = {o.node} /\ WorksOn(c) = {} /\ ~Revives(c)
  BY <1>1, WorksOnIs DEF Idle, Revives
<1>3. Moves(s, c) /\ ~At(s, "update", "cache")
  BY <1>1, GoesMoves DEF TierInv, At
<1>4. o.node \in Born /\ RunsOn(s, o.node)
  BY <1>2 DEF TierInv, BornOK, RunsOn
<1>5. o.node \in Live \ exposed => o.props = acked[o.node]
  BY <1>1, <1>4 DEF TierInv, CallsOK, CallOK
<1> QED
  BY <1>1, <1>2, <1>3, <1>4, <1>5, CacheStep

LEMMA BatchCacheStep ==
    ASSUME TierInv, NEW s \in Slots, BatchCache(s)
    PROVE  TierInv'
<1> PICK o : o = call[s]
  OBVIOUS
<1>1. /\ o.op = "batch"
      /\ db' = db /\ acked' = acked /\ bucket' = bucket
      /\ doomed' = doomed /\ gone' = gone /\ wired' = wired /\ exposed' = exposed
  BY DEF BatchCache, history
<1>2. PICK m \in DOMAIN o.todo :
         /\ cache' = Put(cache, m, o.todo[m])
         /\ Goes(s, IF DOMAIN o.todo = {m} THEN Idle ELSE BatchCall(Without(o.todo, {m})))
  BY DEF BatchCache
<1>3. WorksOn(o) = DOMAIN o.todo /\ ~At(s, "update", "cache")
  BY <1>1, WorksOnIs DEF At
<1>4. m \in Born /\ RunsOn(s, m)
  BY <1>3 DEF TierInv, BornOK, RunsOn
<1>5. m \in Live \ exposed => o.todo[m] = acked[m]
  BY <1>1, <1>4 DEF TierInv, CallsOK, CallOK
<1>6. CASE Goes(s, Idle)
  <2> PICK c : c = Idle
    OBVIOUS
  <2>1. WorksOn(c) = {} /\ ~Revives(c)
    BY WorksOnIs DEF Idle, Revives
  <2>2. Moves(s, c)
    BY <1>6, GoesMoves DEF TierInv
  <2> QED
    BY <1>1, <1>2, <1>3, <1>4, <1>5, <2>1, <2>2, CacheStep
<1>7. CASE Goes(s, BatchCall(Without(o.todo, {m})))
  <2> PICK todo, c : todo = Without(o.todo, {m}) /\ c = BatchCall(todo)
    OBVIOUS
  <2>1. c.op = "batch" /\ c.todo = todo
    BY DEF BatchCall
  <2>2. DOMAIN todo \subseteq DOMAIN o.todo /\ \A n \in DOMAIN todo : todo[n] = o.todo[n]
    BY DEF Without, Restrict
  <2>3. WorksOn(c) = DOMAIN todo /\ ~Revives(c)
    BY <2>1, WorksOnIs DEF Revives
  <2>4. Moves(s, c)
    BY <1>7, GoesMoves DEF TierInv
  <2>5. \A n : n \in WorksOn(c) /\ CallOK(o, n) => CallOK(c, n)
    BY <1>1, <2>1, <2>2, <2>3 DEF CallOK, Reads
  <2> QED
    BY <1>1, <1>2, <1>3, <1>4, <1>5, <2>1, <2>2, <2>3, <2>4, <2>5, CacheStep
<1> QED
  BY <1>2, <1>6, <1>7

LEMMA ResolveWarmStep ==
    ASSUME TierInv, NEW s \in Slots, ResolveWarm(s)
    PROVE  TierInv'
<1> PICK o, c : o = call[s] /\ c = Resolved(o, o.props)
  OBVIOUS
<1>1. /\ o.op \in Reads /\ o.pc = "warm" /\ cache' = Put(cache, o.node, o.props) /\ Goes(s, c)
      /\ db' = db /\ acked' = acked /\ bucket' = bucket
      /\ doomed' = doomed /\ gone' = gone /\ wired' = wired /\ exposed' = exposed
  BY DEF ResolveWarm, Reads, history
<1>2. /\ WorksOn(c) \subseteq WorksOn(o)
      /\ WorksOn(c) # {} => c.op = o.op
      /\ Revives(c) => o.op = "update"
      /\ \A n : n \in WorksOn(c) /\ CallOK(o, n) /\ (n = o.node => o.props = acked[n])
                   => CallOK(c, n)
  BY <1>1, ResolvedOK
<1>3. Moves(s, c) /\ ~At(s, "update", "cache")
  BY <1>1, GoesMoves DEF TierInv, At
<1>4. o.node \in WorksOn(o)
  BY <1>1, WorksOnIs DEF Reads
<1>5. o.node \in Born /\ RunsOn(s, o.node)
  BY <1>4 DEF TierInv, BornOK, RunsOn
<1>6. o.node \in Live \ exposed => o.props = acked[o.node]
  BY <1>1, <1>5 DEF TierInv, CallsOK, CallOK
<1>7. \A n \in Live \ exposed : n \in WorksOn(c) /\ CallOK(o, n) => CallOK(c, n)
  BY <1>2, <1>6
<1>8. Revives(c) => Revives(o)
  BY <1>2 DEF Revives
<1> QED
  BY <1>1, <1>2, <1>3, <1>5, <1>6, <1>7, <1>8, CacheStep

LEMMA UpdateCacheStep ==
    ASSUME TierInv, NEW s \in Slots, UpdateCache(s)
    PROVE  TierInv'
<1> PICK o : o = call[s]
  OBVIOUS
<1>1. /\ o.op = "update" /\ o.pc = "cache" /\ cache' = Put(cache, o.node, o.props)
      /\ db' = db /\ acked' = acked /\ bucket' = bucket
      /\ doomed' = doomed /\ gone' = gone /\ wired' = wired /\ exposed' = exposed
  BY DEF UpdateCache, At, history
<1>2. WorksOn(o) = {o.node}
  BY <1>1, WorksOnIs
<1>3. o.node \in Born /\ RunsOn(s, o.node) /\ Revives(o)
  BY <1>1, <1>2 DEF TierInv, BornOK, RunsOn, Revives
<1>4. o.node \in Live \ exposed => o.props = acked[o.node]
  BY <1>1, <1>3 DEF TierInv, CallsOK, CallOK
<1>5. CASE Goes(s, UpdateCall(o.node, "through", o.props))
  <2> PICK c : c = UpdateCall(o.node, "through", o.props)
    OBVIOUS
  <2>1. c.op = "update" /\ c.node = o.node /\ c.pc = "through" /\ c.props = o.props
    BY DEF UpdateCall
  <2>2. WorksOn(c) = {o.node} /\ Moves(s, c)
    BY <1>5, <2>1, WorksOnIs, GoesMoves DEF TierInv
  <2>3. \A n \in Live \ exposed : n \in WorksOn(c) => CallOK(c, n)
    BY <1>4, <2>1, <2>2 DEF CallOK, Reads
  <2> QED
    BY <1>1, <1>2, <1>3, <1>4, <2>1, <2>2, <2>3, CacheStep
<1>6. CASE Goes(s, Idle)
  <2> PICK c : c = Idle
    OBVIOUS
  <2>1. WorksOn(c) = {} /\ Moves(s, c)
    BY <1>6, WorksOnIs, GoesMoves DEF TierInv, Idle
  <2> QED
    BY <1>1, <1>2, <1>3, <1>4, <2>1, CacheStep
<1> QED
  BY <1>5, <1>6 DEF UpdateCache

LEMMA EvictCacheStep ==
    ASSUME TierInv, NEW s \in Slots, EvictCache(s)
    PROVE  TierInv'
<1> PICK o, c : o = call[s] /\ c = Back(o, o.node, Cardinality(DOMAIN o.props))
  OBVIOUS
<1>1. /\ o.op = "evict" /\ cache' = Put(cache, o.node, o.props) /\ Goes(s, c)
      /\ db' = db /\ acked' = acked /\ bucket' = bucket
      /\ doomed' = doomed /\ gone' = gone /\ wired' = wired /\ exposed' = exposed
  BY DEF EvictCache, At, history
<1>2. c.op = "round"
  BY DEF Back, RoundCall
<1>3. WorksOn(o) = {o.node} /\ WorksOn(c) = {} /\ ~Revives(c)
  BY <1>1, <1>2, WorksOnIs DEF Revives
<1>4. Moves(s, c) /\ ~At(s, "update", "cache")
  BY <1>1, GoesMoves DEF TierInv, At
<1>5. o.node \in Born /\ RunsOn(s, o.node)
  BY <1>3 DEF TierInv, BornOK, RunsOn
<1>6. o.node \in Live \ exposed => o.props = acked[o.node]
  BY <1>1, <1>5 DEF TierInv, CallsOK, CallOK
<1> QED
  BY <1>1, <1>3, <1>4, <1>5, <1>6, CacheStep

(* A step of slot s that changes at most the bucket, and no good object of a
   live node.                                                              *)
LEMMA BucketStep ==
    ASSUME TierInv, NEW s \in Slots, NEW c, Moves(s, c),
           db' = db, acked' = acked, cache' = cache, doomed' = doomed, gone' = gone,
           wired' = wired, exposed' = exposed,
           WorksOn(c) \subseteq WorksOn(call[s]), WorksOn(c) # {} => c.op = call[s].op,
           \A n \in Live \ exposed : ObjectGood(n) => ObjectGood(n)',
           \A n \in Live \ exposed : n \in WorksOn(c) /\ CallOK(call[s], n) => CallOK(c, n)',
           ~At(s, "update", "cache"), Revives(c) => Revives(call[s])
    PROVE  TierInv'
<1>1. /\ IsDb(db') /\ EdgesOK(db', wired')
      /\ doomed \subseteq doomed' /\ exposed \subseteq exposed'
      /\ gone' \subseteq doomed' /\ doomed' \subseteq Born
      /\ DOMAIN db'.index \subseteq Born /\ DOMAIN db'.payloads \subseteq Born
      /\ DOMAIN db'.nodes \subseteq Born /\ DOMAIN cache' \subseteq Born
      /\ WorksOn(c) \subseteq Born
  BY DEF TierInv, BornOK
<1>2. ASSUME NEW n \in Live \ exposed
      PROVE  /\ RowsOK(n)' /\ CacheOK(n)'
             /\ ObjectGood(n) => ObjectGood(n)'
             /\ \A r \in Slots \ {s} : RunsOn(r, n) => RowsFor(r, n)
             /\ n \in WorksOn(c) =>
                   /\ CallOK(c, n)'
                   /\ \A r \in Slots \ {s} : RunsOn(r, n) => ~Conflict(c.op, call[r].op)
  <2>1. RowsOK(n) /\ CacheOK(n) /\ CallsOK(n)
    BY DEF TierInv
  <2>2. ObjectGood(n) => ObjectGood(n)'
    BY <1>2
  <2>3. RowsOK(n)'
    BY <2>1, <2>2, RowsKept DEF SameAt
  <2>4. CacheOK(n)'
    BY <2>1, CacheKept DEF SameAt
  <2>5. \A r \in Slots \ {s} : RunsOn(r, n) => RowsFor(r, n)
    BY DEF RowsFor
  <2>6. ASSUME n \in WorksOn(c)
        PROVE  CallOK(c, n)' /\ \A r \in Slots \ {s} : RunsOn(r, n) => ~Conflict(c.op, call[r].op)
    <3>1. RunsOn(s, n) /\ c.op = call[s].op
      BY <2>6 DEF RunsOn
    <3>2. CallOK(call[s], n)
      BY <2>1, <3>1 DEF CallsOK
    <3>3. CallOK(c, n)'
      BY <1>2, <2>6, <3>2
    <3> QED
      BY <3>1, <3>3, StillApart
  <2> QED
    BY <2>2, <2>3, <2>4, <2>5, <2>6
<1>3. ASSUME NEW n \in gone' \ exposed' PROVE GoneOK(n)'
  <2>1. GoneOK(n)
    BY <1>3 DEF TierInv
  <2>2. n \in WorksOn(c) => ~Revives(c)
    BY <2>1 DEF GoneOK, RunsOn
  <2> QED
    BY <2>1, <2>2, GoneKept
<1> QED
  BY <1>1, <1>2, <1>3, SlotStep

LEMMA WriteThroughOK ==
    ASSUME TierInv, NEW s \in Slots, WriteThroughStep(s)
    PROVE  TierInv'
<1> PICK o : o = call[s]
  OBVIOUS
<1>1. /\ o.op \in {"insert", "update"} /\ o.pc = "through"
      /\ bucket' = Put(bucket, o.node, o.props) \/ bucket' = bucket
      /\ db' = db /\ acked' = acked /\ cache' = cache
      /\ doomed' = doomed /\ gone' = gone /\ wired' = wired /\ exposed' = exposed
  BY DEF WriteThroughStep, history
<1>2. WorksOn(o) = {o.node} /\ ~At(s, "update", "cache")
  BY <1>1, WorksOnIs DEF At
<1>3. ASSUME NEW n \in Live \ exposed, ObjectGood(n) PROVE ObjectGood(n)'
  <2>1. CASE n = o.node
    <3>1. o.props = acked[n]
      BY <1>1, <1>2, <2>1 DEF TierInv, CallsOK, CallOK, RunsOn
    <3> QED
      BY <1>1, <1>3, <2>1, <3>1 DEF ObjectGood, Put
  <2>2. CASE n # o.node
    BY <1>1, <1>3, <2>2 DEF ObjectGood, Put
  <2> QED
    BY <2>1, <2>2
<1>4. CASE o.op = "insert"
  <2> PICK c : c = InsertCall(o.node, "cache", o.type, o.props)
    OBVIOUS
  <2>1. Goes(s, c)
    BY <1>4 DEF WriteThroughStep
  <2>2. c.op = "insert" /\ c.node = o.node /\ c.props = o.props
    BY DEF InsertCall
  <2>3. WorksOn(c) = {o.node} /\ Moves(s, c) /\ ~Revives(c)
    BY <2>1, <2>2, WorksOnIs, GoesMoves DEF TierInv, Revives
  <2>4. \A n : CallOK(o, n) => CallOK(c, n)'
    BY <1>1, <1>4, <2>2 DEF CallOK, Reads
  <2> QED
    BY <1>1, <1>2, <1>3, <1>4, <2>2, <2>3, <2>4, BucketStep
<1>5. CASE o.op = "update"
  <2> PICK c : c = Idle
    OBVIOUS
  <2>1. Goes(s, c)
    BY <1>5 DEF WriteThroughStep
  <2>2. WorksOn(c) = {} /\ Moves(s, c) /\ ~Revives(c)
    BY <2>1, WorksOnIs, GoesMoves DEF TierInv, Revives, Idle
  <2> QED
    BY <1>1, <1>2, <1>3, <2>2, BucketStep
<1> QED
  BY <1>1, <1>4, <1>5

LEMMA EvictUploadStep ==
    ASSUME TierInv, NEW s \in Slots, EvictUpload(s)
    PROVE  TierInv'
<1> PICK o : o = call[s]
  OBVIOUS
<1>1. /\ o.op = "evict" /\ o.pc = "upload"
      /\ db' = db /\ acked' = acked /\ cache' = cache
      /\ doomed' = doomed /\ gone' = gone /\ wired' = wired /\ exposed' = exposed
  BY DEF EvictUpload, At, history
<1>2. WorksOn(o) = {o.node} /\ ~At(s, "update", "cache")
  BY <1>1, WorksOnIs DEF At
<1>3. CASE bucket' = bucket /\ Goes(s, Back(o, o.node, 0))
  <2> PICK c : c = Back(o, o.node, 0)
    OBVIOUS
  <2>1. c.op = "round"
    BY DEF Back, RoundCall
  <2> QED
    BY <1>1, <1>2, <1>3, <2>1, EndStep
<1>4. CASE /\ bucket' = Put(bucket, o.node, o.props)
           /\ Goes(s, EvictCall(o.node, "index", o.props, o.todo, o.shed))
  <2> PICK c : c = EvictCall(o.node, "index", o.props, o.todo, o.shed)
    OBVIOUS
  <2>1. c.op = "evict" /\ c.node = o.node /\ c.pc = "index" /\ c.props = o.props
    BY DEF EvictCall
  <2>2. WorksOn(c) = {o.node} /\ Moves(s, c) /\ ~Revives(c)
    BY <1>4, <2>1, WorksOnIs, GoesMoves DEF TierInv, Revives
  <2>3. o.node \in Live \ exposed => o.props = acked[o.node]
    BY <1>1, <1>2 DEF TierInv, CallsOK, CallOK, RunsOn
  <2>4. o.node \in Live \ exposed => ObjectGood(o.node)'
    BY <1>1, <1>4, <2>3 DEF ObjectGood, Put
  <2>5. ASSUME NEW n \in Live \ exposed, ObjectGood(n) PROVE ObjectGood(n)'
    <3>1. CASE n # o.node
      BY <1>1, <1>4, <2>5, <3>1 DEF ObjectGood, Put
    <3> QED
      BY <2>4, <3>1
  <2>6. o.node \in Live \ exposed /\ CallOK(o, o.node) => CallOK(c, o.node)'
    BY <1>1, <2>1, <2>4 DEF CallOK, Reads
  <2> QED
    BY <1>1, <1>2, <2>1, <2>2, <2>5, <2>6, BucketStep
<1> QED
  BY <1>3, <1>4 DEF EvictUpload

LEMMA DeleteObjectStep ==
    ASSUME TierInv, NEW s \in Slots, DeleteObject(s), NEW m, m = call[s].node, m \in doomed
    PROVE  TierInv'
<1> PICK o, c : o = call[s] /\ c = DeleteCall(m, "rows")
  OBVIOUS
<1>1. /\ o.op = "delete" /\ Goes(s, c) /\ bucket' \in {bucket, Without(bucket, {m})}
      /\ db' = db /\ acked' = acked /\ cache' = cache
      /\ doomed' = doomed /\ gone' = gone /\ wired' = wired /\ exposed' = exposed
  BY DEF DeleteObject, At, history
<1>2. c.op = "delete" /\ c.node = m
  BY DEF DeleteCall
<1>3. WorksOn(o) = {m} /\ WorksOn(c) = {m} /\ Moves(s, c) /\ ~Revives(c)
  BY <1>1, <1>2, WorksOnIs, GoesMoves DEF TierInv, Revives
<1>4. ~At(s, "update", "cache")
  BY <1>1 DEF At
<1>5. ASSUME NEW n \in Live \ exposed, ObjectGood(n) PROVE ObjectGood(n)'
  <2>1. n # m
    BY <1>5 DEF Live
  <2> QED
    BY <1>1, <1>5, <2>1 DEF ObjectGood, Without, Restrict
<1>6. m \notin Live
  BY DEF Live
<1> QED
  BY <1>1, <1>2, <1>3, <1>4, <1>5, <1>6, BucketStep

-------------------------------------------------------------------------------
(* The steps that write the rows of one node. *)

LEMMA RowStep ==
    ASSUME TierInv, NEW s \in Slots, NEW c, Moves(s, c), NEW m, WorksOn(call[s]) = {m},
           IsDb(db'), SameEdges(db, db'),
           \A n : n # m => /\ SameAt(db.index, db'.index, n)
                           /\ SameAt(db.payloads, db'.payloads, n)
                           /\ SameAt(db.nodes, db'.nodes, n),
           acked' = acked, cache' = cache, bucket' = bucket, doomed' = doomed, gone' = gone,
           wired' = wired, exposed' = exposed,
           WorksOn(c) \subseteq {m}, WorksOn(c) # {} => c.op = call[s].op,
           ~At(s, "update", "cache"),
           m \in Live \ exposed =>
               /\ RowsOK(m)'
               /\ \A r \in Slots \ {s} : RunsOn(r, m) => RowsFor(r, m)
               /\ m \in WorksOn(c) => CallOK(c, m)',
           m \in gone \ exposed =>
               /\ m \notin DOMAIN db'.index /\ m \notin DOMAIN db'.nodes
               /\ m \in WorksOn(c) => ~Revives(c)
    PROVE  TierInv'
<1>1. m \in Born /\ RunsOn(s, m)
  BY DEF TierInv, BornOK, RunsOn
<1>2. /\ doomed \subseteq doomed' /\ exposed \subseteq exposed'
      /\ gone' \subseteq doomed' /\ doomed' \subseteq Born
      /\ DOMAIN cache' \subseteq Born /\ WorksOn(c) \subseteq Born
  BY <1>1 DEF TierInv, BornOK
<1>3. /\ DOMAIN db'.index \subseteq Born /\ DOMAIN db'.payloads \subseteq Born
      /\ DOMAIN db'.nodes \subseteq Born
  BY <1>1 DEF TierInv, BornOK, SameAt
<1>4. EdgesOK(db', wired')
  BY SameEdgesOK DEF TierInv
<1>5. ASSUME NEW n \in Live \ exposed
      PROVE  /\ RowsOK(n)' /\ CacheOK(n)'
             /\ ObjectGood(n) => ObjectGood(n)'
             /\ \A r \in Slots \ {s} : RunsOn(r, n) => RowsFor(r, n)
             /\ n \in WorksOn(c) =>
                   /\ CallOK(c, n)'
                   /\ \A r \in Slots \ {s} : RunsOn(r, n) => ~Conflict(c.op, call[r].op)
  <2>1. RowsOK(n) /\ CacheOK(n)
    BY DEF TierInv
  <2>2. ObjectGood(n) => ObjectGood(n)'
    BY DEF ObjectGood
  <2>3. CacheOK(n)'
    BY <2>1, CacheKept DEF SameAt
  <2>4. CASE n # m
    <3>1. RowsOK(n)'
      BY <2>1, <2>2, <2>4, RowsKept
    <3>2. \A r \in Slots \ {s} : RunsOn(r, n) => RowsFor(r, n)
      BY <2>4 DEF RowsFor, SameAt
    <3> QED
      BY <2>2, <2>3, <2>4, <3>1, <3>2
  <2>5. CASE n = m
    <3>1. n \in WorksOn(c) =>
             \A r \in Slots \ {s} : RunsOn(r, n) => ~Conflict(c.op, call[r].op)
      BY <1>1, <2>5, StillApart
    <3> QED
      BY <1>5, <2>2, <2>3, <2>5, <3>1
  <2> QED
    BY <2>4, <2>5
<1>6. ASSUME NEW n \in gone' \ exposed' PROVE GoneOK(n)'
  <2>1. GoneOK(n)
    BY <1>6 DEF TierInv
  <2>2. n \in DOMAIN db'.index => n \in DOMAIN db.index
    BY <1>6 DEF SameAt
  <2>3. n \in DOMAIN db'.nodes => n \in DOMAIN db.nodes
    BY <1>6 DEF SameAt
  <2>4. n \in WorksOn(c) => ~Revives(c)
    BY <1>6
  <2> QED
    BY <2>1, <2>2, <2>3, <2>4, GoneKept
<1> QED
  BY <1>2, <1>3, <1>4, <1>5, <1>6, SlotStep

LEMMA EvictPointStep ==
    ASSUME TierInv, NEW s \in Slots, EvictPoint(s)
    PROVE  TierInv'
<1> PICK o, index, c : /\ o = call[s] /\ index = Relocated(o.index, "cloud")
                       /\ c = EvictCall(o.node, "drop", o.props, o.todo, o.shed)
  OBVIOUS
<1> PICK m : m = o.node
  OBVIOUS
<1>1. /\ o.op = "evict" /\ o.pc = "point" /\ Goes(s, c) /\ db' = UpdateNodeIndex(db, m, index)
      /\ acked' = acked /\ cache' = cache /\ bucket' = bucket
      /\ doomed' = doomed /\ gone' = gone /\ wired' = wired /\ exposed' = exposed
  BY DEF EvictPoint, At, history
<1>2. c.op = "evict" /\ c.node = m /\ c.pc = "drop" /\ c.props = o.props /\ index.loc = "cloud"
  BY DEF EvictCall, Relocated
<1>3. WorksOn(o) = {m} /\ WorksOn(c) = {m} /\ Moves(s, c) /\ ~Revives(c) /\ Revives(o)
  BY <1>1, <1>2, WorksOnIs, GoesMoves DEF TierInv, Revives
<1>4. /\ IsDb(db') /\ SameEdges(db, db') /\ db'.index = Put(db.index, m, index)
      /\ db'.payloads = db.payloads /\ db'.nodes = db.nodes
  BY <1>1, UpdateNodeIndexIs DEF TierInv, BornOK
<1>5. m \in DOMAIN db'.index /\ db'.index[m] = index
  BY <1>4 DEF Put
<1>6. \A n : n # m => /\ SameAt(db.index, db'.index, n)
                      /\ SameAt(db.payloads, db'.payloads, n)
                      /\ SameAt(db.nodes, db'.nodes, n)
  BY <1>4, PutSame DEF SameAt
<1>7. ~At(s, "update", "cache")
  BY <1>1 DEF At
<1>8. ASSUME m \in Live \ exposed
      PROVE  /\ RowsOK(m)'
             /\ \A r \in Slots \ {s} : RunsOn(r, m) => RowsFor(r, m)
             /\ CallOK(c, m)'
  <2>1. RowsOK(m) /\ CallOK(o, m)
    BY <1>3, <1>8 DEF TierInv, CallsOK, RunsOn
  <2>2. ObjectGood(m)' /\ o.props = acked'[m]
    BY <1>1, <2>1 DEF CallOK, ObjectGood
  <2>3. RowsOK(m)'
    BY <1>1, <1>2, <1>4, <1>5, <2>1, <2>2 DEF RowsOK
  <2>4. \A r \in Slots \ {s} : RunsOn(r, m) => RowsFor(r, m)
    BY <1>2, <1>4, <1>5 DEF RowsFor
  <2>5. CallOK(c, m)'
    BY <1>2, <1>5, <2>2 DEF CallOK, Reads
  <2> QED
    BY <2>3, <2>4, <2>5
<1>9. m \notin gone \ exposed
  BY <1>3 DEF TierInv, GoneOK, RunsOn
<1> QED
  BY <1>1, <1>2, <1>3, <1>4, <1>6, <1>7, <1>8, <1>9, RowStep

LEMMA EvictDropStep ==
    ASSUME TierInv, NEW s \in Slots, EvictDrop(s)
    PROVE  TierInv'
<1> PICK o, c : o = call[s] /\ c = EvictCall(o.node, "cache", o.props, o.todo, o.shed)
  OBVIOUS
<1> PICK m : m = o.node
  OBVIOUS
<1>1. /\ o.op = "evict" /\ o.pc = "drop" /\ Goes(s, c) /\ db' = DeletePayload(db, m)
      /\ acked' = acked /\ cache' = cache /\ bucket' = bucket
      /\ doomed' = doomed /\ gone' = gone /\ wired' = wired /\ exposed' = exposed
  BY DEF EvictDrop, At, history
<1>2. c.op = "evict" /\ c.node = m /\ c.pc = "cache" /\ c.props = o.props
  BY DEF EvictCall
<1>3. WorksOn(o) = {m} /\ WorksOn(c) = {m} /\ Moves(s, c) /\ ~Revives(c)
  BY <1>1, <1>2, WorksOnIs, GoesMoves DEF TierInv, Revives
<1>4. /\ IsDb(db') /\ SameEdges(db, db') /\ db'.payloads = Without(db.payloads, {m})
      /\ db'.index = db.index /\ db'.nodes = db.nodes
  BY <1>1, DeletePayloadIs DEF TierInv, BornOK
<1>5. m \notin DOMAIN db'.payloads
  BY <1>4 DEF Without, Restrict
<1>6. \A n : n # m => /\ SameAt(db.index, db'.index, n)
                      /\ SameAt(db.payloads, db'.payloads, n)
                      /\ SameAt(db.nodes, db'.nodes, n)
  <2> TAKE n
  <2>1. n # m => SameAt(db.payloads, db'.payloads, n)
    BY <1>4, WithoutSame
  <2> QED
    BY <1>4, <2>1 DEF SameAt
<1>7. ~At(s, "update", "cache")
  BY <1>1 DEF At
<1>8. ASSUME m \in Live \ exposed
      PROVE  /\ RowsOK(m)'
             /\ \A r \in Slots \ {s} : RunsOn(r, m) => RowsFor(r, m)
             /\ CallOK(c, m)'
  <2>1. RowsOK(m) /\ CallOK(o, m) /\ Apart(m) /\ RunsOn(s, m)
    BY <1>3, <1>8 DEF TierInv, CallsOK, RunsOn
  <2>2. /\ m \in DOMAIN db'.index /\ db'.index[m].loc = "cloud" /\ ObjectGood(m)'
        /\ o.props = acked'[m]
    BY <1>1, <1>4, <2>1 DEF CallOK, ObjectGood
  <2>3. RowsOK(m)'
    BY <1>1, <1>4, <1>5, <2>1, <2>2 DEF RowsOK
  <2>4. ASSUME NEW r \in Slots \ {s}, RunsOn(r, m) PROVE call[r].op # "promote"
    BY <1>1, <2>1, <2>4 DEF Apart, Conflict
  <2>5. \A r \in Slots \ {s} : RunsOn(r, m) => RowsFor(r, m)
    BY <1>4, <2>4 DEF RowsFor
  <2>6. CallOK(c, m)'
    BY <1>2, <2>2 DEF CallOK, Reads
  <2> QED
    BY <2>3, <2>5, <2>6
<1>9. m \in gone \ exposed => m \notin DOMAIN db'.index /\ m \notin DOMAIN db'.nodes
  BY <1>4 DEF TierInv, GoneOK
<1> QED
  BY <1>1, <1>2, <1>3, <1>4, <1>6, <1>7, <1>8, <1>9, RowStep

LEMMA PromoteWriteStep ==
    ASSUME TierInv, NEW s \in Slots, PromoteWrite(s)
    PROVE  TierInv'
<1> PICK o, c : o = call[s] /\ c = PromoteCall(o.node, "index", o.props)
  OBVIOUS
<1> PICK m : m = o.node
  OBVIOUS
<1>1. /\ o.op = "promote" /\ o.pc = "write" /\ Goes(s, c) /\ db' = PutPayload(db, m, o.props)
      /\ acked' = acked /\ cache' = cache /\ bucket' = bucket
      /\ doomed' = doomed /\ gone' = gone /\ wired' = wired /\ exposed' = exposed
  BY DEF PromoteWrite, At, history
<1>2. c.op = "promote" /\ c.node = m /\ c.pc = "index" /\ c.props = o.props
  BY DEF PromoteCall
<1>3. WorksOn(o) = {m} /\ WorksOn(c) = {m} /\ Moves(s, c) /\ ~Revives(c)
  BY <1>1, <1>2, WorksOnIs, GoesMoves DEF TierInv, Revives
<1>4. /\ IsDb(db') /\ SameEdges(db, db') /\ db'.payloads = Put(db.payloads, m, o.props)
      /\ db'.index = db.index /\ db'.nodes = db.nodes
  BY <1>1, PutPayloadIs DEF TierInv, BornOK
<1>5. m \in DOMAIN db'.payloads /\ db'.payloads[m] = o.props
  BY <1>4 DEF Put
<1>6. \A n : n # m => /\ SameAt(db.index, db'.index, n)
                      /\ SameAt(db.payloads, db'.payloads, n)
                      /\ SameAt(db.nodes, db'.nodes, n)
  BY <1>4, PutSame DEF SameAt
<1>7. ~At(s, "update", "cache")
  BY <1>1 DEF At
<1>8. ASSUME m \in Live \ exposed
      PROVE  /\ RowsOK(m)'
             /\ \A r \in Slots \ {s} : RunsOn(r, m) => RowsFor(r, m)
             /\ CallOK(c, m)'
  <2>1. RowsOK(m) /\ CallOK(o, m)
    BY <1>3, <1>8 DEF TierInv, CallsOK, RunsOn
  <2>2. m \in DOMAIN db'.index /\ o.props = acked'[m]
    BY <1>1, <1>4, <2>1 DEF CallOK
  <2>3. ObjectGood(m) <=> ObjectGood(m)'
    BY <1>1 DEF ObjectGood
  <2>4. RowsOK(m)'
    BY <1>1, <1>4, <1>5, <2>1, <2>2, <2>3 DEF RowsOK
  <2>5. \A r \in Slots \ {s} : RunsOn(r, m) => RowsFor(r, m)
    BY <1>4, <1>5 DEF RowsFor
  <2>6. CallOK(c, m)'
    BY <1>2, <1>5, <2>2 DEF CallOK, Reads
  <2> QED
    BY <2>4, <2>5, <2>6
<1>9. m \in gone \ exposed => m \notin DOMAIN db'.index /\ m \notin DOMAIN db'.nodes
  BY <1>4 DEF TierInv, GoneOK
<1> QED
  BY <1>1, <1>2, <1>3, <1>4, <1>6, <1>7, <1>8, <1>9, RowStep

LEMMA PromotePointStep ==
    ASSUME TierInv, NEW s \in Slots, PromotePoint(s)
    PROVE  TierInv'
<1> PICK o, index, c : o = call[s] /\ index = Relocated(o.index, "local") /\ c = Idle
  OBVIOUS
<1> PICK m : m = o.node
  OBVIOUS
<1>1. /\ o.op = "promote" /\ o.pc = "point" /\ Goes(s, c) /\ db' = UpdateNodeIndex(db, m, index)
      /\ acked' = acked /\ cache' = cache /\ bucket' = bucket
      /\ doomed' = doomed /\ gone' = gone /\ wired' = wired /\ exposed' = exposed
  BY DEF PromotePoint, At, history
<1>2. index.loc = "local" /\ c.op = "idle"
  BY DEF Relocated, Idle
<1>3. WorksOn(o) = {m} /\ WorksOn(c) = {} /\ Moves(s, c) /\ Revives(o)
  BY <1>1, <1>2, WorksOnIs, GoesMoves DEF TierInv, Revives
<1>4. /\ IsDb(db') /\ SameEdges(db, db') /\ db'.index = Put(db.index, m, index)
      /\ db'.payloads = db.payloads /\ db'.nodes = db.nodes
  BY <1>1, UpdateNodeIndexIs DEF TierInv, BornOK
<1>5. m \in DOMAIN db'.index /\ db'.index[m] = index
  BY <1>4 DEF Put
<1>6. \A n : n # m => /\ SameAt(db.index, db'.index, n)
                      /\ SameAt(db.payloads, db'.payloads, n)
                      /\ SameAt(db.nodes, db'.nodes, n)
  BY <1>4, PutSame DEF SameAt
<1>7. ~At(s, "update", "cache")
  BY <1>1 DEF At
<1>8. ASSUME m \in Live \ exposed
      PROVE  /\ RowsOK(m)'
             /\ \A r \in Slots \ {s} : RunsOn(r, m) => RowsFor(r, m)
  <2>1. RowsOK(m) /\ CallOK(o, m) /\ Apart(m) /\ RunsOn(s, m)
    BY <1>3, <1>8 DEF TierInv, CallsOK, RunsOn
  <2>2. m \in DOMAIN db'.payloads
    BY <1>1, <1>4, <2>1 DEF CallOK
  <2>3. RowsOK(m)'
    BY <1>1, <1>2, <1>4, <1>5, <2>1, <2>2 DEF RowsOK
  <2>4. ASSUME NEW r \in Slots \ {s}, RunsOn(r, m) PROVE call[r].op # "evict"
    BY <1>1, <2>1, <2>4 DEF Apart, Conflict
  <2>5. \A r \in Slots \ {s} : RunsOn(r, m) => RowsFor(r, m)
    BY <1>4, <1>5, <2>4 DEF RowsFor
  <2> QED
    BY <2>3, <2>5
<1>9. m \notin gone \ exposed
  BY <1>3 DEF TierInv, GoneOK, RunsOn
<1> QED
  BY <1>1, <1>3, <1>4, <1>6, <1>7, <1>8, <1>9, RowStep

-------------------------------------------------------------------------------
(* Deletes: the node is doomed before its first row goes. *)

DeletesOK ==
    \A s \in Slots : call[s].op = "delete" => call[s].node \in doomed

LEMMA DeleteStartStep ==
    ASSUME TierInv, NEW s \in Slots, DeleteStart(s)
    PROVE  TierInv'
<1>1. PICK m \in Born : /\ cache' = Without(cache, {m}) /\ doomed' = doomed \cup {m}
                        /\ Goes(s, DeleteCall(m, "object"))
  BY DEF DeleteStart
<1> PICK c : c = DeleteCall(m, "object")
  OBVIOUS
<1>2. /\ call[s] = Idle /\ db' = db /\ acked' = acked /\ bucket' = bucket
      /\ gone' = gone /\ wired' = wired /\ exposed' = exposed
  BY DEF DeleteStart
<1>3. c.op = "delete" /\ c.node = m
  BY DEF DeleteCall
<1>4. WorksOn(c) = {m} /\ Moves(s, c) /\ ~Revives(c) /\ ~At(s, "update", "cache")
  BY <1>1, <1>2, <1>3, WorksOnIs, GoesMoves DEF TierInv, Revives, At, Idle
<1>5. /\ IsDb(db') /\ EdgesOK(db', wired')
      /\ doomed \subseteq doomed' /\ exposed \subseteq exposed'
      /\ gone' \subseteq doomed' /\ doomed' \subseteq Born
      /\ DOMAIN db'.index \subseteq Born /\ DOMAIN db'.payloads \subseteq Born
      /\ DOMAIN db'.nodes \subseteq Born /\ WorksOn(c) \subseteq Born
  BY <1>1, <1>2, <1>4 DEF TierInv, BornOK
<1>6. DOMAIN cache' \subseteq Born
  BY <1>1 DEF TierInv, BornOK, Without, Restrict
<1>7. ASSUME NEW n \in Live \ exposed, n \notin doomed' \cup exposed'
      PROVE  /\ RowsOK(n)' /\ CacheOK(n)'
             /\ ObjectGood(n) => ObjectGood(n)'
             /\ \A r \in Slots \ {s} : RunsOn(r, n) => RowsFor(r, n)
             /\ n \notin WorksOn(c)
  <2>1. RowsOK(n) /\ CacheOK(n) /\ n # m
    BY <1>1, <1>7 DEF TierInv
  <2>2. ObjectGood(n) => ObjectGood(n)'
    BY <1>2 DEF ObjectGood
  <2>3. RowsOK(n)'
    BY <1>2, <2>1, <2>2, RowsKept DEF SameAt
  <2>4. SameAt(cache, cache', n)
    BY <1>1, <2>1, WithoutSame
  <2>5. CacheOK(n)'
    BY <1>2, <1>4, <2>1, <2>4, CacheKept
  <2>6. \A r \in Slots \ {s} : RunsOn(r, n) => RowsFor(r, n)
    BY <1>2 DEF RowsFor
  <2> QED
    BY <1>4, <2>1, <2>2, <2>3, <2>5, <2>6
<1>8. ASSUME NEW n \in gone' \ exposed' PROVE GoneOK(n)'
  BY <1>2, <1>4, <1>8, GoneKept DEF TierInv
<1> QED
  BY <1>2, <1>4, <1>5, <1>6, <1>7, <1>8, SlotStep

LEMMA DeleteRowsStep ==
    ASSUME TierInv, DeletesOK, NEW s \in Slots, DeleteRows(s)
    PROVE  TierInv'
<1> PICK o, m, c : o = call[s] /\ m = o.node /\ c = Idle
  OBVIOUS
<1>1. /\ o.op = "delete" /\ Goes(s, c) /\ db' = DeleteNodeTiered(db, m)
      /\ acked' = acked /\ cache' = cache /\ bucket' = bucket
      /\ doomed' = doomed /\ wired' = wired /\ exposed' = exposed
      /\ gone' = IF \E r \in Slots \ {s} : RunsOn(r, m) THEN gone ELSE gone \cup {m}
  BY DEF DeleteRows, At
<1>2. c.op = "idle" /\ m \in doomed
  BY <1>1 DEF Idle, DeletesOK
<1>3. WorksOn(o) = {m} /\ WorksOn(c) = {} /\ Moves(s, c) /\ ~At(s, "update", "cache")
  BY <1>1, <1>2, WorksOnIs, GoesMoves DEF TierInv, At
<1>4. /\ IsDb(db') /\ EdgesOK(db', wired')
      /\ db'.index = Without(db.index, {m}) /\ db'.payloads = Without(db.payloads, {m})
      /\ db'.nodes = Without(db.nodes, {m})
  BY <1>1, DeleteNodeTieredIs DEF TierInv, BornOK
<1>5. \A n : n # m => /\ SameAt(db.index, db'.index, n)
                      /\ SameAt(db.payloads, db'.payloads, n)
                      /\ SameAt(db.nodes, db'.nodes, n)
  BY <1>4, WithoutSame
<1>6. m \notin DOMAIN db'.index /\ m \notin DOMAIN db'.payloads /\ m \notin DOMAIN db'.nodes
  BY <1>4 DEF Without, Restrict
<1>7. /\ doomed \subseteq doomed' /\ exposed \subseteq exposed'
      /\ gone' \subseteq doomed' /\ doomed' \subseteq Born
      /\ DOMAIN cache' \subseteq Born /\ WorksOn(c) \subseteq Born
  BY <1>1, <1>2, <1>3 DEF TierInv, BornOK
<1>8. /\ DOMAIN db'.index \subseteq Born /\ DOMAIN db'.payloads \subseteq Born
      /\ DOMAIN db'.nodes \subseteq Born
  BY <1>5, <1>6 DEF TierInv, BornOK, SameAt
<1>9. ASSUME NEW n \in Live \ exposed
      PROVE  /\ RowsOK(n)' /\ CacheOK(n)'
             /\ ObjectGood(n) => ObjectGood(n)'
             /\ \A r \in Slots \ {s} : RunsOn(r, n) => RowsFor(r, n)
             /\ n \notin WorksOn(c)
  <2>1. RowsOK(n) /\ CacheOK(n) /\ n # m
    BY <1>2, <1>9 DEF TierInv, Live
  <2>2. ObjectGood(n) => ObjectGood(n)'
    BY <1>1 DEF ObjectGood
  <2>3. RowsOK(n)'
    BY <1>1, <1>5, <2>1, <2>2, RowsKept
  <2>4. CacheOK(n)'
    BY <1>1, <1>3, <2>1, CacheKept DEF SameAt
  <2>5. \A r \in Slots \ {s} : RunsOn(r, n) => RowsFor(r, n)
    BY <1>5, <2>1 DEF RowsFor, SameAt
  <2> QED
    BY <1>3, <2>2, <2>3, <2>4, <2>5
<1>10. ASSUME NEW n \in gone' \ exposed' PROVE GoneOK(n)'
  <2>1. CASE n \in gone
    <3>1. GoneOK(n)
      BY <1>1, <1>10, <2>1 DEF TierInv
    <3>2. (n \in DOMAIN db'.index => n \in DOMAIN db.index)
          /\ (n \in DOMAIN db'.nodes => n \in DOMAIN db.nodes)
      BY <1>5, <1>6 DEF SameAt
    <3> QED
      BY <1>3, <3>1, <3>2, GoneKept
  <2>2. CASE n \notin gone
    <3>1. n = m /\ \A r \in Slots \ {s} : ~RunsOn(r, m)
      BY <1>1, <1>10, <2>2
    <3>2. \A r \in Slots : ~RunsOn(r, m)'
      BY <1>3, <3>1 DEF Moves, RunsOn
    <3> QED
      BY <1>6, <3>1, <3>2 DEF GoneOK
  <2> QED
    BY <2>1, <2>2
<1> QED
  BY <1>1, <1>3, <1>4, <1>7, <1>8, <1>9, <1>10, SlotStep

-------------------------------------------------------------------------------
(* The steps that acknowledge a write, and the last ones. *)

(* A step that writes only the nodes of ws, and rests on the others. *)
LEMMA WriteStep ==
    ASSUME TierInv, NEW s \in Slots, NEW c, Moves(s, c), NEW ws,
           IsDb(db'), SameEdges(db, db'), wired' = wired, bucket' = bucket,
           Born' = Born \cup ws, \A n \in Born \ ws : acked'[n] = acked[n],
           doomed \subseteq doomed', exposed \subseteq exposed',
           gone' \subseteq doomed', doomed' \subseteq Born',
           \A n : n \notin ws => /\ SameAt(db.index, db'.index, n)
                                 /\ SameAt(db.payloads, db'.payloads, n)
                                 /\ SameAt(db.nodes, db'.nodes, n)
                                 /\ SameAt(cache, cache', n),
           ~At(s, "update", "cache"), WorksOn(c) \subseteq ws,
           \A n \in ws : n \notin doomed' \cup exposed' =>
               RowsOK(n)' /\ CacheOK(n)' /\ CallsOK(n)' /\ Apart(n)',
           \A n \in gone' \ exposed' : GoneOK(n)'
    PROVE  TierInv'
<1>1. /\ DOMAIN db'.index \subseteq Born' /\ DOMAIN db'.payloads \subseteq Born'
      /\ DOMAIN db'.nodes \subseteq Born' /\ DOMAIN cache' \subseteq Born'
  BY DEF TierInv, BornOK, SameAt
<1>2. \A r \in Slots : WorksOn(call'[r]) \subseteq Born'
  BY DEF TierInv, BornOK, Moves
<1>3. BornOK'
  BY <1>1, <1>2 DEF BornOK, Moves
<1>4. EdgesOK(db', wired')
  BY SameEdgesOK DEF TierInv
<1>5. ASSUME NEW n \in (Live \ exposed)'
      PROVE  RowsOK(n)' /\ CacheOK(n)' /\ CallsOK(n)' /\ Apart(n)'
  <2>1. n \in Born' /\ n \notin doomed' \cup exposed'
    BY <1>5 DEF Live
  <2>2. CASE n \in ws
    BY <2>1, <2>2
  <2>3. CASE n \notin ws
    <3>1. n \in Live \ exposed /\ acked'[n] = acked[n]
      BY <2>1, <2>3 DEF Live
    <3>2. RowsOK(n) /\ CacheOK(n) /\ CallsOK(n) /\ Apart(n)
      BY <3>1 DEF TierInv
    <3>3. ObjectGood(n) => ObjectGood(n)'
      BY <3>1 DEF ObjectGood
    <3>4. RowsOK(n)'
      BY <2>3, <3>1, <3>2, <3>3, RowsKept
    <3>5. CacheOK(n)'
      BY <2>3, <3>1, <3>2, CacheKept
    <3>6. \A r \in Slots \ {s} : RunsOn(r, n) => RowsFor(r, n)
      BY <2>3 DEF RowsFor, SameAt
    <3>7. CallsOK(n)' /\ Apart(n)'
      BY <2>3, <3>1, <3>2, <3>3, <3>6, CallsKept
    <3> QED
      BY <3>4, <3>5, <3>7
  <2> QED
    BY <2>2, <2>3
<1> QED
  BY <1>3, <1>4, <1>5 DEF TierInv

(* No call is at work on the node. *)
LEMMA NobodyOn ==
    ASSUME NEW n, \A r \in Slots : ~RunsOn(r, n)'
    PROVE  CallsOK(n)' /\ Apart(n)'
  BY DEF CallsOK, Apart

LEMMA InsertStartStep ==
    ASSUME TierInv, NEW s \in Slots, InsertNodeStart(s)
    PROVE  TierInv'
<1>1. PICK m \in Nodes \ Born, t \in NodeTypes, p \in Docs :
         /\ db' = InsertNodeTiered(db, m, IndexRecord(t, "local", p), p)
         /\ acked' = Put(acked, m, p)
         /\ Goes(s, InsertCall(m, "props", t, p))
  BY DEF InsertNodeStart
<1> PICK c, index : c = InsertCall(m, "props", t, p) /\ index = IndexRecord(t, "local", p)
  OBVIOUS
<1>2. /\ call[s] = Idle /\ cache' = cache /\ bucket' = bucket /\ exposed' = exposed
      /\ doomed' = doomed /\ gone' = gone /\ wired' = wired
  BY DEF InsertNodeStart
<1>3. c.op = "insert" /\ c.node = m /\ c.props = p /\ index.loc = "local"
  BY DEF InsertCall, IndexRecord
<1>4. WorksOn(c) = {m} /\ Moves(s, c) /\ ~At(s, "update", "cache")
  BY <1>1, <1>2, <1>3, WorksOnIs, GoesMoves DEF TierInv, At, Idle
<1>5. /\ IsDb(db') /\ SameEdges(db, db') /\ db'.index = Put(db.index, m, index)
      /\ db'.payloads = Put(db.payloads, m, p) /\ db'.nodes = db.nodes
  BY <1>1, InsertNodeTieredIs DEF TierInv, BornOK
<1>6. Born' = Born \cup {m} /\ acked'[m] = p /\ \A n \in Born \ {m} : acked'[n] = acked[n]
  BY <1>1 DEF Born, Put
<1>7. ASSUME NEW n, n \notin {m}
      PROVE  /\ SameAt(db.index, db'.index, n) /\ SameAt(db.payloads, db'.payloads, n)
             /\ SameAt(db.nodes, db'.nodes, n) /\ SameAt(cache, cache', n)
  <2>1. SameAt(db.index, db'.index, n) /\ SameAt(db.payloads, db'.payloads, n)
    BY <1>5, <1>7, PutSame
  <2> QED
    BY <1>2, <1>5, <2>1 DEF SameAt
<1>8. RowsOK(m)' /\ CacheOK(m)'
  <2>1. m \notin DOMAIN db'.nodes /\ m \notin DOMAIN cache'
    BY <1>1, <1>2, <1>5 DEF TierInv, BornOK
  <2>2. m \in DOMAIN db'.index /\ db'.index[m] = index
    BY <1>5 DEF Put
  <2>3. m \in DOMAIN db'.payloads /\ db'.payloads[m] = p
    BY <1>5 DEF Put
  <2> QED
    BY <1>3, <1>6, <2>1, <2>2, <2>3 DEF RowsOK, CacheOK
<1>9. CallsOK(m)' /\ Apart(m)'
  <2>1. \A r \in Slots \ {s} : ~RunsOn(r, m)'
    BY <1>1, <1>4 DEF TierInv, BornOK, RunsOn, Moves
  <2>2. CallOK(c, m)'
    BY <1>3, <1>6 DEF CallOK, Reads
  <2>3. CallOK(call[s], m)'
    BY <1>4, <2>2 DEF Moves
  <2> QED
    BY <2>1, <2>3 DEF CallsOK, Apart
<1>10. ASSUME NEW n \in gone' \ exposed' PROVE GoneOK(n)'
  <2>1. GoneOK(n) /\ n # m
    BY <1>1, <1>2, <1>10 DEF TierInv, BornOK
  <2> QED
    BY <1>4, <1>7, <2>1, GoneKept DEF SameAt
<1>11. gone' \subseteq doomed' /\ doomed' \subseteq Born'
  BY <1>2, <1>6 DEF TierInv, BornOK
<1> QED
  BY <1>2, <1>4, <1>5, <1>6, <1>7, <1>8, <1>9, <1>10, <1>11, WriteStep

LEMMA InsertBatchStep ==
    ASSUME TierInv, NEW s \in Slots, InsertNodesBatch(s)
    PROVE  TierInv'
<1>1. PICK ns \in SUBSET (Nodes \ Born), t \in NodeTypes, p \in Docs :
         /\ db' = InsertNodesTieredBatch(db,
                     [n \in ns |-> [index |-> IndexRecord(t, "local", p), payload |-> p]])
         /\ acked' = Merge(acked, [n \in ns |-> p])
         /\ Goes(s, BatchCall([n \in ns |-> p]))
  BY DEF InsertNodesBatch
<1> PICK index, ps, ixs : /\ index = IndexRecord(t, "local", p)
                          /\ ps = [n \in ns |-> p] /\ ixs = [n \in ns |-> index]
  OBVIOUS
<1> PICK c : c = BatchCall(ps)
  OBVIOUS
<1>2. /\ call[s] = Idle /\ cache' = cache /\ bucket' = bucket /\ exposed' = exposed
      /\ doomed' = doomed /\ gone' = gone /\ wired' = wired
  BY DEF InsertNodesBatch
<1>3. c.op = "batch" /\ c.todo = ps /\ index.loc = "local"
  BY DEF BatchCall, IndexRecord
<1>4. WorksOn(c) = ns /\ Moves(s, c) /\ ~At(s, "update", "cache")
  BY <1>1, <1>2, <1>3, WorksOnIs, GoesMoves DEF TierInv, At, Idle
<1>5. /\ IsDb(db') /\ SameEdges(db, db') /\ db'.index = Merge(db.index, ixs)
      /\ db'.payloads = Merge(db.payloads, ps) /\ db'.nodes = db.nodes
  <2> DEFINE rows == [n \in ns |-> [index |-> index, payload |-> p]]
  <2>1. DOMAIN rows = ns /\ \A n \in ns : rows[n].index = index /\ rows[n].payload = p
    OBVIOUS
  <2>2. db' = InsertNodesTieredBatch(db, rows)
    BY <1>1
  <2> HIDE DEF rows
  <2>3. /\ [n \in DOMAIN rows |-> rows[n].index] = ixs
        /\ [n \in DOMAIN rows |-> rows[n].payload] = ps
    BY <2>1
  <2> QED
    BY <2>2, <2>3, InsertNodesTieredBatchIs DEF TierInv, BornOK
<1>6. DOMAIN ps = ns /\ DOMAIN ixs = ns /\ \A n \in ns : ps[n] = p /\ ixs[n] = index
  OBVIOUS
<1>7. acked' = Merge(acked, ps)
  BY <1>1
<1>8. /\ Born' = Born \cup ns /\ \A n \in ns : acked'[n] = p
      /\ \A n \in Born \ ns : acked'[n] = acked[n]
  BY <1>6, <1>7 DEF Born, Merge
<1>9. ASSUME NEW n, n \notin ns
      PROVE  /\ SameAt(db.index, db'.index, n) /\ SameAt(db.payloads, db'.payloads, n)
             /\ SameAt(db.nodes, db'.nodes, n) /\ SameAt(cache, cache', n)
  <2>1. /\ SameAt(db.index, db'.index, n) /\ SameAt(db.payloads, db'.payloads, n)
    BY <1>5, <1>6, <1>9, MergeSame
  <2> QED
    BY <1>2, <1>5, <2>1 DEF SameAt
<1>10. ASSUME NEW n \in ns PROVE RowsOK(n)' /\ CacheOK(n)' /\ CallsOK(n)' /\ Apart(n)'
  <2>1. n \notin DOMAIN db'.nodes /\ n \notin DOMAIN cache'
    BY <1>2, <1>5 DEF TierInv, BornOK
  <2>2. n \in DOMAIN db'.index /\ db'.index[n] = index
    BY <1>5, <1>6 DEF Merge
  <2>3. n \in DOMAIN db'.payloads /\ db'.payloads[n] = p
    BY <1>5, <1>6 DEF Merge
  <2>4. RowsOK(n)' /\ CacheOK(n)'
    BY <1>3, <1>8, <2>1, <2>2, <2>3 DEF RowsOK, CacheOK
  <2>5. \A r \in Slots \ {s} : ~RunsOn(r, n)'
    BY <1>4 DEF TierInv, BornOK, RunsOn, Moves
  <2>6. CallOK(c, n)'
    BY <1>3, <1>6, <1>8 DEF CallOK, Reads
  <2>7. CallOK(call[s], n)'
    BY <1>4, <2>6 DEF Moves
  <2> QED
    BY <2>4, <2>5, <2>7 DEF CallsOK, Apart
<1>11. ASSUME NEW n \in gone' \ exposed' PROVE GoneOK(n)'
  <2>1. GoneOK(n) /\ n \notin ns
    BY <1>2, <1>11 DEF TierInv, BornOK
  <2> QED
    BY <1>4, <1>9, <2>1, GoneKept DEF SameAt
<1>12. gone' \subseteq doomed' /\ doomed' \subseteq Born'
  BY <1>2, <1>8 DEF TierInv, BornOK
<1> QED
  BY <1>2, <1>4, <1>5, <1>8, <1>9, <1>10, <1>11, <1>12, WriteStep

LEMMA UpdateCommitStep ==
    ASSUME TierInv, NEW s \in Slots, UpdateCommit(s)
    PROVE  TierInv'
<1> PICK o, m, p : o = call[s] /\ m = o.node /\ p = o.props
  OBVIOUS
<1> PICK index, c, v : /\ index = IndexRecord(o.index.type, "local", p)
                       /\ c = UpdateCall(m, "cache", p)
                       /\ v = Merge(acked[m], o.new)
  OBVIOUS
<1>1. /\ o.op = "update" /\ o.pc = "commit" /\ Goes(s, c)
      /\ db' = UpdateNodeTiered(db, m, index, p) /\ acked' = Put(acked, m, v)
      /\ cache' = cache /\ bucket' = bucket /\ exposed' = exposed
      /\ doomed' = doomed /\ gone' = gone /\ wired' = wired
  BY DEF UpdateCommit, At
<1>2. c.op = "update" /\ c.node = m /\ c.pc = "cache" /\ c.props = p /\ index.loc = "local"
  BY DEF UpdateCall, IndexRecord
<1>3. /\ WorksOn(o) = {m} /\ WorksOn(c) = {m} /\ Moves(s, c) /\ ~At(s, "update", "cache")
      /\ Revives(o) /\ RunsOn(s, m)
  BY <1>1, <1>2, WorksOnIs, GoesMoves DEF TierInv, At, Revives, RunsOn
<1>4. /\ IsDb(db') /\ SameEdges(db, db') /\ db'.index = Put(db.index, m, index)
      /\ db'.payloads = Put(db.payloads, m, p)
      /\ db'.nodes = Put(db.nodes, m, [type |-> index.type, props |-> p])
  BY <1>1, UpdateNodeTieredIs DEF TierInv, BornOK
<1>5. m \in Born
  BY <1>3 DEF TierInv, BornOK, RunsOn
<1>6. Born' = Born \cup {m} /\ acked'[m] = v /\ \A n \in Born \ {m} : acked'[n] = acked[n]
  BY <1>1 DEF Born, Put
<1>7. ASSUME NEW n, n \notin {m}
      PROVE  /\ SameAt(db.index, db'.index, n) /\ SameAt(db.payloads, db'.payloads, n)
             /\ SameAt(db.nodes, db'.nodes, n) /\ SameAt(cache, cache', n)
  <2>1. /\ SameAt(db.index, db'.index, n) /\ SameAt(db.payloads, db'.payloads, n)
        /\ SameAt(db.nodes, db'.nodes, n)
    BY <1>4, <1>7, PutSame
  <2> QED
    BY <1>1, <2>1 DEF SameAt
<1>8. ASSUME m \notin doomed' \cup exposed'
      PROVE  RowsOK(m)' /\ CacheOK(m)' /\ CallsOK(m)' /\ Apart(m)'
  <2>1. m \in Live \ exposed
    BY <1>1, <1>5, <1>8 DEF Live
  <2>2. CallOK(o, m) /\ Apart(m) /\ CallsOK(m)
    BY <1>3, <2>1 DEF TierInv, CallsOK
  <2>3. p = v
    BY <1>1, <2>2 DEF CallOK
  <2>4. m \in DOMAIN db'.index /\ db'.index[m] = index
    BY <1>4 DEF Put
  <2>5. m \in DOMAIN db'.payloads /\ db'.payloads[m] = p
    BY <1>4 DEF Put
  <2>6. m \in DOMAIN db'.nodes /\ db'.nodes[m].props = p
    BY <1>4 DEF Put
  <2>7. RowsOK(m)'
    BY <1>2, <1>6, <2>3, <2>4, <2>5, <2>6 DEF RowsOK
  <2>8. CacheOK(m)'
    BY <1>2, <1>3 DEF CacheOK, Moves, At
  <2>9. \A r \in Slots \ {s} : RunsOn(r, m) => ~Conflict("update", call[r].op)
    BY <1>1, <1>3, <2>2 DEF Apart
  <2>10. ASSUME NEW r \in Slots \ {s}, RunsOn(r, m)' PROVE CallOK(call[r], m)'
    <3> PICK b : b = call[r]
      OBVIOUS
    <3>1. call'[r] = b
      BY <1>3 DEF Moves
    <3>2. RunsOn(r, m)
      BY <2>10, <3>1 DEF RunsOn
    <3>3. b.op \notin {"update", "get", "list", "insert", "batch", "evict", "promote"}
      BY <2>9, <3>2 DEF Conflict
    <3>4. CallOK(b, m)'
      BY <3>3 DEF CallOK, Reads
    <3> QED
      BY <3>1, <3>4
  <2>11. CallOK(c, m)'
    BY <1>2, <1>6, <2>3 DEF CallOK, Reads
  <2>12. CallOK(call[s], m)'
    BY <1>3, <2>11 DEF Moves
  <2>13. CallsOK(m)'
    BY <2>10, <2>12 DEF CallsOK
  <2>14. \A r \in Slots : (RunsOn(r, m)' => RunsOn(r, m)) /\ call'[r].op = call[r].op
    BY <1>1, <1>2, <1>3 DEF Moves, RunsOn
  <2>15. Apart(m)'
    BY <2>2, <2>14 DEF Apart
  <2> QED
    BY <2>7, <2>8, <2>13, <2>15
<1>9. ASSUME NEW n \in gone' \ exposed' PROVE GoneOK(n)'
  <2>1. GoneOK(n)
    BY <1>1, <1>9 DEF TierInv
  <2>2. n # m
    BY <1>3, <2>1 DEF GoneOK
  <2> QED
    BY <1>3, <1>7, <2>1, <2>2, GoneKept DEF SameAt
<1>10. gone' \subseteq doomed' /\ doomed' \subseteq Born'
  BY <1>1, <1>6 DEF TierInv, BornOK
<1>11. \A n \in {m} : n \notin doomed' \cup exposed' =>
          RowsOK(n)' /\ CacheOK(n)' /\ CallsOK(n)' /\ Apart(n)'
  BY <1>8
<1>12. doomed \subseteq doomed' /\ exposed \subseteq exposed' /\ WorksOn(c) \subseteq {m}
  BY <1>1, <1>3
<1> QED
  <2> PICK ws : ws = {m}
    OBVIOUS
  <2>1. /\ WorksOn(c) \subseteq ws /\ Born' = Born \cup ws
        /\ \A n \in Born \ ws : acked'[n] = acked[n]
    BY <1>6, <1>12
  <2>2. \A n : n \notin ws => /\ SameAt(db.index, db'.index, n)
                              /\ SameAt(db.payloads, db'.payloads, n)
                              /\ SameAt(db.nodes, db'.nodes, n)
                              /\ SameAt(cache, cache', n)
    BY <1>7
  <2>3. \A n \in ws : n \notin doomed' \cup exposed' =>
           RowsOK(n)' /\ CacheOK(n)' /\ CallsOK(n)' /\ Apart(n)'
    BY <1>11
  <2>4. IsDb(db') /\ SameEdges(db, db') /\ Moves(s, c) /\ ~At(s, "update", "cache")
    BY <1>3, <1>4
  <2>5. wired' = wired /\ bucket' = bucket
    BY <1>1
  <2> QED
    BY <1>9, <1>10, <1>12, <2>1, <2>2, <2>3, <2>4, <2>5, WriteStep

LEMMA CacheEvictsStep ==
    ASSUME TierInv, CacheEvicts
    PROVE  TierInv'
<1>1. PICK m : cache' = Without(cache, {m})
  BY DEF CacheEvicts
<1>2. /\ db' = db /\ acked' = acked /\ bucket' = bucket /\ call' = call
      /\ doomed' = doomed /\ gone' = gone /\ wired' = wired /\ exposed' = exposed
  BY DEF CacheEvicts, history
<1>3. /\ DOMAIN cache' \subseteq DOMAIN cache
      /\ \A n \in DOMAIN cache' : cache'[n] = cache[n]
  BY <1>1 DEF Without, Restrict
<1>4. BornOK'
  BY <1>2, <1>3 DEF TierInv, BornOK, Born
<1>5. ASSUME NEW n \in Live \ exposed
      PROVE  RowsOK(n)' /\ CacheOK(n)' /\ CallsOK(n)' /\ Apart(n)'
  <2>1. RowsOK(n) /\ CacheOK(n) /\ CallsOK(n) /\ Apart(n)
    BY DEF TierInv
  <2>2. RowsOK(n)'
    BY <1>2, <2>1 DEF RowsOK, ObjectGood
  <2>3. CacheOK(n)'
    BY <1>2, <1>3, <2>1 DEF CacheOK, At
  <2>4. CallsOK(n)'
    BY <1>2, <2>1 DEF CallsOK, CallOK, RunsOn, IndexOK, ObjectGood
  <2>5. Apart(n)'
    BY <1>2, <2>1 DEF Apart, RunsOn
  <2> QED
    BY <2>2, <2>3, <2>4, <2>5
<1>6. \A n \in gone \ exposed : GoneOK(n)'
  BY <1>2 DEF TierInv, GoneOK, RunsOn
<1> QED
  BY <1>2, <1>4, <1>5, <1>6 DEF TierInv, Live, Born

-------------------------------------------------------------------------------
(* A transaction of one operation. *)
LEMMA CommitOne ==
    ASSUME NEW d, NEW op
    PROVE  Commit(d, <<op>>) = CommitOp(d, op)
<1> DEFINE ops == <<op>>
           Entry(f, u) == IF u = {} THEN d ELSE CommitOp(f[u \ {Max(u)}], ops[Max(u)])
           Rec(f) == f = [u \in SUBSET DOMAIN ops |-> Entry(f, u)]
           C == [u \in SUBSET DOMAIN ops |-> IF u = {} THEN d ELSE CommitOp(d, op)]
<1>1. DOMAIN ops = {1} /\ ops[1] = op
  OBVIOUS
<1>2. Max({1}) = 1
  BY DEF Max
<1> HIDE DEF ops
<1>3. SUBSET DOMAIN ops = {{}, {1}}
  BY <1>1
<1>4. Rec(C)
  <2>1. C[{}] = d /\ C[{1}] = CommitOp(d, op)
    BY <1>3
  <2>2. Entry(C, {}) = d /\ Entry(C, {1}) = CommitOp(d, op)
    <3>1. {1} \ {Max({1})} = {}
      BY <1>2
    <3> HIDE DEF C
    <3> QED
      BY <1>1, <1>2, <2>1, <3>1
  <2> HIDE DEF Entry
  <2> QED
    BY <1>3, <2>1, <2>2
<1>5. PICK f : Rec(f) /\ Commit(d, ops) = f[DOMAIN ops]
  <2> DEFINE iter == CHOOSE f : Rec(f)
  <2>1. Rec(iter)
    <3> HIDE DEF Rec, C
    <3> QED
      BY <1>4
  <2>2. Commit(d, ops) = iter[DOMAIN ops]
    BY DEF Commit, FoldLeft, MapThenFoldSet
  <2> HIDE DEF iter, Rec
  <2> QED
    BY <2>1, <2>2
<1>6. f[{}] = d
  BY <1>3, <1>5
<1>7. f[{1}] = CommitOp(f[{1} \ {Max({1})}], ops[Max({1})])
  BY <1>3, <1>5
<1>8. f[{1}] = CommitOp(f[{}], ops[1])
  BY <1>2, <1>7
<1> QED
  BY <1>1, <1>5, <1>6, <1>8 DEF ops

(* What the operations of a transaction do. *)
LEMMA CommitInsertNode ==
    ASSUME NEW d, IsDb(d), NEW op, op.op = "InsertNode"
    PROVE  LET e == CommitOp(d, op) IN
           /\ IsDb(e) /\ SameEdges(d, e) /\ e.index = d.index /\ e.payloads = d.payloads
           /\ e.nodes = Put(d.nodes, op.node, [type |-> op.type, props |-> op.props])
<1>1. CommitOp(d, op) = InsertNode(d, op.node, op.type, op.props)
  BY DEF CommitOp
<1> QED
  BY <1>1, InsertNodeIs

LEMMA CommitUpdateNode ==
    ASSUME NEW d, IsDb(d), NEW op, op.op = "UpdateNode", op.node \in DOMAIN d.nodes
    PROVE  LET e == CommitOp(d, op) IN
           /\ IsDb(e) /\ SameEdges(d, e) /\ e.index = d.index /\ e.payloads = d.payloads
           /\ e.nodes = Put(d.nodes, op.node,
                            [type |-> d.nodes[op.node].type,
                             props |-> Merge(d.nodes[op.node].props, op.props)])
<1>1. CommitOp(d, op) = UpdateNode(d, op.node, op.props)
  BY DEF CommitOp
<1> QED
  BY <1>1, UpdateNodeIs

LEMMA CommitDeleteNode ==
    ASSUME NEW d, IsDb(d), NEW op, op.op = "DeleteNode"
    PROVE  LET e == CommitOp(d, op) IN
           /\ IsDb(e) /\ SameEdges(d, e) /\ e.index = d.index /\ e.payloads = d.payloads
           /\ e.nodes = Without(d.nodes, {op.node})
<1>1. CommitOp(d, op) = [d EXCEPT !.nodes = Without(@, {op.node})]
  BY DEF CommitOp
<1> QED
  BY <1>1 DEF IsDb, Tables, SameEdges

LEMMA CommitInsertEdge ==
    ASSUME NEW d, IsDb(d), NEW op, op.op = "InsertEdge"
    PROVE  LET e == CommitOp(d, op) IN
           /\ IsDb(e) /\ SameRows(d, e) /\ e.edges = Put(d.edges, op.edge, op.row)
           /\ e.from = d.from \cup {<<op.row.from, op.edge>>}
           /\ e.to = d.to \cup {<<op.row.to, op.edge>>}
<1>1. CommitOp(d, op) = [d EXCEPT !.edges = Put(@, op.edge, op.row),
                                  !.from = @ \cup {<<op.row.from, op.edge>>},
                                  !.to = @ \cup {<<op.row.to, op.edge>>}]
  BY DEF CommitOp
<1> QED
  BY <1>1 DEF IsDb, Tables, SameRows

LEMMA CommitDeleteEdge ==
    ASSUME NEW d, IsDb(d), NEW op, op.op = "DeleteEdge"
    PROVE  LET e == CommitOp(d, op) IN
           /\ IsDb(e) /\ SameRows(d, e) /\ e.edges = Without(d.edges, {op.edge})
           /\ e.from = d.from /\ e.to = d.to
<1>1. CommitOp(d, op) = [d EXCEPT !.edges = Without(@, {op.edge})]
  BY DEF CommitOp
<1> QED
  BY <1>1 DEF IsDb, Tables, SameRows

LEMMA CrashAndOpenStep ==
    ASSUME TierInv, CrashAndOpen
    PROVE  TierInv'
<1>1. /\ db' = MigrateToTiered(db) /\ cache' = <<>> /\ call' = [s \in Slots |-> Idle]
      /\ bucket' = bucket /\ acked' = acked /\ exposed' = exposed /\ doomed' = doomed
      /\ gone' = gone /\ wired' = wired
  BY DEF CrashAndOpen
<1>2. /\ IsDb(db') /\ SameEdges(db, db') /\ db'.nodes = db.nodes
      /\ DOMAIN db.index # {} => db'.index = db.index /\ db'.payloads = db.payloads
      /\ DOMAIN db.index = {} =>
            /\ db'.index = [n \in DOMAIN db.nodes |->
                               IndexRecord(db.nodes[n].type, "local", db.nodes[n].props)]
            /\ db'.payloads = Merge(db.payloads, [n \in DOMAIN db.nodes |-> db.nodes[n].props])
  BY <1>1, MigrateIs DEF TierInv, BornOK
<1>3. DOMAIN cache' = {} /\ DOMAIN call' = Slots
  BY <1>1
<1>4. \A s \in Slots : WorksOn(call'[s]) = {}
  <2>1. Idle.op = "idle"
    BY DEF Idle
  <2> QED
    BY <1>1, <2>1, WorksOnIs
<1>5. /\ DOMAIN db'.index \subseteq DOMAIN db.index \cup DOMAIN db.nodes
      /\ DOMAIN db'.payloads \subseteq DOMAIN db.payloads \cup DOMAIN db.nodes
  BY <1>2 DEF Merge
<1>6. BornOK'
  <2>1. Born' = Born
    BY <1>1 DEF Born
  <2> QED
    BY <1>1, <1>2, <1>3, <1>4, <1>5, <2>1 DEF TierInv, BornOK
<1>7. EdgesOK(db', wired')
  BY <1>1, <1>2, SameEdgesOK DEF TierInv
<1>8. ASSUME NEW n \in Live \ exposed
      PROVE  RowsOK(n)' /\ CacheOK(n)' /\ CallsOK(n)' /\ Apart(n)'
  <2>1. RowsOK(n)
    BY DEF TierInv
  <2>2. ObjectGood(n) => ObjectGood(n)'
    BY <1>1 DEF ObjectGood
  <2>3. ASSUME DOMAIN db.index # {} PROVE RowsOK(n)'
    <3>1. SameAt(db.index, db'.index, n) /\ SameAt(db.payloads, db'.payloads, n)
      BY <1>2, <2>3 DEF SameAt
    <3>2. SameAt(db.nodes, db'.nodes, n) /\ acked'[n] = acked[n]
      BY <1>1, <1>2 DEF SameAt
    <3> QED
      BY <2>1, <2>2, <3>1, <3>2, RowsKept
  <2>4. ASSUME DOMAIN db.index = {} PROVE RowsOK(n)'
    <3>1. n \in DOMAIN db.nodes /\ db.nodes[n].props = acked[n]
      BY <2>1, <2>4 DEF RowsOK
    <3> PICK index : index = IndexRecord(db.nodes[n].type, "local", db.nodes[n].props)
      OBVIOUS
    <3>2. n \in DOMAIN db'.index /\ db'.index[n] = index
      BY <1>2, <2>4, <3>1
    <3>3. n \in DOMAIN db'.payloads /\ db'.payloads[n] = acked[n]
      BY <1>2, <2>4, <3>1 DEF Merge
    <3>4. index.loc = "local"
      BY DEF IndexRecord
    <3>5. acked'[n] = acked[n] /\ db'.nodes[n].props = acked[n]
      BY <1>1, <1>2, <3>1
    <3> QED
      BY <3>2, <3>3, <3>4, <3>5 DEF RowsOK
  <2>5. RowsOK(n)'
    BY <2>3, <2>4
  <2>6. CacheOK(n)'
    BY <1>3 DEF CacheOK
  <2>7. \A r \in Slots : ~RunsOn(r, n)'
    BY <1>4 DEF RunsOn
  <2> QED
    BY <2>5, <2>6, <2>7, NobodyOn
<1>9. ASSUME NEW n \in gone \ exposed PROVE GoneOK(n)'
  <2>1. n \notin DOMAIN db.index /\ n \notin DOMAIN db.nodes
    BY DEF TierInv, GoneOK
  <2>2. \A r \in Slots : ~RunsOn(r, n)'
    BY <1>4 DEF RunsOn
  <2> QED
    BY <1>2, <1>5, <2>1, <2>2 DEF GoneOK
<1> QED
  BY <1>1, <1>6, <1>7, <1>8, <1>9 DEF TierInv, Live, Born

(* A transaction on the legacy row of a node that no call works on. *)
LEMMA TxnNodeStep ==
    ASSUME TierInv, NEW s \in Slots, call[s] = Idle, call' = call, NEW m, NEW op,
           db' = CommitOp(db, op), op.node = m,
           op.op \in {"InsertNode", "UpdateNode", "DeleteNode"},
           op.op = "InsertNode" => m \notin Born /\ acked' = Put(acked, m, op.props),
           op.op = "UpdateNode" =>
               /\ m \in DOMAIN db.nodes
               /\ acked' = Put(acked, m, Merge(acked[m], op.props)),
           op.op = "DeleteNode" =>
               m \in Born /\ acked' = acked /\ m \in doomed' \cup exposed',
           cache' = cache, bucket' = bucket, wired' = wired,
           exposed \subseteq exposed',
           m \in DOMAIN db.index \cup DOMAIN cache => m \in exposed',
           (\E r \in Slots : RunsOn(r, m)) => m \in exposed',
           doomed \subseteq doomed', doomed' \subseteq Born', gone' \subseteq doomed',
           gone' # gone => op.op = "DeleteNode" /\ gone' \subseteq gone \cup {m}
    PROVE  TierInv'
<1> PICK c, ws : c = call[s] /\ ws = {m}
  OBVIOUS
<1>1. c.op = "idle"
  BY DEF Idle
<1>2. WorksOn(c) = {} /\ Moves(s, c) /\ ~At(s, "update", "cache")
  BY <1>1, WorksOnIs, RestMoves DEF TierInv, At
<1>3. IsDb(db) /\ DOMAIN db.nodes \subseteq Born
  BY DEF TierInv, BornOK
<1>i. ASSUME op.op = "InsertNode"
      PROVE  /\ IsDb(db') /\ SameEdges(db, db') /\ db'.index = db.index
             /\ db'.payloads = db.payloads
             /\ db'.nodes = Put(db.nodes, m, [type |-> op.type, props |-> op.props])
  BY <1>3, <1>i, CommitInsertNode
<1>u. ASSUME op.op = "UpdateNode"
      PROVE  /\ IsDb(db') /\ SameEdges(db, db') /\ db'.index = db.index
             /\ db'.payloads = db.payloads
             /\ db'.nodes = Put(db.nodes, m, [type |-> db.nodes[m].type,
                                              props |-> Merge(db.nodes[m].props, op.props)])
  BY <1>3, <1>u, CommitUpdateNode
<1>d. ASSUME op.op = "DeleteNode"
      PROVE  /\ IsDb(db') /\ SameEdges(db, db') /\ db'.index = db.index
             /\ db'.payloads = db.payloads /\ db'.nodes = Without(db.nodes, {m})
  BY <1>3, <1>d, CommitDeleteNode
<1>4. /\ IsDb(db') /\ SameEdges(db, db') /\ db'.index = db.index
      /\ db'.payloads = db.payloads
  BY <1>i, <1>u, <1>d
<1>6. Born' = Born \cup ws /\ \A n \in Born \ ws : acked'[n] = acked[n]
  <2>1. CASE op.op = "InsertNode"
    BY <2>1 DEF Born, Put
  <2>2. CASE op.op = "UpdateNode"
    BY <2>2 DEF Born, Put
  <2>3. CASE op.op = "DeleteNode"
    BY <2>3 DEF Born
  <2> QED
    BY <2>1, <2>2, <2>3
<1>7. ASSUME NEW n, n \notin ws
      PROVE  /\ SameAt(db.index, db'.index, n) /\ SameAt(db.payloads, db'.payloads, n)
             /\ SameAt(db.nodes, db'.nodes, n) /\ SameAt(cache, cache', n)
  <2>1. SameAt(db.nodes, db'.nodes, n)
    <3>1. CASE op.op = "DeleteNode"
      BY <1>d, <1>7, <3>1, WithoutSame
    <3>2. CASE op.op # "DeleteNode"
      BY <1>i, <1>u, <1>7, <3>2, PutSame
    <3> QED
      BY <3>1, <3>2
  <2> QED
    BY <1>4, <2>1 DEF SameAt
<1>8. ASSUME m \notin doomed' \cup exposed'
      PROVE  RowsOK(m)' /\ CacheOK(m)' /\ CallsOK(m)' /\ Apart(m)'
  <2>1. m \notin DOMAIN db'.index /\ m \notin DOMAIN cache'
    BY <1>4, <1>8
  <2>2. \A r \in Slots : ~RunsOn(r, m)'
    BY <1>8 DEF RunsOn
  <2>3. m \notin DOMAIN db'.payloads /\ m \in DOMAIN db'.nodes /\ db'.nodes[m].props = acked'[m]
    <3>1. CASE op.op = "InsertNode"
      <4>1. m \notin DOMAIN db.payloads
        BY <3>1 DEF TierInv, BornOK
      <4>2. acked'[m] = op.props
        BY <3>1 DEF Put
      <4>3. m \in DOMAIN db'.nodes /\ db'.nodes[m].props = op.props
        BY <1>i, <3>1 DEF Put
      <4> QED
        BY <1>4, <4>1, <4>2, <4>3
    <3>2. CASE op.op = "UpdateNode"
      <4>1. m \in Live \ exposed
        BY <1>3, <1>8, <3>2 DEF Live
      <4>2. m \notin DOMAIN db.payloads /\ db.nodes[m].props = acked[m]
        BY <1>4, <2>1, <3>2, <4>1 DEF TierInv, RowsOK
      <4>3. acked'[m] = Merge(acked[m], op.props)
        BY <3>2 DEF Put
      <4>4. m \in DOMAIN db'.nodes /\ db'.nodes[m].props = Merge(db.nodes[m].props, op.props)
        BY <1>u, <3>2 DEF Put
      <4> QED
        BY <1>4, <4>2, <4>3, <4>4
    <3> QED
      BY <1>8, <3>1, <3>2
  <2>4. RowsOK(m)' /\ CacheOK(m)'
    BY <2>1, <2>3 DEF RowsOK, CacheOK
  <2> QED
    BY <2>2, <2>4, NobodyOn
<1>9. \A n \in ws : n \notin doomed' \cup exposed' =>
         RowsOK(n)' /\ CacheOK(n)' /\ CallsOK(n)' /\ Apart(n)'
  BY <1>8
<1>10. ASSUME NEW n \in gone' \ exposed' PROVE GoneOK(n)'
  <2>1. CASE n = m
    <3>1. \A r \in Slots : ~RunsOn(r, m)'
      BY <1>10, <2>1 DEF RunsOn
    <3>2. m \notin DOMAIN db'.index
      BY <1>4, <1>10, <2>1
    <3>3. m \notin DOMAIN db'.nodes
      <4>1. CASE op.op = "DeleteNode"
        BY <1>d, <4>1 DEF Without, Restrict
      <4>2. CASE op.op # "DeleteNode"
        <5>1. m \in gone \ exposed
          BY <1>10, <2>1, <4>2
        <5>2. m \in Born /\ m \notin DOMAIN db.nodes
          BY <5>1 DEF TierInv, BornOK, GoneOK
        <5> QED
          BY <4>2, <5>2
      <4> QED
        BY <4>1, <4>2
    <3> QED
      BY <2>1, <3>1, <3>2, <3>3 DEF GoneOK
  <2>2. CASE n # m
    <3>1. GoneOK(n) /\ n \notin ws
      BY <1>10, <2>2 DEF TierInv
    <3>2. /\ n \in DOMAIN db'.index => n \in DOMAIN db.index
          /\ n \in DOMAIN db'.nodes => n \in DOMAIN db.nodes
      BY <1>7, <3>1 DEF SameAt
    <3> QED
      BY <1>2, <3>1, <3>2, GoneKept
  <2> QED
    BY <2>1, <2>2
<1> QED
  BY <1>2, <1>4, <1>6, <1>7, <1>9, <1>10, WriteStep

LEMMA TxnCommitStep ==
    ASSUME TierInv, NEW s \in Slots, TxnCommit(s)
    PROVE  TierInv'
<1> DEFINE named(op) == IF op.op \in {"InsertNode", "UpdateNode", "DeleteNode"}
                        THEN {op.node} ELSE {}
           legacy(op) == named(op) \ DOMAIN db.index
<1>1. PICK op \in TxnOps :
        /\ db' = Commit(db, <<op>>)
        /\ acked' = CASE op.op = "InsertNode" -> Put(acked, op.node, op.props)
                      [] op.op = "UpdateNode" /\ op.node \in DOMAIN db.nodes ->
                            Put(acked, op.node, Merge(acked[op.node], op.props))
                      [] OTHER -> acked
        /\ exposed' = exposed \cup (named(op) \ legacy(op))
              \cup {n \in named(op) : n \in DOMAIN cache \/ \E r \in Slots : RunsOn(r, n)}
        /\ doomed' = IF op.op = "DeleteNode" THEN doomed \cup legacy(op) ELSE doomed
        /\ gone' = IF op.op = "DeleteNode" THEN gone \cup legacy(op) ELSE gone
        /\ wired' = IF op.op = "InsertEdge" THEN wired \cup {op.edge} ELSE wired
  BY DEF TxnCommit
<1>2. call[s] = Idle /\ call' = call /\ cache' = cache /\ bucket' = bucket
  BY DEF TxnCommit
<1>3. db' = CommitOp(db, op)
  BY <1>1, CommitOne
<1>4. IsDb(db) /\ EdgesOK(db, wired) /\ gone \subseteq doomed /\ doomed \subseteq Born
      /\ DOMAIN db.nodes \subseteq Born
  BY DEF TierInv, BornOK
<1>5. op.op \in {"InsertNode", "UpdateNode", "DeleteNode", "InsertEdge", "DeleteEdge"}
  BY DEF TxnOps
<1>6. CASE op.op = "InsertEdge"
  <2>1. op.edge \notin wired
    BY <1>6 DEF TxnOps
  <2>2. /\ acked' = acked /\ doomed' = doomed /\ gone' = gone /\ exposed' = exposed
        /\ wired' = wired \cup {op.edge}
    BY <1>1, <1>6
  <2>3. /\ IsDb(db') /\ SameRows(db, db') /\ db'.edges = Put(db.edges, op.edge, op.row)
        /\ db'.from = db.from \cup {<<op.row.from, op.edge>>}
        /\ db'.to = db.to \cup {<<op.row.to, op.edge>>}
    BY <1>3, <1>4, <1>6, CommitInsertEdge
  <2>4. EdgesOK(db', wired')
    BY <1>4, <2>1, <2>2, <2>3, InsertEdgeOK
  <2> QED
    BY <1>2, <2>2, <2>3, <2>4, RestStep
<1>7. CASE op.op = "DeleteEdge"
  <2>1. /\ acked' = acked /\ doomed' = doomed /\ gone' = gone /\ exposed' = exposed
        /\ wired' = wired
    BY <1>1, <1>7
  <2>2. /\ IsDb(db') /\ SameRows(db, db') /\ db'.edges = Without(db.edges, {op.edge})
        /\ db'.from = db.from /\ db'.to = db.to
    BY <1>3, <1>4, <1>7, CommitDeleteEdge
  <2>3. EdgesOK(db', wired')
    BY <1>4, <2>1, <2>2, RemoveEdgesOK
  <2> QED
    BY <1>2, <2>1, <2>2, <2>3, RestStep
<1>8. CASE op.op = "UpdateNode" /\ op.node \notin DOMAIN db.nodes
  <2>1. /\ acked' = acked /\ doomed' = doomed /\ gone' = gone /\ wired' = wired
        /\ exposed \subseteq exposed'
    BY <1>1, <1>8
  <2>2. db' = db
    BY <1>3, <1>8 DEF CommitOp
  <2>3. IsDb(db') /\ SameRows(db, db') /\ EdgesOK(db', wired')
    BY <1>4, <2>1, <2>2 DEF SameRows
  <2> QED
    BY <1>2, <2>1, <2>3, RestStep
<1>9. CASE \/ op.op \in {"InsertNode", "DeleteNode"}
           \/ op.op = "UpdateNode" /\ op.node \in DOMAIN db.nodes
  <2> PICK m : m = op.node
    OBVIOUS
  <2>1. wired' = wired /\ exposed \subseteq exposed' /\ doomed \subseteq doomed'
    BY <1>1, <1>9
  <2>2. /\ m \in DOMAIN db.index \cup DOMAIN cache => m \in exposed'
        /\ (\E r \in Slots : RunsOn(r, m)) => m \in exposed'
    BY <1>1, <1>9
  <2>3. /\ op.op = "InsertNode" => m \notin Born
        /\ op.op = "DeleteNode" => m \in Born
    BY DEF TxnOps
  <2>4. /\ op.op = "InsertNode" => acked' = Put(acked, m, op.props)
        /\ op.op = "UpdateNode" =>
              acked' = Put(acked, m, Merge(acked[m], op.props)) /\ m \in DOMAIN db.nodes
        /\ op.op = "DeleteNode" => acked' = acked
    BY <1>1, <1>9
  <2>5. op.op = "DeleteNode" => m \in doomed' \cup exposed'
    BY <1>1
  <2>6. Born \subseteq Born'
    BY <1>9, <2>4 DEF Born, Put
  <2>7. gone' \subseteq doomed' /\ doomed' \subseteq Born'
    BY <1>1, <1>4, <2>3, <2>6
  <2>8. gone' # gone => op.op = "DeleteNode" /\ gone' \subseteq gone \cup {m}
    BY <1>1
  <2> HIDE DEF named, legacy
  <2> QED
    BY <1>2, <1>3, <1>9, <2>1, <2>2, <2>3, <2>4, <2>5, <2>7, <2>8, TxnNodeStep
<1> QED
  BY <1>5, <1>6, <1>7, <1>8, <1>9

-------------------------------------------------------------------------------
(* A call of delete_node is on a doomed node. *)

LEMMA DeletesKept ==
    ASSUME DOMAIN call = Slots, DeletesOK, NEW s \in Slots, NEW c, Goes(s, c),
           doomed \subseteq doomed', c.op = "delete" => c.node \in doomed'
    PROVE  DeletesOK'
  BY DEF DeletesOK, Goes

LEMMA DeletesRest ==
    ASSUME DeletesOK, call' = call, doomed \subseteq doomed'
    PROVE  DeletesOK'
  BY DEF DeletesOK

LEMMA ResolvedDeletes ==
    ASSUME NEW c, NEW p
    PROVE  Resolved(c, p).op # "delete"
<1>1. CASE c.op = "update"
  BY <1>1 DEF Resolved
<1>2. CASE c.op = "list" /\ DOMAIN c.todo # {}
  BY <1>2 DEF Resolved, ListCall
<1>3. CASE c.op # "update" /\ ~(c.op = "list" /\ DOMAIN c.todo # {})
  BY <1>3 DEF Resolved, Idle
<1> QED
  BY <1>1, <1>2, <1>3

LEMMA CallOps ==
    /\ Idle.op # "delete"
    /\ \A n, pc, t, p : InsertCall(n, pc, t, p).op # "delete"
    /\ \A todo : BatchCall(todo).op # "delete"
    /\ \A n, index, new, todo : \A op \in {"get", "update", "list"} :
          ReadCall(op, n, index, new, todo).op # "delete"
    /\ \A n, index, new, todo, p : \A op \in {"get", "update", "list"} :
          WarmCall(op, n, index, new, todo, p).op # "delete"
    /\ \A todo : ListCall(todo).op # "delete"
    /\ \A n, pc, p : UpdateCall(n, pc, p).op # "delete"
    /\ \A todo, shed : RoundCall(todo, shed).op # "delete"
    /\ \A n, pc, p, todo, shed : EvictCall(n, pc, p, todo, shed).op # "delete"
    /\ \A n, p, todo, shed, index : PointCall(n, p, todo, shed, index).op # "delete"
    /\ \A n, pc, p : PromoteCall(n, pc, p).op # "delete"
  BY DEF Idle, InsertCall, BatchCall, ReadCall, WarmCall, ListCall, UpdateCall, RoundCall, EvictCall,
         PointCall, PromoteCall

LEMMA DeletesStep ==
    ASSUME DOMAIN call = Slots, DeletesOK, TieredNext
    PROVE  DeletesOK'
<1>1. ASSUME NEW s \in Slots, InsertSteps(s) PROVE DeletesOK'
  <2>1. \E c : Goes(s, c) /\ c.op # "delete"
    BY <1>1, CallOps DEF InsertSteps, InsertNodeStart, InsertNodeIndexes, InsertNodeCache
  <2>2. doomed' = doomed
    BY <1>1 DEF InsertSteps, InsertNodeStart, InsertNodeIndexes, InsertNodeCache, history
  <2> QED
    BY <2>1, <2>2, DeletesKept
<1>2. ASSUME NEW s \in Slots, ReadSteps(s) PROVE DeletesOK'
  <2>1. CASE ReadStart(s) \/ ResolveFetch(s)
    <3>1. \E c : Goes(s, c) /\ c.op # "delete"
      <4>1. CASE ReadStart(s)
        BY <4>1, CallOps DEF ReadStart
      <4>2. CASE ResolveFetch(s)
        BY <4>2, CallOps DEF ResolveFetch
      <4> QED
        BY <2>1, <4>1, <4>2
    <3>2. doomed' = doomed
      BY <2>1 DEF ReadStart, ResolveFetch, history
    <3> QED
      BY <3>1, <3>2, DeletesKept
  <2>2. CASE ResolveCached(s) \/ ResolveWarm(s)
    <3>1. \E c : Goes(s, c) /\ c.op # "delete"
      BY <2>2, ResolvedDeletes DEF ResolveCached, ResolveWarm
    <3>2. doomed' = doomed
      BY <2>2 DEF ResolveCached, ResolveWarm, history
    <3> QED
      BY <3>1, <3>2, DeletesKept
  <2>3. CASE UpdateCommit(s) \/ UpdateCache(s) \/ WriteThroughStep(s)
    <3>1. \E c : Goes(s, c) /\ c.op # "delete"
      BY <2>3, CallOps DEF UpdateCommit, UpdateCache, WriteThroughStep
    <3>2. doomed' = doomed
      BY <2>3 DEF UpdateCommit, UpdateCache, WriteThroughStep, history
    <3> QED
      BY <3>1, <3>2, DeletesKept
  <2> QED
    BY <1>2, <2>1, <2>2, <2>3 DEF ReadSteps
<1>3. ASSUME NEW s \in Slots, ListSteps(s) PROVE DeletesOK'
  <2>1. \E c : Goes(s, c) /\ c.op # "delete"
    BY <1>3, CallOps DEF ListSteps, ListStart, ListNext
  <2>2. doomed' = doomed
    BY <1>3 DEF ListSteps, ListStart, ListNext, history
  <2> QED
    BY <2>1, <2>2, DeletesKept
<1>4. ASSUME NEW s \in Slots, DeleteSteps(s) PROVE DeletesOK'
  <2>1. CASE DeleteStart(s)
    <3>1. \E n : Goes(s, DeleteCall(n, "object")) /\ doomed' = doomed \cup {n}
      BY <2>1 DEF DeleteStart
    <3>2. \E c : Goes(s, c) /\ doomed \subseteq doomed' /\ c.node \in doomed'
      BY <3>1 DEF DeleteCall
    <3> QED
      BY <3>2, DeletesKept
  <2>2. CASE DeleteObject(s)
    <3>1. /\ Goes(s, DeleteCall(call[s].node, "rows")) /\ doomed' = doomed
          /\ call[s].node \in doomed
      BY <2>2 DEF DeleteObject, history, DeletesOK, At
    <3>2. \E c : Goes(s, c) /\ doomed \subseteq doomed' /\ c.node \in doomed'
      BY <3>1 DEF DeleteCall
    <3> QED
      BY <3>2, DeletesKept
  <2>3. CASE DeleteRows(s)
    <3>1. \E c : Goes(s, c) /\ c.op # "delete"
      BY <2>3 DEF DeleteRows, Idle
    <3>2. doomed' = doomed
      BY <2>3 DEF DeleteRows
    <3> QED
      BY <3>1, <3>2, DeletesKept
  <2> QED
    BY <1>4, <2>1, <2>2, <2>3 DEF DeleteSteps
<1>5. ASSUME NEW s \in Slots, EvictSteps(s) PROVE DeletesOK'
  <2>1. CASE RunEviction(s) \/ RunEvictionEnd(s) \/ EvictRead(s) \/ EvictUpload(s)
    <3>1. \E c : Goes(s, c) /\ c.op # "delete"
      <4>1. CASE RunEviction(s) \/ RunEvictionEnd(s)
        BY <4>1, CallOps DEF RunEviction, RunEvictionEnd
      <4>2. CASE EvictRead(s)
        BY <4>2, CallOps DEF EvictRead, Back
      <4>3. CASE EvictUpload(s)
        BY <4>3, CallOps DEF EvictUpload, Back
      <4> QED
        BY <2>1, <4>1, <4>2, <4>3
    <3>2. doomed' = doomed
      BY <2>1 DEF RunEviction, RunEvictionEnd, EvictRead, EvictUpload, history
    <3> QED
      BY <3>1, <3>2, DeletesKept
  <2>2. CASE EvictIndex(s) \/ EvictPoint(s) \/ EvictDrop(s) \/ EvictCache(s)
    <3>1. \E c : Goes(s, c) /\ c.op # "delete"
      BY <2>2, CallOps DEF EvictIndex, EvictPoint, EvictDrop, EvictCache, Back
    <3>2. doomed' = doomed
      BY <2>2 DEF EvictIndex, EvictPoint, EvictDrop, EvictCache, history
    <3> QED
      BY <3>1, <3>2, DeletesKept
  <2> QED
    BY <1>5, <2>1, <2>2 DEF EvictSteps
<1>6. ASSUME NEW s \in Slots, PromoteSteps(s) PROVE DeletesOK'
  <2>1. \E c : Goes(s, c) /\ c.op # "delete"
    <3>1. CASE PromoteFetch(s) \/ PromoteWrite(s) \/ PromotePoint(s)
      BY <3>1, CallOps DEF PromoteFetch, PromoteWrite, PromotePoint
    <3>2. CASE PromoteIndex(s)
      <4> DEFINE c == IF GetNodeIndex(db, call[s].node) = {} THEN Idle
                      ELSE [op |-> "promote", node |-> call[s].node, pc |-> "point",
                            index |-> CHOOSE index \in GetNodeIndex(db, call[s].node) : TRUE]
      <4>1. Goes(s, c)
        BY <3>2 DEF PromoteIndex
      <4>2. c.op # "delete"
        BY CallOps
      <4> QED
        BY <4>1, <4>2
    <3> QED
      BY <1>6, <3>1, <3>2 DEF PromoteSteps
  <2>2. doomed' = doomed
    BY <1>6 DEF PromoteSteps, PromoteFetch, PromoteWrite, PromoteIndex, PromotePoint, history
  <2> QED
    BY <2>1, <2>2, DeletesKept
<1>7. ASSUME NEW s \in Slots, GraphSteps(s) PROVE DeletesOK'
  <2>1. CASE Prefetch(s)
    <3>1. \E c : Goes(s, c) /\ c.op # "delete"
      BY <2>1, CallOps DEF Prefetch
    <3>2. doomed' = doomed
      BY <2>1 DEF Prefetch
    <3> QED
      BY <3>1, <3>2, DeletesKept
  <2>2. CASE CreateEdge(s) \/ CreateEdgesBatch(s) \/ RemoveEdge(s)
    <3>1. call' = call /\ doomed' = doomed
      BY <2>2 DEF CreateEdge, CreateEdgesBatch, RemoveEdge, history
    <3> QED
      BY <3>1, DeletesRest
  <2>3. CASE TxnCommit(s)
    <3>1. call' = call
      BY <2>3 DEF TxnCommit
    <3>2. doomed \subseteq doomed'
      BY <2>3 DEF TxnCommit
    <3> QED
      BY <3>1, <3>2, DeletesRest
  <2> QED
    BY <1>7, <2>1, <2>2, <2>3 DEF GraphSteps
<1>8. ASSUME NEW s \in Slots, IndexSteps(s) PROVE DeletesOK'
  <2>1. CASE BatchSteps(s)
    <3>1. \E c : Goes(s, c) /\ c.op # "delete"
      BY <2>1, CallOps DEF BatchSteps, InsertNodesBatch, BatchCache
    <3>2. doomed' = doomed
      BY <2>1 DEF BatchSteps, InsertNodesBatch, BatchCache, history
    <3> QED
      BY <3>1, <3>2, DeletesKept
  <2>2. CASE CreateIndexes(s) \/ DropIndex(s)
    <3>1. call' = call /\ doomed' = doomed
      BY <2>2 DEF CreateIndexes, DropIndex, history
    <3> QED
      BY <3>1, DeletesRest
  <2> QED
    BY <1>8, <2>1, <2>2 DEF IndexSteps
<1>9. CASE CacheEvicts
  BY <1>9, DeletesRest DEF CacheEvicts, history
<1>10. CASE CrashAndOpen
  BY <1>10 DEF CrashAndOpen, DeletesOK, Idle
<1> QED
  BY <1>1, <1>2, <1>3, <1>4, <1>5, <1>6, <1>7, <1>8, <1>9, <1>10 DEF TieredNext

-------------------------------------------------------------------------------
(* The invariant. *)

StorageInv == TierInv /\ DeletesOK

LEMMA StorageInit ==
    ASSUME TieredInit
    PROVE  StorageInv
<1>1. /\ db = EmptyDb /\ DOMAIN cache = {} /\ call = [s \in Slots |-> Idle] /\ Born = {}
      /\ doomed = {} /\ gone = {} /\ wired = {}
  BY DEF TieredInit, Born
<1>2. \A s \in Slots : call[s].op = "idle" /\ WorksOn(call[s]) = {}
  <2>1. Idle.op = "idle"
    BY DEF Idle
  <2> QED
    BY <1>1, <2>1, WorksOnIs
<1>3. BornOK
  BY <1>1, <1>2, EmptyIs DEF BornOK
<1>4. EdgesOK(db, wired)
  BY <1>1, EmptyIs DEF EdgesOK, FromOK, ToOK
<1> QED
  BY <1>1, <1>2, <1>3, <1>4 DEF StorageInv, TierInv, DeletesOK, Live

LEMMA StorageStep ==
    ASSUME StorageInv, TieredNext
    PROVE  StorageInv'
<1> USE DEF StorageInv
<1>1. ASSUME NEW s \in Slots, InsertSteps(s) PROVE TierInv'
  BY <1>1, InsertStartStep, InsertIndexesStep, InsertCacheStep DEF InsertSteps
<1>2. ASSUME NEW s \in Slots, ReadSteps(s) PROVE TierInv'
  BY <1>2, ReadStartStep, ResolveCachedStep, ResolveFetchStep, ResolveWarmStep,
     UpdateCommitStep, UpdateCacheStep, WriteThroughOK DEF ReadSteps
<1>3. ASSUME NEW s \in Slots, ListSteps(s) PROVE TierInv'
  BY <1>3, ListStartStep, ListNextStep DEF ListSteps
<1>4. ASSUME NEW s \in Slots, DeleteSteps(s) PROVE TierInv'
  <2>1. CASE DeleteObject(s)
    <3>1. call[s].node \in doomed
      BY <2>1 DEF DeleteObject, At, DeletesOK
    <3> QED
      BY <2>1, <3>1, DeleteObjectStep
  <2> QED
    BY <1>4, <2>1, DeleteStartStep, DeleteRowsStep DEF DeleteSteps
<1>5. ASSUME NEW s \in Slots, EvictSteps(s) PROVE TierInv'
  BY <1>5, RoundSteps, EvictReadStep, EvictUploadStep, EvictIndexStep, EvictPointStep,
     EvictDropStep, EvictCacheStep DEF EvictSteps
<1>6. ASSUME NEW s \in Slots, PromoteSteps(s) PROVE TierInv'
  BY <1>6, PromoteFetchStep, PromoteWriteStep, PromoteIndexStep, PromotePointStep
     DEF PromoteSteps
<1>7. ASSUME NEW s \in Slots, GraphSteps(s) PROVE TierInv'
  BY <1>7, GraphAndIndexCalls, PrefetchStep, TxnCommitStep DEF GraphSteps
<1>8. ASSUME NEW s \in Slots, IndexSteps(s) PROVE TierInv'
  BY <1>8, GraphAndIndexCalls, InsertBatchStep, BatchCacheStep DEF IndexSteps, BatchSteps
<1>9. TierInv'
  BY <1>1, <1>2, <1>3, <1>4, <1>5, <1>6, <1>7, <1>8, CacheEvictsStep, CrashAndOpenStep
     DEF TieredNext
<1>10. DeletesOK'
  BY DeletesStep DEF TierInv, BornOK
<1> QED
  BY <1>9, <1>10

LEMMA StorageStutter ==
    ASSUME StorageInv, UNCHANGED tieredVars
    PROVE  StorageInv'
<1>1. /\ db' = db /\ cache' = cache /\ bucket' = bucket /\ call' = call /\ acked' = acked
      /\ exposed' = exposed /\ doomed' = doomed /\ gone' = gone /\ wired' = wired
  BY DEF tieredVars, history
<1>2. BornOK' /\ EdgesOK(db', wired') /\ DeletesOK'
  BY <1>1 DEF StorageInv, TierInv, BornOK, DeletesOK, Born
<1>3. ASSUME NEW n \in Live \ exposed
      PROVE  RowsOK(n)' /\ CacheOK(n)' /\ CallsOK(n)' /\ Apart(n)'
  <2>1. RowsOK(n) /\ CacheOK(n) /\ CallsOK(n) /\ Apart(n)
    BY DEF StorageInv, TierInv
  <2>2. RowsOK(n)'
    BY <1>1, <2>1 DEF RowsOK, ObjectGood
  <2>3. CacheOK(n)'
    BY <1>1, <2>1 DEF CacheOK, At
  <2>4. CallsOK(n)'
    BY <1>1, <2>1 DEF CallsOK, CallOK, RunsOn, IndexOK, ObjectGood
  <2>5. Apart(n)'
    BY <1>1, <2>1 DEF Apart, RunsOn
  <2> QED
    BY <2>2, <2>3, <2>4, <2>5
<1>4. \A n \in gone \ exposed : GoneOK(n)'
  BY <1>1 DEF StorageInv, TierInv, GoneOK, RunsOn
<1> QED
  BY <1>1, <1>2, <1>3, <1>4 DEF StorageInv, TierInv, Live, Born

(* What each tier holds of a live node that no conflicting calls met on, what
   the calls at work on it have read, and the entries of every edge: kept by
   every step of every call, for any nodes, edges, slots and crashes.      *)
THEOREM StorageInvariant == TieredSpec => []StorageInv
<1>1. TieredInit => StorageInv
  BY StorageInit
<1>2. StorageInv /\ [TieredNext]_tieredVars => StorageInv'
  BY StorageStep, StorageStutter
<1> QED
  BY <1>1, <1>2, PTL DEF TieredSpec

(* No acknowledged write of insert_node, insert_nodes_batch, update_node or a
   legacy transaction is lost to a reader by evictions, promotions, failed
   uploads and crashes, and no deleted node comes back.                    *)
THEOREM WritesAlwaysSurvive == TieredSpec => []WritesSurvive
<1>1. StorageInv => WritesSurvive
  <2> SUFFICES ASSUME StorageInv PROVE WritesSurvive
    OBVIOUS
  <2>1. \A n \in Live \ exposed :
          /\ Durable(n) = {acked[n]}
          /\ n \in DOMAIN cache =>
                \/ cache[n] = acked[n]
                \/ \E s \in Slots : At(s, "update", "cache") /\ call[s].node = n
    BY DurableIs DEF StorageInv, TierInv, CacheOK
  <2>2. ASSUME NEW s \in Slots, call[s].op \in {"get", "list"}, call[s].pc = "resolve",
               call[s].node \notin doomed \cup exposed
        PROVE  \/ Fetched(call[s].index.loc, call[s].node) # {}
               \/ GetNodeIndex(db, call[s].node) # {call[s].index}
    <3>1. call[s].node \in WorksOn(call[s])
      BY <2>2, WorksOnIs
    <3>2. call[s].node \in Live \ exposed
      BY <2>2, <3>1 DEF StorageInv, TierInv, BornOK, Live
    <3>3. RowsOK(call[s].node)
      BY <3>2 DEF StorageInv, TierInv
    <3>4. \A index \in GetNodeIndex(db, call[s].node) :
             Fetched(index.loc, call[s].node) = {acked[call[s].node]}
      BY <3>3, DurableIs
    <3> QED
      BY <3>4
  <2>3. \A n \in gone \ exposed :
          /\ GetNodeIndex(db, n) = {}
          /\ \A t \in NodeTypes : n \notin GetNodeIndexesByType(db, t)
    BY DEF StorageInv, TierInv, GoneOK, GetNodeIndex, GetNode, GetNodeIndexesByType
  <2> QED
    BY <2>1, <2>2, <2>3 DEF WritesSurvive
<1> QED
  BY <1>1, StorageInvariant, PTL

(* The readers that walk an edge index, get_edges_from and get_edges_to, find
   exactly the edges of the table at that end.                             *)
THEOREM EdgeReadersAlwaysAgree == TieredSpec => []EdgeReadersAgree
<1>1. StorageInv => EdgeReadersAgree
  <2>1. EdgesOK(db, wired) => EdgeReadersAgree
    BY DEF EdgesOK, FromOK, ToOK, EdgeReadersAgree, GetEdgesFrom, GetEdgesTo
  <2> QED
    BY <2>1 DEF StorageInv, TierInv
<1> QED
  BY <1>1, StorageInvariant, PTL

-------------------------------------------------------------------------------
(* Property and full-text indexes.  Of a node whose entries are kept, the
   invariant says that every entry of it, of whatever type, is one of its
   properties, that those its type has an index for are all there as soon as
   its insert has come that far, and that no call at work on it can change its
   type.                                                                   *)

Kept == Live \ (unkept \cup exposed)

(* An insert of n is at one of the steps pcs. *)
Busy(n, pcs) ==
    \E s \in Slots : call[s].op = "insert" /\ call[s].node = n /\ call[s].pc \in pcs

EntriesOK(n) ==
    /\ n \in DOMAIN db.index /\ <<db.index[n].type, n>> \in db.types
    /\ \A q \in db.props : q[4] = n =>
          q[2] \in DOMAIN acked[n] /\ q[3] = IndexKey(acked[n][q[2]])
    /\ ~Busy(n, {"props"}) => \A f \in DOMAIN acked[n] :
          <<db.index[n].type, f>> \in db.registry =>
              <<db.index[n].type, f, IndexKey(acked[n][f]), n>> \in db.props

HasText(n, f) == f \in DOMAIN acked[n] /\ acked[n][f].kind = "s"

PostingsOK(n) ==
    /\ \A q \in db.fulltext : q[4] = n => HasText(n, q[2]) /\ q[3] \in Terms(acked[n][q[2]].v)
    /\ \A k \in DOMAIN db.docFreq : k[1] = n =>
          HasText(n, k[3]) /\ db.docFreq[k] = TermFreqs(acked[n][k[3]].v)
    /\ ~Busy(n, {"props", "text"}) => \A f :
          HasText(n, f) /\ <<db.index[n].type, f>> \in db.ftRegistry =>
              \A w \in Terms(acked[n][f].v) :
                  /\ <<db.index[n].type, f, w, n>> \in db.fulltext
                  /\ <<n, db.index[n].type, f>> \in DOMAIN db.docFreq

(* What the call c knows of the type of n. *)
CallTyped(c, n) ==
    /\ c.op = "insert" /\ c.node = n => c.type = db.index[n].type
    /\ c.op \in {"evict", "promote"} /\ c.pc = "point" /\ c.node = n =>
          c.index.type = db.index[n].type

(* Entries are of nodes that were born, registrations of types and fields. *)
NamesOK ==
    /\ \A q \in db.props : q[4] \in Born
    /\ \A q \in db.fulltext : q[4] \in Born
    /\ \A k \in DOMAIN db.docFreq : k[1] \in Born
    /\ db.registry \subseteq NodeTypes \X Fields
    /\ db.ftRegistry \subseteq NodeTypes \X Fields

NodeText(n) == EntriesOK(n) /\ PostingsOK(n) /\ \A s \in Slots : CallTyped(call[s], n)

TextInv == NamesOK /\ \A n \in Kept : NodeText(n)

(* e has the index tables of d; the type entries of n. *)
SameText(d, e) ==
    /\ e.props = d.props /\ e.registry = d.registry
    /\ e.fulltext = d.fulltext /\ e.ftRegistry = d.ftRegistry /\ e.docFreq = d.docFreq

StillTyped(d, e, n) == \A t : <<t, n>> \in d.types => <<t, n>> \in e.types

LEMMA RowCallsText ==
    ASSUME NEW d, IsDb(d), NEW n, NEW index, NEW payload, NEW rows, NEW edge, NEW row, NEW batch,
           NEW e \in {InsertNodeTiered(d, n, index, payload), InsertNodesTieredBatch(d, rows),
                      PutPayload(d, n, payload), DeletePayload(d, n),
                      UpdateNodeIndex(d, n, index), UpdateNodeTiered(d, n, index, payload),
                      MigrateToTiered(d), InsertEdge(d, edge, row), InsertEdgesBatch(d, batch),
                      DeleteEdge(d, edge)}
    PROVE  SameText(d, e) /\ \A m : StillTyped(d, e, m)
<1> USE DEF IsDb, Tables, SameText, StillTyped
<1>1. CASE e = InsertNodeTiered(d, n, index, payload)
  BY <1>1 DEF InsertNodeTiered
<1>2. CASE e = InsertNodesTieredBatch(d, rows)
  BY <1>2 DEF InsertNodesTieredBatch
<1>3. CASE e = PutPayload(d, n, payload) \/ e = DeletePayload(d, n)
  BY <1>3 DEF PutPayload, DeletePayload
<1>4. CASE e = UpdateNodeIndex(d, n, index) \/ e = UpdateNodeTiered(d, n, index, payload)
  BY <1>4 DEF UpdateNodeIndex, UpdateNodeTiered
<1>5. CASE e = MigrateToTiered(d)
  BY <1>5 DEF MigrateToTiered
<1>6. CASE e = InsertEdge(d, edge, row) \/ e = InsertEdgesBatch(d, batch)
  BY <1>6 DEF InsertEdge, InsertEdgesBatch
<1>7. CASE e = DeleteEdge(d, edge)
  BY <1>7 DEF DeleteEdge
<1> QED
  BY <1>1, <1>2, <1>3, <1>4, <1>5, <1>6, <1>7

LEMMA InsertedType ==
    ASSUME NEW d, IsDb(d), NEW n, NEW index, NEW payload
    PROVE  <<index.type, n>> \in InsertNodeTiered(d, n, index, payload).types
  BY DEF IsDb, Tables, InsertNodeTiered

LEMMA DeleteNodeText ==
    ASSUME NEW d, IsDb(d), NEW n
    PROVE  LET e == DeleteNodeTiered(d, n) IN
           SameText(d, e) /\ \A m : m # n => StillTyped(d, e, m)
<1> DEFINE x == [d EXCEPT !.types = @ \ ({ix.type : ix \in GetNodeIndex(d, n)} \X {n}),
                          !.index = Without(@, {n}),
                          !.payloads = Without(@, {n}),
                          !.nodes = Without(@, {n})]
<1>1. IsDb(x) /\ SameText(d, x)
  BY DEF IsDb, Tables, SameText
<1>2. \A m : m # n => StillTyped(d, x, m)
  BY DEF IsDb, Tables, StillTyped
<1>3. DeleteNodeTiered(d, n) = DropEdges(x, n)
  BY DEF DeleteNodeTiered
<1> HIDE DEF x
<1> DEFINE leaving == {e \in {p[2] : p \in x.from} : <<n, e>> \in x.from}
           half    == [x EXCEPT !.edges = Without(@, leaving),
                                !.from = @ \ ({n} \X leaving)]
           coming  == {e \in {p[2] : p \in half.to} : <<n, e>> \in half.to}
           whole   == [half EXCEPT !.edges = Without(@, coming),
                                   !.to = @ \ ({n} \X coming)]
<1>4. DropEdges(x, n) = whole
  BY DEF DropEdges
<1> HIDE DEF leaving
<1>5. IsDb(half) /\ SameText(x, half) /\ half.types = x.types
  BY <1>1 DEF IsDb, Tables, SameText
<1> HIDE DEF half, coming
<1>6. SameText(half, whole) /\ whole.types = half.types
  BY <1>5 DEF IsDb, Tables, SameText
<1> HIDE DEF whole
<1> QED
  BY <1>1, <1>2, <1>3, <1>4, <1>5, <1>6 DEF SameText, StillTyped

LEMMA CommitText ==
    ASSUME NEW d, IsDb(d), NEW op,
           op.op \in {"InsertNode", "UpdateNode", "DeleteNode", "InsertEdge", "DeleteEdge"}
    PROVE  LET e == CommitOp(d, op) IN SameText(d, e) /\ \A m : StillTyped(d, e, m)
<1> USE DEF IsDb, Tables, SameText, StillTyped
<1>1. CASE op.op = "InsertNode"
  <2>1. CommitOp(d, op) = InsertNode(d, op.node, op.type, op.props)
    BY <1>1 DEF CommitOp
  <2> QED
    BY <2>1 DEF InsertNode
<1>2. CASE op.op = "UpdateNode"
  <2>1. CommitOp(d, op) = d \/ CommitOp(d, op) = UpdateNode(d, op.node, op.props)
    BY <1>2 DEF CommitOp
  <2> QED
    BY <2>1 DEF UpdateNode
<1>3. CASE op.op = "DeleteNode"
  <2>1. CommitOp(d, op) = [d EXCEPT !.nodes = Without(@, {op.node})]
    BY <1>3 DEF CommitOp
  <2> QED
    BY <2>1
<1>4. CASE op.op = "InsertEdge"
  <2>1. CommitOp(d, op) = [d EXCEPT !.edges = Put(@, op.edge, op.row),
                                    !.from = @ \cup {<<op.row.from, op.edge>>},
                                    !.to = @ \cup {<<op.row.to, op.edge>>}]
    BY <1>4 DEF CommitOp
  <2> QED
    BY <2>1
<1>5. CASE op.op = "DeleteEdge"
  <2>1. CommitOp(d, op) = [d EXCEPT !.edges = Without(@, {op.edge})]
    BY <1>5 DEF CommitOp
  <2> QED
    BY <2>1
<1> QED
  BY <1>1, <1>2, <1>3, <1>4, <1>5

(* A step that leaves the index tables as they are, seen from one node. *)
LEMMA NodeFrame ==
    ASSUME NEW n, NodeText(n), SameText(db, db'), acked'[n] = acked[n],
           n \in DOMAIN db'.index, db'.index[n].type = db.index[n].type,
           StillTyped(db, db', n),
           Busy(n, {"props"}) => Busy(n, {"props"})',
           Busy(n, {"props", "text"}) => Busy(n, {"props", "text"})',
           \A s \in Slots : CallTyped(call[s], n)'
    PROVE  NodeText(n)'
<1>1. EntriesOK(n)'
  BY DEF NodeText, EntriesOK, StillTyped, SameText
<1>2. \A f : HasText(n, f)' <=> HasText(n, f)
  BY DEF HasText
<1>3. PostingsOK(n)'
  BY <1>2 DEF NodeText, PostingsOK, SameText
<1> QED
  BY <1>1, <1>3 DEF NodeText

LEMMA NamesFrame ==
    ASSUME TextInv, SameText(db, db'), Born \subseteq Born'
    PROVE  NamesOK'
  BY DEF TextInv, NamesOK, SameText

(* An insert that has index entries still to write. *)
Indexing(c) == c.op = "insert" /\ c.pc \in {"props", "text"}

LEMMA MovesTyped ==
    ASSUME NEW s \in Slots, NEW c, Moves(s, c), NEW n, NodeText(n),
           db'.index[n].type = db.index[n].type, CallTyped(c, n)'
    PROVE  \A r \in Slots : CallTyped(call[r], n)'
<1>1. \A r \in Slots : CallTyped(call[r], n)
  BY DEF NodeText
<1>2. ASSUME NEW r \in Slots, r # s PROVE CallTyped(call[r], n)'
  <2>1. call'[r] = call[r]
    BY <1>2 DEF Moves
  <2> QED
    BY <1>1, <2>1 DEF CallTyped
<1>3. CallTyped(call[s], n)'
  BY DEF Moves, CallTyped
<1> QED
  BY <1>2, <1>3

LEMMA SlotFrame ==
    ASSUME NEW s \in Slots, NEW c, Moves(s, c), SameText(db, db'),
           Indexing(call[s]) => c = call[s],
           NEW n, NodeText(n), acked'[n] = acked[n],
           n \in DOMAIN db'.index, db'.index[n].type = db.index[n].type,
           StillTyped(db, db', n), CallTyped(c, n)'
    PROVE  NodeText(n)'
<1>1. /\ Busy(n, {"props"}) => Busy(n, {"props"})'
      /\ Busy(n, {"props", "text"}) => Busy(n, {"props", "text"})'
  BY DEF Busy, Indexing, Moves
<1> QED
  BY <1>1, MovesTyped, NodeFrame

LEMMA SlotText ==
    ASSUME TextInv, NEW s \in Slots, NEW c, Moves(s, c), SameText(db, db'), Born \subseteq Born',
           Indexing(call[s]) => c = call[s],
           \A n \in Kept' :
              /\ n \in Kept /\ acked'[n] = acked[n]
              /\ n \in DOMAIN db'.index /\ db'.index[n].type = db.index[n].type
              /\ StillTyped(db, db', n)
              /\ CallTyped(c, n)'
    PROVE  TextInv'
<1>1. NamesOK'
  BY NamesFrame
<1>2. ASSUME NEW n \in Kept' PROVE NodeText(n)'
  BY <1>2, SlotFrame DEF TextInv
<1> QED
  BY <1>1, <1>2 DEF TextInv

LEMMA RestText ==
    ASSUME TextInv, call' = call,
           SameText(db, db'), \A n : StillTyped(db, db', n), Born \subseteq Born',
           \A n \in Kept' : /\ n \in Kept /\ acked'[n] = acked[n]
                            /\ n \in DOMAIN db'.index
                            /\ db'.index[n].type = db.index[n].type
    PROVE  TextInv'
<1>1. NamesOK'
  BY NamesFrame
<1>2. ASSUME NEW n \in Kept' PROVE NodeText(n)'
  <2>1. NodeText(n) /\ db'.index[n].type = db.index[n].type
    BY <1>2 DEF TextInv
  <2>2. \A r \in Slots : CallTyped(call[r], n)'
    BY <2>1 DEF NodeText, CallTyped
  <2>3. /\ Busy(n, {"props"}) => Busy(n, {"props"})'
        /\ Busy(n, {"props", "text"}) => Busy(n, {"props", "text"})'
    BY DEF Busy
  <2> QED
    BY <1>2, <2>1, <2>2, <2>3, NodeFrame
<1> QED
  BY <1>1, <1>2 DEF TextInv

(* A call that does not know of types. *)
Plain(c) == c.op # "insert" /\ ~(c.op \in {"evict", "promote"} /\ c.pc = "point")

LEMMA PlainTyped ==
    ASSUME NEW c, Plain(c), NEW n
    PROVE  CallTyped(c, n)'
  BY DEF Plain, CallTyped

(* The histories only grow, and no new node is born. *)
Grows ==
    /\ acked' = acked /\ unkept \subseteq unkept' /\ exposed \subseteq exposed'
    /\ doomed \subseteq doomed'

LEMMA GrowsKept ==
    ASSUME TextInv, Grows
    PROVE  Born' = Born /\ \A n \in Kept' : n \in Kept /\ n \in DOMAIN db.index
  BY DEF Grows, Kept, Live, Born, TextInv, NodeText, EntriesOK

(* Steps of a slot that leave the index records alone. *)
LEMMA PlainText ==
    ASSUME BornOK, TextInv, NEW s \in Slots, NEW c, Goes(s, c), ~Indexing(call[s]),
           SameText(db, db'), db'.index = db.index, \A n : StillTyped(db, db', n), Grows,
           Plain(c) \/ \A n \in Kept : CallTyped(c, n)
    PROVE  TextInv'
<1>1. Moves(s, c)
  BY GoesMoves
<1>2. Born' = Born /\ \A n \in Kept' : n \in Kept /\ n \in DOMAIN db.index /\ acked'[n] = acked[n]
  BY GrowsKept DEF Grows
<1>3. \A n \in Kept' : CallTyped(c, n)'
  <2>1. CASE Plain(c)
    BY <2>1, PlainTyped
  <2>2. CASE \A n \in Kept : CallTyped(c, n)
    BY <1>2, <2>2 DEF CallTyped
  <2> QED
    BY <2>1, <2>2
<1> QED
  BY <1>1, <1>2, <1>3, SlotText

LEMMA NoDbText ==
    ASSUME NEW d
    PROVE  SameText(d, d) /\ \A n : StillTyped(d, d, n)
  BY DEF SameText, StillTyped

LEMMA QuietText ==
    ASSUME BornOK, TextInv, NEW s \in Slots, NEW c, Goes(s, c), ~Indexing(call[s]), Plain(c),
           db' = db, Grows
    PROVE  TextInv'
  BY PlainText, NoDbText

-------------------------------------------------------------------------------
(* The steps that leave the index tables alone. *)

LEMMA PlainCalls ==
    /\ Plain(Idle)
    /\ \A n, index, new, todo : \A op \in {"get", "update", "list"} :
          Plain(ReadCall(op, n, index, new, todo))
    /\ \A n, index, new, todo, p : \A op \in {"get", "update", "list"} :
          Plain(WarmCall(op, n, index, new, todo, p))
    /\ \A todo : Plain(BatchCall(todo)) /\ Plain(ListCall(todo))
    /\ \A n, pc, p : Plain(UpdateCall(n, pc, p))
    /\ \A n, pc : Plain(DeleteCall(n, pc))
    /\ \A todo, shed : Plain(RoundCall(todo, shed))
    /\ \A n, p, todo, shed : \A pc \in {"upload", "index", "drop", "cache"} :
          Plain(EvictCall(n, pc, p, todo, shed))
    /\ \A n, p : \A pc \in {"write", "index"} : Plain(PromoteCall(n, pc, p))
  BY DEF Plain, Idle, BatchCall, ReadCall, WarmCall, ListCall, UpdateCall, DeleteCall, RoundCall, EvictCall,
         PromoteCall

LEMMA ResolvedPlain ==
    ASSUME NEW c, NEW p
    PROVE  Plain(Resolved(c, p))
<1>1. CASE c.op = "update"
  BY <1>1 DEF Resolved, Plain
<1>2. CASE c.op = "list" /\ DOMAIN c.todo # {}
  BY <1>2, PlainCalls DEF Resolved
<1>3. CASE c.op # "update" /\ ~(c.op = "list" /\ DOMAIN c.todo # {})
  BY <1>3, PlainCalls DEF Resolved
<1> QED
  BY <1>1, <1>2, <1>3

LEMMA IdleRests ==
    ASSUME NEW c, c = Idle \/ c.op # "insert" \/ c.pc \in {"through", "cache"}
    PROVE  ~Indexing(c)
  BY DEF Indexing, Idle

LEMMA ReadText ==
    ASSUME StorageInv, TextInv, NEW s \in Slots,
           \/ ReadStart(s) \/ ResolveCached(s) \/ ResolveFetch(s) \/ ResolveWarm(s)
           \/ UpdateCache(s) \/ ListStart(s) \/ ListNext(s)
    PROVE  TextInv'
<1>1. BornOK
  BY DEF StorageInv, TierInv
<1>2. ~Indexing(call[s])
  BY IdleRests DEF ReadStart, ResolveCached, ResolveFetch, ResolveWarm, UpdateCache, ListStart, ListNext, At
<1>3. db' = db
  BY DEF ReadStart, ResolveCached, ResolveFetch, ResolveWarm, UpdateCache, ListStart, ListNext
<1>4. Grows
  BY DEF ReadStart, ResolveCached, ResolveFetch, ResolveWarm, UpdateCache, ListStart, ListNext, Grows, history
<1>5. \E c : Goes(s, c) /\ Plain(c)
  <2>1. CASE ReadStart(s)
    BY <2>1, PlainCalls DEF ReadStart
  <2>2. CASE ResolveCached(s) \/ ResolveWarm(s)
    BY <2>2, ResolvedPlain DEF ResolveCached, ResolveWarm
  <2>3. CASE ResolveFetch(s)
    BY <2>3, PlainCalls DEF ResolveFetch
  <2>4. CASE UpdateCache(s)
    BY <2>4, PlainCalls DEF UpdateCache
  <2>5. CASE ListStart(s) \/ ListNext(s)
    BY <2>5, PlainCalls DEF ListStart, ListNext
  <2> QED
    BY <2>1, <2>2, <2>3, <2>4, <2>5
<1> QED
  BY <1>1, <1>2, <1>3, <1>4, <1>5, QuietText

LEMMA OtherQuietText ==
    ASSUME StorageInv, TextInv, NEW s \in Slots,
           \/ InsertNodeCache(s) \/ DeleteStart(s) \/ DeleteObject(s)
           \/ RunEviction(s) \/ RunEvictionEnd(s) \/ EvictRead(s) \/ EvictUpload(s) \/ EvictCache(s)
           \/ PromoteFetch(s) \/ Prefetch(s)
    PROVE  TextInv'
<1>1. BornOK
  BY DEF StorageInv, TierInv
<1>2. ~Indexing(call[s])
  <2>1. CASE InsertNodeCache(s) \/ DeleteStart(s) \/ DeleteObject(s)
    BY <2>1, IdleRests DEF InsertNodeCache, DeleteStart, DeleteObject, At
  <2>2. CASE RunEviction(s) \/ RunEvictionEnd(s) \/ EvictUpload(s) \/ EvictCache(s)
    BY <2>2, IdleRests DEF RunEviction, RunEvictionEnd, EvictUpload, EvictCache, At
  <2>3. CASE EvictRead(s) \/ PromoteFetch(s) \/ Prefetch(s)
    BY <2>3, IdleRests DEF EvictRead, PromoteFetch, Prefetch
  <2> QED
    BY <2>1, <2>2, <2>3
<1>3. db' = db
  BY DEF InsertNodeCache, DeleteStart, DeleteObject, RunEviction, RunEvictionEnd, EvictRead,
         EvictUpload, EvictCache, PromoteFetch, Prefetch
<1>4. Grows
  <2>1. CASE InsertNodeCache(s) \/ DeleteStart(s) \/ DeleteObject(s)
    BY <2>1 DEF InsertNodeCache, DeleteStart, DeleteObject, Grows, history
  <2>2. CASE RunEviction(s) \/ RunEvictionEnd(s) \/ EvictUpload(s) \/ EvictCache(s)
    BY <2>2 DEF RunEviction, RunEvictionEnd, EvictUpload, EvictCache, Grows, history
  <2>3. CASE EvictRead(s) \/ PromoteFetch(s) \/ Prefetch(s)
    BY <2>3 DEF EvictRead, PromoteFetch, Prefetch, Grows
  <2> QED
    BY <2>1, <2>2, <2>3
<1>5. \E c : Goes(s, c) /\ Plain(c)
  <2>1. CASE InsertNodeCache(s) \/ DeleteStart(s) \/ DeleteObject(s)
    BY <2>1, PlainCalls DEF InsertNodeCache, DeleteStart, DeleteObject
  <2>2. CASE RunEviction(s) \/ RunEvictionEnd(s)
    BY <2>2, PlainCalls DEF RunEviction, RunEvictionEnd
  <2>3. CASE EvictUpload(s) \/ EvictCache(s)
    BY <2>3, PlainCalls DEF EvictUpload, EvictCache, Back
  <2>4. CASE EvictRead(s)
    BY <2>4, PlainCalls DEF EvictRead, Back
  <2>5. CASE PromoteFetch(s) \/ Prefetch(s)
    BY <2>5, PlainCalls DEF PromoteFetch, Prefetch
  <2> QED
    BY <2>1, <2>2, <2>3, <2>4, <2>5
<1> QED
  BY <1>1, <1>2, <1>3, <1>4, <1>5, QuietText

(* Payload rows come and go without the index record. *)
LEMMA PayloadText ==
    ASSUME StorageInv, TextInv, NEW s \in Slots, EvictDrop(s) \/ PromoteWrite(s)
    PROVE  TextInv'
<1>1. BornOK /\ IsDb(db)
  BY DEF StorageInv, TierInv, BornOK
<1>2. ~Indexing(call[s])
  BY IdleRests DEF EvictDrop, PromoteWrite, At
<1>3. PICK n, p : db' \in {DeletePayload(db, n), PutPayload(db, n, p)}
  BY DEF EvictDrop, PromoteWrite
<1>4. SameText(db, db') /\ (\A m : StillTyped(db, db', m)) /\ db'.index = db.index
  <2>1. SameText(db, db') /\ \A m : StillTyped(db, db', m)
    BY <1>1, <1>3, RowCallsText
  <2>2. db'.index = db.index
    BY <1>1, <1>3 DEF DeletePayload, PutPayload, IsDb, Tables
  <2> QED
    BY <2>1, <2>2
<1>5. Grows
  BY DEF EvictDrop, PromoteWrite, Grows, history
<1>6. \E c : Goes(s, c) /\ Plain(c)
  BY PlainCalls DEF EvictDrop, PromoteWrite
<1> QED
  BY <1>1, <1>2, <1>4, <1>5, <1>6, PlainText

(* The calls that remember the type of their node. *)
LEMMA ThroughText ==
    ASSUME StorageInv, TextInv, NEW s \in Slots, WriteThroughStep(s)
    PROVE  TextInv'
<1> PICK o, c : o = call[s] /\ c = IF o.op = "insert" THEN InsertCall(o.node, "cache", o.type, o.props) ELSE Idle
  OBVIOUS
<1>1. BornOK
  BY DEF StorageInv, TierInv
<1>2. Goes(s, c) /\ o.pc = "through" /\ db' = db /\ Grows
  BY DEF WriteThroughStep, Grows, history
<1>3. ~Indexing(call[s])
  BY <1>2, IdleRests
<1>4. CASE o.op = "insert"
  <2>1. c.op = "insert" /\ c.node = o.node /\ c.type = o.type
    BY <1>4 DEF InsertCall
  <2>2. \A n \in Kept : CallTyped(c, n)
    BY <1>4, <2>1 DEF TextInv, NodeText, CallTyped
  <2> QED
    BY <1>1, <1>2, <1>3, <2>2, PlainText, NoDbText
<1>5. CASE o.op # "insert"
  BY <1>1, <1>2, <1>3, <1>5, PlainCalls, QuietText
<1> QED
  BY <1>4, <1>5

LEMMA IndexTyped ==
    ASSUME TextInv, NEW n \in Kept
    PROVE  GetNodeIndex(db, n) = {db.index[n]} /\ n \in DOMAIN db.index
  BY DEF TextInv, NodeText, EntriesOK, GetNodeIndex

LEMMA IndexReadText ==
    ASSUME StorageInv, TextInv, NEW s \in Slots, EvictIndex(s) \/ PromoteIndex(s)
    PROVE  TextInv'
<1> PICK o : o = call[s]
  OBVIOUS
<1>1. BornOK
  BY DEF StorageInv, TierInv
<1>2. ~Indexing(call[s]) /\ db' = db /\ Grows
  BY IdleRests DEF EvictIndex, PromoteIndex, At, Grows, history
<1>3. CASE EvictIndex(s)
  <2>1. CASE \E index \in GetNodeIndex(db, o.node) :
                Goes(s, PointCall(o.node, o.props, o.todo, o.shed, index))
    <3>1. PICK index, c : /\ index \in GetNodeIndex(db, o.node) /\ Goes(s, c)
                             /\ c = PointCall(o.node, o.props, o.todo, o.shed, index)
      BY <2>1
    <3>2. c.op = "evict" /\ c.node = o.node /\ c.index = index
      BY <3>1 DEF PointCall
    <3>3. \A n \in Kept : CallTyped(c, n)
      BY <3>1, <3>2, IndexTyped DEF CallTyped
    <3> QED
      BY <1>1, <1>2, <3>1, <3>3, PlainText, NoDbText
  <2>2. CASE Goes(s, EvictCall(o.node, "drop", o.props, o.todo, o.shed))
    BY <1>1, <1>2, <2>2, PlainCalls, QuietText
  <2> QED
    BY <1>3, <2>1, <2>2 DEF EvictIndex
<1>4. CASE PromoteIndex(s)
  <2>1. CASE GetNodeIndex(db, o.node) = {}
    <3>1. Goes(s, Idle)
      BY <1>4, <2>1 DEF PromoteIndex
    <3> QED
      BY <1>1, <1>2, <3>1, PlainCalls, QuietText
  <2>2. CASE GetNodeIndex(db, o.node) # {}
    <3>1. PICK index, c :
             /\ index \in GetNodeIndex(db, o.node) /\ Goes(s, c)
             /\ c = [op |-> "promote", node |-> o.node, pc |-> "point", index |-> index]
      BY <1>4, <2>2 DEF PromoteIndex
    <3>2. c.op = "promote" /\ c.node = o.node /\ c.index = index
      BY <3>1
    <3>3. \A n \in Kept : CallTyped(c, n)
      BY <3>1, <3>2, IndexTyped DEF CallTyped
    <3> QED
      BY <1>1, <1>2, <3>1, <3>3, PlainText, NoDbText
  <2> QED
    BY <2>1, <2>2
<1> QED
  BY <1>3, <1>4

(* An eviction or promotion re-points the index record it has read. *)
LEMMA PointText ==
    ASSUME StorageInv, TextInv, NEW s \in Slots, EvictPoint(s) \/ PromotePoint(s)
    PROVE  TextInv'
<1> PICK o : o = call[s]
  OBVIOUS
<1>1. BornOK /\ IsDb(db)
  BY DEF StorageInv, TierInv, BornOK
<1>2. PICK index : db' = UpdateNodeIndex(db, o.node, index) /\ index.type = o.index.type
  BY DEF EvictPoint, PromotePoint, Relocated
<1>3. PICK c : Goes(s, c) /\ Plain(c)
  BY PlainCalls DEF EvictPoint, PromotePoint
<1>4. /\ ~Indexing(call[s]) /\ Grows
      /\ o.op \in {"evict", "promote"} /\ o.pc = "point"
  BY IdleRests DEF EvictPoint, PromotePoint, At, Grows, history
<1>5. Moves(s, c)
  BY <1>1, <1>3, GoesMoves
<1>6. SameText(db, db') /\ \A m : StillTyped(db, db', m)
  BY <1>1, <1>2, RowCallsText
<1>7. db'.index = Put(db.index, o.node, index)
  BY <1>1, <1>2, UpdateNodeIndexIs
<1>8. /\ DOMAIN db'.index = DOMAIN db.index \cup {o.node} /\ db'.index[o.node] = index
      /\ \A n \in DOMAIN db.index : n # o.node => db'.index[n] = db.index[n]
  BY <1>7 DEF Put
<1>9. Born' = Born /\ \A n \in Kept' : n \in Kept /\ n \in DOMAIN db.index /\ acked'[n] = acked[n]
  BY <1>4, GrowsKept DEF Grows
<1>10. ASSUME NEW n \in Kept
       PROVE  db'.index[n].type = db.index[n].type
  <2>1. CASE n = o.node
    <3>1. CallTyped(o, n)
      BY <1>10 DEF TextInv, NodeText
    <3>2. o.index.type = db.index[n].type
      BY <1>4, <2>1, <3>1 DEF CallTyped
    <3> QED
      BY <1>2, <1>8, <2>1, <3>2
  <2>2. CASE n # o.node
    BY <1>8, <1>10, <2>2, IndexTyped
  <2> QED
    BY <2>1, <2>2
<1>11. \A n \in Kept' : /\ n \in Kept /\ acked'[n] = acked[n]
                        /\ n \in DOMAIN db'.index /\ db'.index[n].type = db.index[n].type
                        /\ StillTyped(db, db', n) /\ CallTyped(c, n)'
  BY <1>3, <1>6, <1>8, <1>9, <1>10, PlainTyped
<1> QED
  BY <1>4, <1>5, <1>6, <1>9, <1>11, SlotText

(* update_node's commit and delete_node's rows are on nodes that are not kept,
   or no longer.                                                           *)
LEMMA UpdateText ==
    ASSUME StorageInv, TextInv, NEW s \in Slots, UpdateCommit(s)
    PROVE  TextInv'
<1> PICK o : o = call[s]
  OBVIOUS
<1>1. BornOK /\ IsDb(db)
  BY DEF StorageInv, TierInv, BornOK
<1>2. PICK index : db' = UpdateNodeTiered(db, o.node, index, o.props)
  BY DEF UpdateCommit
<1>3. PICK c : Goes(s, c) /\ Plain(c)
  BY PlainCalls DEF UpdateCommit
<1>4. PICK p : acked' = Put(acked, o.node, p)
  BY DEF UpdateCommit
<1>5. /\ ~Indexing(call[s]) /\ unkept' = unkept \cup {o.node} /\ exposed' = exposed
      /\ doomed' = doomed /\ o.op = "update"
  BY IdleRests DEF UpdateCommit, At
<1>6. o.node \in Born
  BY <1>1, <1>5, WorksOnIs DEF BornOK
<1>7. Moves(s, c)
  BY <1>1, <1>3, GoesMoves
<1>8. SameText(db, db') /\ \A m : StillTyped(db, db', m)
  BY <1>1, <1>2, RowCallsText
<1>9. db'.index = Put(db.index, o.node, index)
  BY <1>1, <1>2 DEF UpdateNodeTiered, IsDb, Tables
<1>10. /\ DOMAIN db'.index = DOMAIN db.index \cup {o.node}
       /\ \A n \in DOMAIN db.index : n # o.node => db'.index[n] = db.index[n]
  BY <1>9 DEF Put
<1>11. Born' = Born /\ \A n \in Born : n # o.node => acked'[n] = acked[n]
  BY <1>4, <1>6 DEF Put, Born
<1>12. \A n \in Kept' : n \in Kept /\ n # o.node /\ acked'[n] = acked[n]
  BY <1>5, <1>11 DEF Kept, Live
<1>13. \A n \in Kept' : n \in DOMAIN db'.index /\ db'.index[n].type = db.index[n].type
  BY <1>10, <1>12, IndexTyped
<1> QED
  BY <1>3, <1>5, <1>7, <1>8, <1>11, <1>12, <1>13, PlainTyped, SlotText

LEMMA DeleteText ==
    ASSUME StorageInv, TextInv, NEW s \in Slots, DeleteRows(s)
    PROVE  TextInv'
<1> PICK o : o = call[s]
  OBVIOUS
<1>1. BornOK /\ IsDb(db)
  BY DEF StorageInv, TierInv, BornOK
<1>2. /\ db' = DeleteNodeTiered(db, o.node) /\ Goes(s, Idle) /\ ~Indexing(call[s]) /\ Grows
      /\ o.op = "delete" /\ doomed' = doomed
  BY IdleRests DEF DeleteRows, At, Grows
<1>3. o.node \in doomed
  BY <1>2 DEF StorageInv, DeletesOK
<1>4. Moves(s, Idle)
  BY <1>1, <1>2, GoesMoves
<1>5. SameText(db, db') /\ \A m : m # o.node => StillTyped(db, db', m)
  BY <1>1, <1>2, DeleteNodeText
<1>6. db'.index = Without(db.index, {o.node})
  BY <1>1, <1>2, DeleteNodeTieredIs
<1>7. /\ DOMAIN db'.index = DOMAIN db.index \ {o.node}
      /\ \A n \in DOMAIN db.index : n # o.node => db'.index[n] = db.index[n]
  BY <1>6 DEF Without, Restrict
<1>8. Born' = Born /\ \A n \in Kept' : n \in Kept /\ n \in DOMAIN db.index /\ acked'[n] = acked[n]
  BY <1>2, GrowsKept DEF Grows
<1>9. \A n \in Kept' : n # o.node
  BY <1>2, <1>3 DEF Kept, Live
<1>10. \A n \in Kept' : /\ n \in Kept /\ acked'[n] = acked[n]
                        /\ n \in DOMAIN db'.index /\ db'.index[n].type = db.index[n].type
                        /\ StillTyped(db, db', n) /\ CallTyped(Idle, n)'
  BY <1>5, <1>7, <1>8, <1>9, PlainCalls, PlainTyped
<1> QED
  BY <1>2, <1>4, <1>5, <1>8, <1>10, SlotText

(* Calls of one transaction that leave the index records alone. *)
LEMMA EdgeCallsText ==
    ASSUME StorageInv, TextInv, NEW s \in Slots,
           CreateEdge(s) \/ CreateEdgesBatch(s) \/ RemoveEdge(s)
    PROVE  TextInv'
<1>1. IsDb(db)
  BY DEF StorageInv, TierInv, BornOK
<1>2. call' = call /\ Grows
  BY DEF CreateEdge, CreateEdgesBatch, RemoveEdge, Grows, history
<1>3. PICK e, row, batch :
         db' \in {InsertEdge(db, e, row), InsertEdgesBatch(db, batch), DeleteEdge(db, e)}
  BY DEF CreateEdge, CreateEdgesBatch, RemoveEdge
<1>4. SameText(db, db') /\ \A m : StillTyped(db, db', m)
  BY <1>1, <1>3, RowCallsText
<1>5. db'.index = db.index
  BY <1>1, <1>3 DEF InsertEdge, InsertEdgesBatch, DeleteEdge, IsDb, Tables
<1>6. Born' = Born /\ \A n \in Kept' : n \in Kept /\ n \in DOMAIN db.index /\ acked'[n] = acked[n]
  BY <1>2, GrowsKept DEF Grows
<1> QED
  BY <1>2, <1>4, <1>5, <1>6, RestText

LEMMA CacheEvictsText ==
    ASSUME StorageInv, TextInv, CacheEvicts
    PROVE  TextInv'
<1>1. call' = call /\ db' = db /\ Grows
  BY DEF CacheEvicts, Grows, history
<1>2. Born' = Born /\ \A n \in Kept' : n \in Kept /\ n \in DOMAIN db.index /\ acked'[n] = acked[n]
  BY <1>1, GrowsKept DEF Grows
<1> QED
  BY <1>1, <1>2, NoDbText, RestText

(* insert_nodes_batch and transactions name only nodes that are not kept from
   then on.                                                                *)
LEMMA BatchText ==
    ASSUME StorageInv, TextInv, NEW s \in Slots, InsertNodesBatch(s)
    PROVE  TextInv'
<1>1. IsDb(db)
  BY DEF StorageInv, TierInv, BornOK
<1>2. PICK ns \in SUBSET (Nodes \ Born), t \in NodeTypes, p \in Docs :
         /\ db' = InsertNodesTieredBatch(db,
                     [n \in ns |-> [index |-> IndexRecord(t, "local", p), payload |-> p]])
         /\ acked' = Merge(acked, [n \in ns |-> p]) /\ unkept' = unkept \cup ns
         /\ Goes(s, BatchCall([n \in ns |-> p]))
  BY DEF InsertNodesBatch
<1>3. call[s] = Idle /\ exposed' = exposed /\ doomed' = doomed
  BY DEF InsertNodesBatch
<1> PICK c : c = BatchCall([n \in ns |-> p])
  OBVIOUS
<1>4. SameText(db, db') /\ \A m : StillTyped(db, db', m)
  BY <1>1, <1>2, RowCallsText
<1>5. Born' = Born \cup ns /\ \A n \in Born : acked'[n] = acked[n]
  BY <1>2 DEF Merge, Born
<1>6. \A n \in DOMAIN db.index : n \notin ns => n \in DOMAIN db'.index /\ db'.index[n] = db.index[n]
  BY <1>1, <1>2 DEF InsertNodesTieredBatch, IsDb, Tables, Merge
<1>7. \A n \in Kept' : n \in Kept /\ n \notin ns /\ acked'[n] = acked[n]
  BY <1>2, <1>3, <1>5 DEF Kept, Live
<1>8. \A n \in Kept' : n \in DOMAIN db'.index /\ db'.index[n].type = db.index[n].type
  BY <1>6, <1>7, IndexTyped
<1>9. Moves(s, c) /\ ~Indexing(call[s]) /\ \A n : CallTyped(c, n)'
  BY <1>2, <1>3, GoesMoves, IdleRests, PlainCalls, PlainTyped DEF StorageInv, TierInv
<1> QED
  BY <1>4, <1>5, <1>7, <1>8, <1>9, SlotText

LEMMA BatchCacheText ==
    ASSUME StorageInv, TextInv, NEW s \in Slots, BatchCache(s)
    PROVE  TextInv'
<1>1. BornOK
  BY DEF StorageInv, TierInv
<1>2. ~Indexing(call[s]) /\ db' = db /\ Grows
  BY IdleRests DEF BatchCache, Grows, history
<1>3. \E c : Goes(s, c) /\ Plain(c)
  BY PlainCalls DEF BatchCache
<1> QED
  BY <1>1, <1>2, <1>3, QuietText

LEMMA TxnText ==
    ASSUME StorageInv, TextInv, NEW s \in Slots, TxnCommit(s)
    PROVE  TextInv'
<1>1. IsDb(db)
  BY DEF StorageInv, TierInv, BornOK
<1>2. PICK op \in TxnOps :
         LET named  == IF op.op \in {"InsertNode", "UpdateNode", "DeleteNode"} THEN {op.node} ELSE {}
             legacy == named \ DOMAIN db.index IN
         /\ db' = Commit(db, <<op>>)
         /\ acked' = CASE op.op = "InsertNode" -> Put(acked, op.node, op.props)
                       [] op.op = "UpdateNode" /\ op.node \in DOMAIN db.nodes ->
                             Put(acked, op.node, Merge(acked[op.node], op.props))
                       [] OTHER -> acked
         /\ unkept' = unkept \cup named
         /\ doomed' = IF op.op = "DeleteNode" THEN doomed \cup legacy ELSE doomed
  BY DEF TxnCommit
<1>3. call' = call /\ exposed \subseteq exposed'
  BY DEF TxnCommit
<1>4. op.op \in {"InsertNode", "UpdateNode", "DeleteNode", "InsertEdge", "DeleteEdge"}
  BY DEF TxnOps
<1>5. db' = CommitOp(db, op)
  BY <1>2, CommitOne
<1>6. SameText(db, db') /\ \A m : StillTyped(db, db', m)
  BY <1>1, <1>4, <1>5, CommitText
<1>7. db'.index = db.index
  <2>1. CASE op.op = "InsertNode"
    BY <1>1, <1>5, <2>1, CommitInsertNode
  <2>2. CASE op.op = "UpdateNode" /\ op.node \in DOMAIN db.nodes
    BY <1>1, <1>5, <2>2, CommitUpdateNode
  <2>3. CASE op.op = "UpdateNode" /\ op.node \notin DOMAIN db.nodes
    BY <1>5, <2>3 DEF CommitOp
  <2>4. CASE op.op = "DeleteNode"
    BY <1>1, <1>5, <2>4, CommitDeleteNode
  <2>5. CASE op.op = "InsertEdge"
    BY <1>1, <1>5, <2>5, CommitInsertEdge DEF SameRows
  <2>6. CASE op.op = "DeleteEdge"
    BY <1>1, <1>5, <2>6, CommitDeleteEdge DEF SameRows
  <2> QED
    BY <1>4, <2>1, <2>2, <2>3, <2>4, <2>5, <2>6
<1>8. PICK named :
         /\ named = IF op.op \in {"InsertNode", "UpdateNode", "DeleteNode"} THEN {op.node} ELSE {}
         /\ unkept' = unkept \cup named
  BY <1>2
<1>9. doomed \subseteq doomed'
  BY <1>2
<1>10. acked' = acked \/ (op.op \in {"InsertNode", "UpdateNode"} /\ \E p : acked' = Put(acked, op.node, p))
  BY <1>2
<1>11. Born \subseteq Born' /\ Born' \subseteq Born \cup named
       /\ \A n \in Born : n \notin named => acked'[n] = acked[n]
  BY <1>8, <1>10 DEF Put, Born
<1>12. \A n \in Kept' : n \in Kept /\ acked'[n] = acked[n]
  BY <1>3, <1>8, <1>9, <1>11 DEF Kept, Live
<1> QED
  BY <1>3, <1>6, <1>7, <1>11, <1>12, IndexTyped, RestText

(* Opening the database finds the index records of kept nodes and then has
   nothing to migrate; calls that were inserting are gone, their nodes not
   kept.                                                                   *)
LEMMA CrashText ==
    ASSUME StorageInv, TextInv, CrashAndOpen
    PROVE  TextInv'
<1>1. BornOK /\ IsDb(db)
  BY DEF StorageInv, TierInv, BornOK
<1>2. /\ db' = MigrateToTiered(db) /\ call' = [s \in Slots |-> Idle] /\ Grows
      /\ unkept' = unkept \cup
            {n \in Born : \E s \in Slots : RunsOn(s, n) /\ call[s].op = "insert"}
  BY DEF CrashAndOpen, Grows
<1>3. SameText(db, db') /\ \A m : StillTyped(db, db', m)
  BY <1>1, <1>2, RowCallsText
<1>4. Born' = Born /\ \A n \in Kept' : n \in Kept /\ n \in DOMAIN db.index /\ acked'[n] = acked[n]
  BY <1>2, GrowsKept DEF Grows
<1>5. DOMAIN db.index # {} => db' = db
  BY <1>2 DEF MigrateToTiered
<1>6. ASSUME NEW n \in Kept' PROVE NodeText(n)'
  <2>1. NodeText(n) /\ db' = db
    BY <1>4, <1>5, <1>6 DEF TextInv
  <2>2. \A s \in Slots : CallTyped(call[s], n)'
    BY <1>2, PlainCalls, PlainTyped DEF CallTyped
  <2>3. ~Busy(n, {"props"}) /\ ~Busy(n, {"props", "text"})
    <3>1. ASSUME NEW s \in Slots, call[s].op = "insert", call[s].node = n
          PROVE  FALSE
      <4>1. RunsOn(s, n)
        BY <3>1, WorksOnIs DEF RunsOn
      <4>2. n \in Born
        BY <1>1, <4>1 DEF BornOK, RunsOn
      <4> QED
        BY <1>2, <1>6, <3>1, <4>1, <4>2 DEF Kept
    <3> QED
      BY <3>1 DEF Busy
  <2> QED
    BY <1>3, <1>4, <1>6, <2>1, <2>2, <2>3, NodeFrame
<1> QED
  BY <1>3, <1>4, <1>6, NamesFrame DEF TextInv

-------------------------------------------------------------------------------
(* The steps that bring a node or write the index tables. *)

LEMMA InsertStartText ==
    ASSUME StorageInv, TextInv, NEW s \in Slots, InsertNodeStart(s)
    PROVE  TextInv'
<1>1. BornOK /\ IsDb(db) /\ NamesOK
  BY DEF StorageInv, TierInv, BornOK, TextInv
<1>2. PICK m \in Nodes \ Born, t \in NodeTypes, p \in Docs :
         /\ db' = InsertNodeTiered(db, m, IndexRecord(t, "local", p), p)
         /\ acked' = Put(acked, m, p)
         /\ Goes(s, InsertCall(m, "props", t, p))
  BY DEF InsertNodeStart
<1> PICK c, index : c = InsertCall(m, "props", t, p) /\ index = IndexRecord(t, "local", p)
  OBVIOUS
<1>3. /\ call[s] = Idle /\ unkept' = unkept /\ exposed' = exposed /\ doomed' = doomed
  BY DEF InsertNodeStart
<1>4. c.op = "insert" /\ c.node = m /\ c.type = t /\ c.pc = "props" /\ index.type = t
  BY DEF InsertCall, IndexRecord
<1>5. Moves(s, c) /\ ~Indexing(call[s])
  BY <1>1, <1>2, <1>3, GoesMoves, IdleRests
<1>6. SameText(db, db') /\ \A n : StillTyped(db, db', n)
  BY <1>1, <1>2, RowCallsText
<1>7. <<t, m>> \in db'.types
  BY <1>1, <1>2, <1>4, InsertedType
<1>8. db'.index = Put(db.index, m, index)
  BY <1>1, <1>2 DEF InsertNodeTiered, IsDb, Tables
<1>9. /\ m \in DOMAIN db'.index /\ db'.index[m] = index
      /\ \A n \in DOMAIN db.index : n # m => n \in DOMAIN db'.index /\ db'.index[n] = db.index[n]
  BY <1>8 DEF Put
<1>10. Born' = Born \cup {m} /\ acked'[m] = p /\ \A n \in Born : acked'[n] = acked[n]
  BY <1>2 DEF Put, Born
<1>11. NamesOK'
  BY <1>6, <1>10, NamesFrame
<1>12. ASSUME NEW n \in Kept', n # m PROVE NodeText(n)'
  <2>1. n \in Kept /\ acked'[n] = acked[n]
    BY <1>3, <1>10, <1>12 DEF Kept, Live
  <2>2. n \in DOMAIN db'.index /\ db'.index[n].type = db.index[n].type
    BY <1>9, <1>12, <2>1, IndexTyped
  <2>3. CallTyped(c, n)'
    BY <1>4, <1>12 DEF CallTyped
  <2>4. NodeText(n)
    BY <2>1 DEF TextInv
  <2> QED
    BY <1>5, <1>6, <2>1, <2>2, <2>3, <2>4, SlotFrame
<1>13. NodeText(m)'
  <2>1. Busy(m, {"props"})' /\ Busy(m, {"props", "text"})'
    <3>1. call'[s] = c
      BY <1>5 DEF Moves
    <3> QED
      BY <1>4, <3>1 DEF Busy
  <2>2. \A q \in db'.props : q[4] # m
    BY <1>1, <1>2, <1>6 DEF NamesOK, SameText
  <2>3. \A q \in db'.fulltext : q[4] # m
    BY <1>1, <1>2, <1>6 DEF NamesOK, SameText
  <2>4. \A k \in DOMAIN db'.docFreq : k[1] # m
    BY <1>1, <1>2, <1>6 DEF NamesOK, SameText
  <2>5. EntriesOK(m)'
    BY <1>4, <1>7, <1>9, <2>1, <2>2 DEF EntriesOK
  <2>6. PostingsOK(m)'
    BY <2>1, <2>3, <2>4 DEF PostingsOK
  <2>7. ASSUME NEW r \in Slots PROVE CallTyped(call[r], m)'
    <3>1. CASE r = s
      <4>1. call'[r] = c
        BY <1>5, <3>1 DEF Moves
      <4> QED
        BY <1>4, <1>9, <4>1 DEF CallTyped
    <3>2. CASE r # s
      <4>1. call'[r] = call[r]
        BY <1>5, <3>2 DEF Moves
      <4>2. call[r].op \in {"insert", "evict", "promote"} => call[r].node \in Born
        BY <1>1, WorksOnIs DEF BornOK
      <4> QED
        BY <1>2, <4>1, <4>2 DEF CallTyped
    <3> QED
      BY <3>1, <3>2
  <2> QED
    BY <2>5, <2>6, <2>7 DEF NodeText
<1> QED
  BY <1>11, <1>12, <1>13 DEF TextInv

LEMMA RegisteredIs ==
    ASSUME NamesOK, NEW t, NEW f
    PROVE  /\ f \in IndexedFields(db, t) <=> <<t, f>> \in db.registry
           /\ f \in FulltextFields(db, t) <=> <<t, f>> \in db.ftRegistry
<1>1. \A r \in db.registry : r = <<r[1], r[2]>>
  BY DEF NamesOK
<1>2. \A r \in db.ftRegistry : r = <<r[1], r[2]>>
  BY DEF NamesOK
<1>3. f \in IndexedFields(db, t) <=> \E r \in db.registry : r[1] = t /\ r[2] = f
  BY DEF IndexedFields
<1>4. f \in FulltextFields(db, t) <=> \E r \in db.ftRegistry : r[1] = t /\ r[2] = f
  BY DEF FulltextFields
<1> QED
  BY <1>1, <1>2, <1>3, <1>4

(* What the texts of <<node, field>> pairs add. *)
LEMMA IndexTextsIs ==
    ASSUME NEW d, IsDb(d), NEW type, NEW texts,
           \A x \in DOMAIN texts : x = <<x[1], x[2]>>
    PROVE  LET e == IndexTexts(d, type, texts) IN
           /\ e.index = d.index /\ e.types = d.types /\ e.props = d.props
           /\ e.registry = d.registry /\ e.ftRegistry = d.ftRegistry
           /\ \A q : q \in e.fulltext <=>
                 \/ q \in d.fulltext
                 \/ \E x \in DOMAIN texts : \E w \in Terms(texts[x]) : q = <<type, x[2], w, x[1]>>
           /\ \A k : k \in DOMAIN e.docFreq <=>
                 \/ k \in DOMAIN d.docFreq
                 \/ \E x \in DOMAIN texts : k = <<x[1], type, x[2]>>
           /\ \A x \in DOMAIN texts : e.docFreq[<<x[1], type, x[2]>>] = TermFreqs(texts[x])
           /\ \A k \in DOMAIN d.docFreq :
                 (\A x \in DOMAIN texts : k # <<x[1], type, x[2]>>) => e.docFreq[k] = d.docFreq[k]
<1> DEFINE e == IndexTexts(d, type, texts)
           keys == {<<x[1], type, x[2]>> : x \in DOMAIN texts}
           new == [k \in keys |-> TermFreqs(texts[<<k[1], k[3]>>])]
           posts == UNION {{<<type, x[2], w, x[1]>> : w \in Terms(texts[x])} : x \in DOMAIN texts}
<1>1. /\ e.index = d.index /\ e.types = d.types /\ e.props = d.props
      /\ e.registry = d.registry /\ e.ftRegistry = d.ftRegistry
      /\ e.fulltext = d.fulltext \cup posts /\ e.docFreq = Merge(d.docFreq, new)
  BY DEF IndexTexts, IsDb, Tables
<1> HIDE DEF e
<1>2. \A q : q \in posts <=> \E x \in DOMAIN texts : \E w \in Terms(texts[x]) : q = <<type, x[2], w, x[1]>>
  OBVIOUS
<1> HIDE DEF posts
<1>3. DOMAIN new = keys
  OBVIOUS
<1>4. \A x \in DOMAIN texts : new[<<x[1], type, x[2]>>] = TermFreqs(texts[x])
  <2> SUFFICES ASSUME NEW x \in DOMAIN texts
               PROVE  new[<<x[1], type, x[2]>>] = TermFreqs(texts[x])
    OBVIOUS
  <2>1. PICK k : k = <<x[1], type, x[2]>>
    OBVIOUS
  <2>2. k \in keys /\ <<k[1], k[3]>> = x
    BY <2>1
  <2>3. new[k] = TermFreqs(texts[<<k[1], k[3]>>])
    BY <2>2
  <2> HIDE DEF new
  <2> QED
    BY <2>1, <2>2, <2>3
<1> HIDE DEF new
<1>5. /\ DOMAIN e.docFreq = DOMAIN d.docFreq \cup keys
      /\ \A k \in keys : e.docFreq[k] = new[k]
      /\ \A k \in DOMAIN d.docFreq : k \notin keys => e.docFreq[k] = d.docFreq[k]
  BY <1>1, <1>3 DEF Merge
<1>6. \A k : k \in keys <=> \E x \in DOMAIN texts : k = <<x[1], type, x[2]>>
  OBVIOUS
<1> HIDE DEF keys
<1>7. \A x \in DOMAIN texts : e.docFreq[<<x[1], type, x[2]>>] = TermFreqs(texts[x])
  BY <1>4, <1>5, <1>6
<1> QED
  BY <1>1, <1>2, <1>5, <1>6, <1>7 DEF e

(* A step that writes no entry, no posting of the node n. *)
LEMMA EntriesFrame ==
    ASSUME NEW n, EntriesOK(n), acked'[n] = acked[n],
           n \in DOMAIN db'.index, db'.index[n].type = db.index[n].type,
           StillTyped(db, db', n), db'.registry = db.registry,
           \A q : q[4] = n => (q \in db'.props <=> q \in db.props),
           Busy(n, {"props"}) => Busy(n, {"props"})'
    PROVE  EntriesOK(n)'
<1>1. n \in DOMAIN db'.index /\ <<db'.index[n].type, n>> \in db'.types
  BY DEF EntriesOK, StillTyped
<1>2. \A q \in db'.props : q[4] = n =>
         q[2] \in DOMAIN acked'[n] /\ q[3] = IndexKey(acked'[n][q[2]])
  BY DEF EntriesOK
<1>3. ASSUME ~Busy(n, {"props"})', NEW f \in DOMAIN acked'[n],
             <<db'.index[n].type, f>> \in db'.registry
      PROVE  <<db'.index[n].type, f, IndexKey(acked'[n][f]), n>> \in db'.props
  <2>1. <<db.index[n].type, f, IndexKey(acked[n][f]), n>> \in db.props
    BY <1>3 DEF EntriesOK
  <2> QED
    BY <2>1
<1> QED
  BY <1>1, <1>2, <1>3 DEF EntriesOK

LEMMA PostingsFrame ==
    ASSUME NEW n, PostingsOK(n), acked'[n] = acked[n],
           db'.index[n].type = db.index[n].type, db'.ftRegistry = db.ftRegistry,
           \A q : q[4] = n => (q \in db'.fulltext <=> q \in db.fulltext),
           \A k : k[1] = n => /\ k \in DOMAIN db'.docFreq <=> k \in DOMAIN db.docFreq
                              /\ k \in DOMAIN db.docFreq => db'.docFreq[k] = db.docFreq[k],
           Busy(n, {"props", "text"}) => Busy(n, {"props", "text"})'
    PROVE  PostingsOK(n)'
<1>0. \A f : HasText(n, f)' <=> HasText(n, f)
  BY DEF HasText
<1>1. \A q \in db'.fulltext : q[4] = n =>
         HasText(n, q[2])' /\ q[3] \in Terms(acked'[n][q[2]].v)
  BY <1>0 DEF PostingsOK
<1>2. \A k \in DOMAIN db'.docFreq : k[1] = n =>
         HasText(n, k[3])' /\ db'.docFreq[k] = TermFreqs(acked'[n][k[3]].v)
  BY <1>0 DEF PostingsOK
<1>3. ASSUME ~Busy(n, {"props", "text"})', NEW f, HasText(n, f)',
             <<db'.index[n].type, f>> \in db'.ftRegistry, NEW w \in Terms(acked'[n][f].v)
      PROVE  /\ <<db'.index[n].type, f, w, n>> \in db'.fulltext
             /\ <<n, db'.index[n].type, f>> \in DOMAIN db'.docFreq
  <2>1. /\ <<db.index[n].type, f, w, n>> \in db.fulltext
        /\ <<n, db.index[n].type, f>> \in DOMAIN db.docFreq
    BY <1>0, <1>3 DEF PostingsOK
  <2> QED
    BY <2>1
<1> QED
  BY <1>1, <1>2, <1>3 DEF PostingsOK

(* What an insert that writes index entries knows of its node. *)
LEMMA InsertKnows ==
    ASSUME StorageInv, TextInv, NEW s \in Slots, call[s].op = "insert"
    PROVE  /\ call[s].node \in Born
           /\ call[s].node \in Kept => /\ call[s].props = acked[call[s].node]
                                       /\ call[s].type = db.index[call[s].node].type
<1>1. RunsOn(s, call[s].node)
  BY WorksOnIs DEF RunsOn
<1>2. call[s].node \in Born
  BY <1>1 DEF StorageInv, TierInv, BornOK, RunsOn
<1>3. ASSUME call[s].node \in Kept
      PROVE  call[s].props = acked[call[s].node] /\ call[s].type = db.index[call[s].node].type
  <2>1. CallOK(call[s], call[s].node)
    BY <1>1, <1>3 DEF StorageInv, TierInv, CallsOK, Kept
  <2>2. CallTyped(call[s], call[s].node)
    BY <1>3 DEF TextInv, NodeText
  <2> QED
    BY <2>1, <2>2 DEF CallOK, CallTyped
<1> QED
  BY <1>2, <1>3

LEMMA InsertPropsText ==
    ASSUME StorageInv, TextInv, NEW s \in Slots, At(s, "insert", "props"),
           db' = UpdatePropertyIndexes(db, call[s].node, call[s].type, call[s].props),
           Goes(s, InsertCall(call[s].node, "text", call[s].type, call[s].props)),
           UNCHANGED history
    PROVE  TextInv'
<1> PICK o, m, t, p : o = call[s] /\ m = o.node /\ t = o.type /\ p = o.props
  OBVIOUS
<1> PICK c : c = InsertCall(m, "text", t, p)
  OBVIOUS
<1>1. BornOK /\ IsDb(db) /\ NamesOK
  BY DEF StorageInv, TierInv, BornOK, TextInv
<1>2. /\ o.op = "insert" /\ o.pc = "props"
      /\ c.op = "insert" /\ c.pc = "text" /\ c.node = m /\ c.type = t
  BY DEF At, InsertCall
<1>3. m \in Born /\ (m \in Kept => p = acked[m] /\ t = db.index[m].type)
  BY <1>2, InsertKnows
<1>4. Moves(s, c)
  BY <1>1, GoesMoves
<1>5. /\ db'.props = db.props \cup {<<t, f, IndexKey(p[f]), m>> : f \in IndexedFields(db, t) \cap DOMAIN p}
      /\ db'.index = db.index /\ db'.types = db.types /\ db'.registry = db.registry
      /\ db'.fulltext = db.fulltext /\ db'.ftRegistry = db.ftRegistry /\ db'.docFreq = db.docFreq
  BY <1>1 DEF UpdatePropertyIndexes, IsDb, Tables
<1>6. PICK new :
         /\ db'.props = db.props \cup new
         /\ \A q \in new : q[4] = m /\ \E f \in DOMAIN p : q = <<t, f, IndexKey(p[f]), m>>
         /\ \A f \in DOMAIN p : <<t, f>> \in db.registry => <<t, f, IndexKey(p[f]), m>> \in new
  <2> DEFINE new == {<<t, f, IndexKey(p[f]), m>> : f \in IndexedFields(db, t) \cap DOMAIN p}
  <2>1. \A f \in DOMAIN p : <<t, f>> \in db.registry => f \in IndexedFields(db, t)
    BY <1>1, RegisteredIs
  <2>2. \A f \in DOMAIN p : <<t, f>> \in db.registry => <<t, f, IndexKey(p[f]), m>> \in new
    BY <2>1
  <2>3. \A q \in new : q[4] = m /\ \E f \in DOMAIN p : q = <<t, f, IndexKey(p[f]), m>>
    OBVIOUS
  <2>4. db'.props = db.props \cup new
    BY <1>5
  <2> HIDE DEF new
  <2> QED
    BY <2>2, <2>3, <2>4
<1>7. acked' = acked /\ Born' = Born /\ Kept' = Kept
  BY DEF history, Born, Kept, Live
<1>8. NamesOK'
  BY <1>1, <1>3, <1>5, <1>6, <1>7 DEF NamesOK
<1>9. ASSUME NEW n \in Kept PROVE NodeText(n)'
  <2>1. NodeText(n) /\ n \in DOMAIN db.index
    BY <1>9, IndexTyped DEF TextInv
  <2>2. call'[s] = c /\ \A r \in Slots \ {s} : call'[r] = call[r]
    BY <1>4 DEF Moves
  <2>3. Busy(n, {"props", "text"}) => Busy(n, {"props", "text"})'
    BY <1>2, <2>2 DEF Busy
  <2>4. PostingsOK(n)'
    BY <1>5, <1>7, <2>1, <2>3, PostingsFrame DEF NodeText
  <2>5. CallTyped(c, n)'
    BY <1>2, <1>3, <1>5, <1>9 DEF CallTyped
  <2>6. \A r \in Slots : CallTyped(call[r], n)'
    BY <1>4, <1>5, <2>1, <2>5, MovesTyped
  <2>7. CASE n # m
    <3>1. Busy(n, {"props"}) => Busy(n, {"props"})'
      BY <1>2, <2>2, <2>7 DEF Busy
    <3>2. ASSUME NEW q, q[4] = n PROVE q \in db'.props <=> q \in db.props
      BY <1>6, <2>7, <3>2
    <3>3. EntriesOK(n)'
      BY <1>5, <1>7, <2>1, <3>1, <3>2, EntriesFrame DEF NodeText, StillTyped
    <3> QED
      BY <2>4, <2>6, <3>3 DEF NodeText
  <2>8. CASE n = m
    <3>1. p = acked[n] /\ t = db.index[n].type /\ EntriesOK(n)
      BY <1>3, <1>9, <2>1, <2>8 DEF NodeText
    <3>2. n \in DOMAIN db'.index /\ <<db'.index[n].type, n>> \in db'.types
      BY <1>5, <3>1 DEF EntriesOK
    <3>3. ASSUME NEW q \in db'.props, q[4] = n
          PROVE  q[2] \in DOMAIN acked'[n] /\ q[3] = IndexKey(acked'[n][q[2]])
      <4>1. CASE q \in db.props
        BY <1>7, <3>1, <3>3, <4>1 DEF EntriesOK
      <4>2. CASE \E f \in DOMAIN p : q = <<t, f, IndexKey(p[f]), m>>
        BY <1>7, <3>1, <4>2
      <4>3. q \in db.props \/ q \in new
        BY <1>6, <3>3
      <4> QED
        BY <1>6, <4>1, <4>2, <4>3
    <3>4. \A f \in DOMAIN acked'[n] : <<db'.index[n].type, f>> \in db'.registry =>
             <<db'.index[n].type, f, IndexKey(acked'[n][f]), n>> \in db'.props
      BY <1>5, <1>6, <1>7, <2>8, <3>1
    <3>5. EntriesOK(n)'
      BY <3>2, <3>3, <3>4 DEF EntriesOK
    <3> QED
      BY <2>4, <2>6, <3>5 DEF NodeText
  <2> QED
    BY <2>7, <2>8
<1> QED
  BY <1>7, <1>8, <1>9 DEF TextInv

(* Indexing texts that are a kept node's own keeps its postings right and adds
   those of the texts.                                                     *)
LEMMA TextsAdded ==
    ASSUME NEW d, IsDb(d), d.fulltext = db.fulltext, d.docFreq = db.docFreq,
           NEW type, NEW texts, \A x \in DOMAIN texts : x = <<x[1], x[2]>>,
           db' = IndexTexts(d, type, texts), acked' = acked,
           NEW n, PostingsOK(n),
           \A x \in DOMAIN texts : x[1] = n => HasText(n, x[2]) /\ texts[x] = acked[n][x[2]].v
    PROVE  /\ \A q \in db'.fulltext : q[4] = n =>
                 HasText(n, q[2])' /\ q[3] \in Terms(acked'[n][q[2]].v)
           /\ \A k \in DOMAIN db'.docFreq : k[1] = n =>
                 HasText(n, k[3])' /\ db'.docFreq[k] = TermFreqs(acked'[n][k[3]].v)
           /\ db.fulltext \subseteq db'.fulltext
           /\ DOMAIN db.docFreq \subseteq DOMAIN db'.docFreq
           /\ \A x \in DOMAIN texts :
                 /\ \A w \in Terms(texts[x]) : <<type, x[2], w, x[1]>> \in db'.fulltext
                 /\ <<x[1], type, x[2]>> \in DOMAIN db'.docFreq
<1>1. /\ \A q : q \in db'.fulltext <=>
            \/ q \in d.fulltext
            \/ \E x \in DOMAIN texts : \E w \in Terms(texts[x]) : q = <<type, x[2], w, x[1]>>
      /\ \A k : k \in DOMAIN db'.docFreq <=>
            \/ k \in DOMAIN d.docFreq
            \/ \E x \in DOMAIN texts : k = <<x[1], type, x[2]>>
      /\ \A x \in DOMAIN texts : db'.docFreq[<<x[1], type, x[2]>>] = TermFreqs(texts[x])
      /\ \A k \in DOMAIN d.docFreq :
            (\A x \in DOMAIN texts : k # <<x[1], type, x[2]>>) => db'.docFreq[k] = d.docFreq[k]
  BY IndexTextsIs
<1>2. PICK full, freq, full0, freq0 :
         full = db'.fulltext /\ freq = db'.docFreq /\ full0 = db.fulltext /\ freq0 = db.docFreq
  OBVIOUS
<1>3. /\ \A q : q \in full <=>
            \/ q \in full0
            \/ \E x \in DOMAIN texts : \E w \in Terms(texts[x]) : q = <<type, x[2], w, x[1]>>
      /\ \A k : k \in DOMAIN freq <=>
            \/ k \in DOMAIN freq0
            \/ \E x \in DOMAIN texts : k = <<x[1], type, x[2]>>
      /\ \A x \in DOMAIN texts : freq[<<x[1], type, x[2]>>] = TermFreqs(texts[x])
      /\ \A k \in DOMAIN freq0 :
            (\A x \in DOMAIN texts : k # <<x[1], type, x[2]>>) => freq[k] = freq0[k]
  BY <1>1, <1>2
<1>4. /\ \A q \in full0 : q[4] = n => HasText(n, q[2]) /\ q[3] \in Terms(acked[n][q[2]].v)
      /\ \A k \in DOMAIN freq0 : k[1] = n =>
            HasText(n, k[3]) /\ freq0[k] = TermFreqs(acked[n][k[3]].v)
  BY <1>2 DEF PostingsOK
<1>5. \A f : HasText(n, f)' <=> HasText(n, f)
  BY DEF HasText
<1>6. ASSUME NEW q \in full, q[4] = n
      PROVE  HasText(n, q[2]) /\ q[3] \in Terms(acked[n][q[2]].v)
  <2>1. CASE q \in full0
    BY <1>4, <1>6, <2>1
  <2>2. CASE \E x \in DOMAIN texts : \E w \in Terms(texts[x]) : q = <<type, x[2], w, x[1]>>
    <3>1. PICK x, w : /\ x \in DOMAIN texts /\ w \in Terms(texts[x])
                     /\ q = <<type, x[2], w, x[1]>>
      BY <2>2
    <3>2. q[2] = x[2] /\ q[3] = w /\ x[1] = n
      BY <1>6, <3>1
    <3>3. HasText(n, x[2]) /\ texts[x] = acked[n][x[2]].v
      BY <3>1, <3>2
    <3> QED
      BY <3>1, <3>2, <3>3
  <2> QED
    BY <1>3, <2>1, <2>2
<1>7. ASSUME NEW k \in DOMAIN freq, k[1] = n
      PROVE  HasText(n, k[3]) /\ freq[k] = TermFreqs(acked[n][k[3]].v)
  <2>1. CASE \E x \in DOMAIN texts : k = <<x[1], type, x[2]>>
    <3>1. PICK x \in DOMAIN texts : k = <<x[1], type, x[2]>>
      BY <2>1
    <3>2. k[3] = x[2] /\ x[1] = n
      BY <1>7, <3>1
    <3>3. HasText(n, x[2]) /\ texts[x] = acked[n][x[2]].v
      BY <3>2
    <3>4. freq[k] = TermFreqs(texts[x])
      BY <1>3, <3>1
    <3> QED
      BY <3>2, <3>3, <3>4
  <2>2. CASE ~\E x \in DOMAIN texts : k = <<x[1], type, x[2]>>
    <3>1. k \in DOMAIN freq0 /\ freq[k] = freq0[k]
      BY <1>3, <2>2
    <3> QED
      BY <1>4, <1>7, <3>1
  <2> QED
    BY <2>1, <2>2
<1>8. full0 \subseteq full /\ DOMAIN freq0 \subseteq DOMAIN freq
  BY <1>3
<1>9. ASSUME NEW x \in DOMAIN texts
      PROVE  /\ \A w \in Terms(texts[x]) : <<type, x[2], w, x[1]>> \in full
             /\ <<x[1], type, x[2]>> \in DOMAIN freq
  BY <1>3
<1> QED
  BY <1>2, <1>5, <1>6, <1>7, <1>8, <1>9

(* What is in the tables of entries stays; registrations may come. *)
LEMMA TextNames ==
    ASSUME NEW d, IsDb(d), d.fulltext = db.fulltext, d.docFreq = db.docFreq, NamesOK,
           d.props = db.props, d.registry = db.registry,
           d.ftRegistry \subseteq NodeTypes \X Fields,
           NEW type, NEW texts, \A x \in DOMAIN texts : x = <<x[1], x[2]>> /\ x[1] \in Born,
           db' = IndexTexts(d, type, texts), Born' = Born
    PROVE  NamesOK'
<1>1. /\ db'.props = d.props /\ db'.registry = d.registry /\ db'.ftRegistry = d.ftRegistry
      /\ \A q \in db'.fulltext :
            \/ q \in d.fulltext
            \/ \E x \in DOMAIN texts : \E w \in Terms(texts[x]) : q = <<type, x[2], w, x[1]>>
      /\ \A k \in DOMAIN db'.docFreq :
            \/ k \in DOMAIN d.docFreq
            \/ \E x \in DOMAIN texts : k = <<x[1], type, x[2]>>
  BY IndexTextsIs
<1>2. \A q \in db'.fulltext : q[4] \in Born
  BY <1>1 DEF NamesOK
<1>3. \A k \in DOMAIN db'.docFreq : k[1] \in Born
  BY <1>1 DEF NamesOK
<1> QED
  BY <1>1, <1>2, <1>3 DEF NamesOK

LEMMA InsertTextText ==
    ASSUME StorageInv, TextInv, NEW s \in Slots, At(s, "insert", "text"),
           db' = UpdateFulltextIndex(db, call[s].node, call[s].type, call[s].props),
           NEW pc \in {"through", "cache"},
           Goes(s, InsertCall(call[s].node, pc, call[s].type, call[s].props)),
           UNCHANGED history
    PROVE  TextInv'
<1> PICK o, m, t, p : o = call[s] /\ m = o.node /\ t = o.type /\ p = o.props
  OBVIOUS
<1> PICK c : c = InsertCall(m, pc, t, p)
  OBVIOUS
<1>1. BornOK /\ IsDb(db) /\ NamesOK
  BY DEF StorageInv, TierInv, BornOK, TextInv
<1>2. /\ o.op = "insert" /\ o.pc = "text"
      /\ c.op = "insert" /\ c.pc = pc /\ c.node = m /\ c.type = t
  BY DEF At, InsertCall
<1>3. m \in Born /\ (m \in Kept => p = acked[m] /\ t = db.index[m].type)
  BY <1>2, InsertKnows
<1>4. Moves(s, c)
  BY <1>1, GoesMoves
<1>5. PICK texts :
         /\ db' = IndexTexts(db, t, texts)
         /\ DOMAIN texts = {m} \X {f \in FulltextFields(db, t) \cap DOMAIN p : p[f].kind = "s"}
         /\ \A x \in DOMAIN texts : texts[x] = p[x[2]].v
  <2> DEFINE fs == {f \in FulltextFields(db, t) \cap DOMAIN p : p[f].kind = "s"}
             texts == [x \in {m} \X fs |-> p[x[2]].v]
  <2>1. db' = IndexTexts(db, t, texts)
    BY DEF UpdateFulltextIndex
  <2>2. DOMAIN texts = {m} \X fs /\ \A x \in DOMAIN texts : texts[x] = p[x[2]].v
    OBVIOUS
  <2> HIDE DEF texts
  <2> QED
    BY <2>1, <2>2
<1>6. \A x \in DOMAIN texts :
         /\ x = <<x[1], x[2]>> /\ x[1] = m /\ x[2] \in DOMAIN p /\ p[x[2]].kind = "s"
         /\ texts[x] = p[x[2]].v
  BY <1>5
<1>7. \A f \in DOMAIN p : p[f].kind = "s" /\ <<t, f>> \in db.ftRegistry => <<m, f>> \in DOMAIN texts
  BY <1>1, <1>5, RegisteredIs
<1>8. acked' = acked /\ Born' = Born /\ Kept' = Kept
  BY DEF history, Born, Kept, Live
<1>9. /\ db'.index = db.index /\ db'.types = db.types /\ db'.props = db.props
      /\ db'.registry = db.registry /\ db'.ftRegistry = db.ftRegistry
  BY <1>1, <1>5, <1>6, IndexTextsIs
<1>10. NamesOK'
  <2>1. db.ftRegistry \subseteq NodeTypes \X Fields
    BY <1>1 DEF NamesOK
  <2> QED
    BY <1>1, <1>3, <1>5, <1>6, <1>8, <2>1, TextNames
<1>11. ASSUME NEW n \in Kept PROVE NodeText(n)'
  <2>1. NodeText(n) /\ n \in DOMAIN db.index
    BY <1>11, IndexTyped DEF TextInv
  <2>2. call'[s] = c /\ \A r \in Slots \ {s} : call'[r] = call[r]
    BY <1>4 DEF Moves
  <2>3. Busy(n, {"props"}) => Busy(n, {"props"})'
    BY <1>2, <2>2 DEF Busy
  <2>4. EntriesOK(n)'
    BY <1>8, <1>9, <2>1, <2>3, EntriesFrame DEF NodeText, StillTyped
  <2>5. CallTyped(c, n)'
    BY <1>2, <1>3, <1>9, <1>11 DEF CallTyped
  <2>6. \A r \in Slots : CallTyped(call[r], n)'
    BY <1>4, <1>9, <2>1, <2>5, MovesTyped
  <2>7. \A x \in DOMAIN texts : x[1] = n => HasText(n, x[2]) /\ texts[x] = acked[n][x[2]].v
    BY <1>3, <1>6, <1>11 DEF HasText
  <2>8. PostingsOK(n)
    BY <2>1 DEF NodeText
  <2>9. /\ \A q \in db'.fulltext : q[4] = n =>
              HasText(n, q[2])' /\ q[3] \in Terms(acked'[n][q[2]].v)
        /\ \A k \in DOMAIN db'.docFreq : k[1] = n =>
              HasText(n, k[3])' /\ db'.docFreq[k] = TermFreqs(acked'[n][k[3]].v)
        /\ db.fulltext \subseteq db'.fulltext
        /\ DOMAIN db.docFreq \subseteq DOMAIN db'.docFreq
        /\ \A x \in DOMAIN texts :
              /\ \A w \in Terms(texts[x]) : <<t, x[2], w, x[1]>> \in db'.fulltext
              /\ <<x[1], t, x[2]>> \in DOMAIN db'.docFreq
    BY <1>1, <1>5, <1>6, <1>8, <2>7, <2>8, TextsAdded
  <2>10. ASSUME ~Busy(n, {"props", "text"})', NEW f, HasText(n, f),
                <<db.index[n].type, f>> \in db.ftRegistry, NEW w \in Terms(acked[n][f].v)
         PROVE  /\ <<db.index[n].type, f, w, n>> \in db'.fulltext
                /\ <<n, db.index[n].type, f>> \in DOMAIN db'.docFreq
    <3>1. CASE n = m
      <4>1. p = acked[n] /\ t = db.index[n].type
        BY <1>3, <1>11, <3>1
      <4>2. PICK x : x = <<n, f>>
        OBVIOUS
      <4>3. x \in DOMAIN texts /\ x[1] = n /\ x[2] = f
        BY <1>7, <2>10, <3>1, <4>1, <4>2 DEF HasText
      <4>4. texts[x] = acked[n][f].v
        BY <1>6, <4>1, <4>3
      <4> QED
        BY <2>9, <2>10, <4>1, <4>3, <4>4
    <3>2. CASE n # m
      <4>1. ~Busy(n, {"props", "text"})
        BY <1>2, <2>2, <2>10, <3>2 DEF Busy
      <4>2. /\ <<db.index[n].type, f, w, n>> \in db.fulltext
            /\ <<n, db.index[n].type, f>> \in DOMAIN db.docFreq
        BY <2>8, <2>10, <4>1 DEF PostingsOK
      <4> QED
        BY <2>9, <4>2
    <3> QED
      BY <3>1, <3>2
  <2>11. PostingsOK(n)'
    <3>1. \A f : HasText(n, f)' <=> HasText(n, f)
      BY <1>8 DEF HasText
    <3> QED
      BY <1>8, <1>9, <2>9, <2>10, <3>1 DEF PostingsOK
  <2> QED
    BY <2>4, <2>6, <2>11 DEF NodeText
<1> QED
  BY <1>8, <1>10, <1>11 DEF TextInv

LEMMA InsertIndexesText ==
    ASSUME StorageInv, TextInv, NEW s \in Slots, InsertNodeIndexes(s)
    PROVE  TextInv'
<1>1. PICK pc : pc = IF WriteThrough THEN "through" ELSE "cache"
  OBVIOUS
<1>2. CASE /\ At(s, "insert", "props")
           /\ db' = UpdatePropertyIndexes(db, call[s].node, call[s].type, call[s].props)
           /\ Goes(s, InsertCall(call[s].node, "text", call[s].type, call[s].props))
  <2>1. UNCHANGED history
    BY DEF InsertNodeIndexes, history
  <2> QED
    BY <1>2, <2>1, InsertPropsText
<1>3. CASE /\ At(s, "insert", "text")
           /\ db' = UpdateFulltextIndex(db, call[s].node, call[s].type, call[s].props)
           /\ Goes(s, InsertCall(call[s].node, pc, call[s].type, call[s].props))
  <2>1. UNCHANGED history
    BY DEF InsertNodeIndexes, history
  <2>2. pc \in {"through", "cache"}
    BY <1>1
  <2> QED
    BY <1>3, <2>1, <2>2, InsertTextText
<1> QED
  BY <1>1, <1>2, <1>3 DEF InsertNodeIndexes

(* A node an index build of its type has seen: its payload row is its value. *)
LEMMA ScannedIs ==
    ASSUME StorageInv, TextInv, NEW n \in Kept, NEW t
    PROVE  /\ n \in Scanned(db, t) => db.payloads[n] = acked[n]
           /\ n \notin Scanned(db, t) /\ <<t, n>> \notin db.types => db.index[n].type # t
<1>1. RowsOK(n) /\ EntriesOK(n)
  BY DEF StorageInv, TierInv, TextInv, NodeText, Kept
<1> QED
  BY <1>1 DEF Scanned, RowsOK, EntriesOK

(* Nodes of the type that the build passes over are kept no longer. *)
LEMMA BuiltKept ==
    ASSUME StorageInv, TextInv, NEW t, acked' = acked, exposed' = exposed, doomed' = doomed,
           unkept' = unkept \cup {n \in Born \ Scanned(db, t) : <<t, n>> \in db.types}
    PROVE  /\ Born' = Born
           /\ \A n \in Kept' : n \in Kept /\ (db.index[n].type = t => n \in Scanned(db, t))
<1>1. Born' = Born
  BY DEF Born
<1>2. ASSUME NEW n \in Kept', db.index[n].type = t, n \in Kept PROVE n \in Scanned(db, t)
  <2>1. <<t, n>> \in db.types
    BY <1>2 DEF TextInv, NodeText, EntriesOK
  <2>2. n \in Born
    BY <1>2 DEF Kept, Live
  <2> QED
    BY <1>2, <2>1, <2>2 DEF Kept
<1>3. \A n \in Kept' : n \in Kept
  BY DEF Kept, Live, Born
<1> QED
  BY <1>1, <1>2, <1>3

(* Building an index that exists changes no table. *)
LEMMA NothingBuilt ==
    ASSUME StorageInv, TextInv, call' = call, db' = db, Grows
    PROVE  TextInv'
<1>1. Born' = Born /\ \A n \in Kept' : n \in Kept /\ n \in DOMAIN db.index /\ acked'[n] = acked[n]
  BY GrowsKept DEF Grows
<1> QED
  BY <1>1, NoDbText, RestText

LEMMA RestTyped ==
    ASSUME call' = call, db'.index = db.index, NEW n, NodeText(n)
    PROVE  /\ \A r \in Slots : CallTyped(call[r], n)'
           /\ \A pcs : Busy(n, pcs)' <=> Busy(n, pcs)
  BY DEF NodeText, CallTyped, Busy

LEMMA PropertyBuilt ==
    ASSUME StorageInv, TextInv, NEW t \in NodeTypes, NEW f \in Fields, <<t, f>> \notin db.registry,
           call' = call, acked' = acked, exposed' = exposed, doomed' = doomed,
           db' = CreatePropertyIndex(db, t, f),
           unkept' = unkept \cup {n \in Born \ Scanned(db, t) : <<t, n>> \in db.types}
    PROVE  TextInv'
<1>1. BornOK /\ IsDb(db) /\ NamesOK
  BY DEF StorageInv, TierInv, BornOK, TextInv
<1> DEFINE docs == {m \in Scanned(db, t) : f \in DOMAIN db.payloads[m]}
           new == {<<t, f, IndexKey(db.payloads[n][f]), n>> : n \in docs}
<1>2. /\ db'.props = db.props \cup new /\ db'.registry = db.registry \cup {<<t, f>>}
      /\ db'.index = db.index /\ db'.types = db.types
      /\ db'.fulltext = db.fulltext /\ db'.ftRegistry = db.ftRegistry /\ db'.docFreq = db.docFreq
  BY <1>1 DEF CreatePropertyIndex, IsDb, Tables
<1>3. docs \subseteq Born
  BY <1>1 DEF Scanned, BornOK
<1>4. \A q \in new : q[2] = f /\ q[4] \in docs /\ q[3] = IndexKey(db.payloads[q[4]][f])
  OBVIOUS
<1>5. \A n \in docs : <<t, f, IndexKey(db.payloads[n][f]), n>> \in new
  OBVIOUS
<1> HIDE DEF new
<1>6. /\ Born' = Born
      /\ \A n \in Kept' : n \in Kept /\ (db.index[n].type = t => n \in Scanned(db, t))
  BY BuiltKept
<1>7. NamesOK'
  <2>1. \A q \in db'.props : q[4] \in Born'
    BY <1>1, <1>2, <1>3, <1>4, <1>6 DEF NamesOK
  <2>2. db'.registry \subseteq NodeTypes \X Fields
    BY <1>1, <1>2 DEF NamesOK
  <2> QED
    BY <1>1, <1>2, <1>6, <2>1, <2>2 DEF NamesOK
<1>8. ASSUME NEW n \in Kept' PROVE NodeText(n)'
  <2>1. /\ n \in Kept /\ NodeText(n) /\ n \in DOMAIN db.index
        /\ n \in Scanned(db, t) => db.payloads[n] = acked[n]
        /\ db.index[n].type = t => n \in Scanned(db, t)
    BY <1>6, <1>8, IndexTyped, ScannedIs DEF TextInv
  <2>2. /\ \A r \in Slots : CallTyped(call[r], n)'
        /\ \A pcs : Busy(n, pcs)' <=> Busy(n, pcs)
    BY <1>2, <2>1, RestTyped
  <2>3. PostingsOK(n)'
    BY <1>2, <2>1, <2>2, PostingsFrame DEF NodeText
  <2>4. EntriesOK(n)
    BY <2>1 DEF NodeText
  <2>5. ASSUME NEW q \in db'.props, q[4] = n
        PROVE  q[2] \in DOMAIN acked[n] /\ q[3] = IndexKey(acked[n][q[2]])
    <3>1. CASE q \in db.props
      BY <2>4, <2>5, <3>1 DEF EntriesOK
    <3>2. CASE q \in new
      <4>1. q[2] = f /\ n \in docs /\ q[3] = IndexKey(db.payloads[n][f])
        BY <1>4, <2>5, <3>2
      <4> QED
        BY <2>1, <4>1
    <3> QED
      BY <1>2, <2>5, <3>1, <3>2
  <2>6. ASSUME ~Busy(n, {"props"}), NEW g \in DOMAIN acked[n], <<db.index[n].type, g>> \in db'.registry
        PROVE  <<db.index[n].type, g, IndexKey(acked[n][g]), n>> \in db'.props
    <3>1. CASE <<db.index[n].type, g>> \in db.registry
      <4>1. <<db.index[n].type, g, IndexKey(acked[n][g]), n>> \in db.props
        BY <2>4, <2>6, <3>1 DEF EntriesOK
      <4> QED
        BY <1>2, <4>1
    <3>2. CASE <<db.index[n].type, g>> = <<t, f>>
      <4>1. db.index[n].type = t /\ g = f
        BY <3>2
      <4>2. n \in docs /\ db.payloads[n] = acked[n]
        BY <2>1, <2>6, <4>1
      <4> QED
        BY <1>2, <1>5, <4>1, <4>2
    <3> QED
      BY <1>2, <2>6, <3>1, <3>2
  <2>7. EntriesOK(n)'
    BY <1>2, <2>2, <2>4, <2>5, <2>6 DEF EntriesOK
  <2> QED
    BY <2>2, <2>3, <2>7 DEF NodeText
<1> QED
  BY <1>7, <1>8 DEF TextInv

LEMMA FulltextBuilt ==
    ASSUME StorageInv, TextInv, NEW t \in NodeTypes, NEW f \in Fields, <<t, f>> \notin db.ftRegistry,
           call' = call, acked' = acked, exposed' = exposed, doomed' = doomed,
           db' = CreateFulltextIndex(db, t, f),
           unkept' = unkept \cup {n \in Born \ Scanned(db, t) : <<t, n>> \in db.types}
    PROVE  TextInv'
<1>1. BornOK /\ IsDb(db) /\ NamesOK
  BY DEF StorageInv, TierInv, BornOK, TextInv
<1> DEFINE docs == {n \in Scanned(db, t) :
                       /\ f \in DOMAIN db.payloads[n]
                       /\ db.payloads[n][f].kind = "s"
                       /\ Terms(db.payloads[n][f].v) # {}}
           d == [db EXCEPT !.ftRegistry = @ \cup {<<t, f>>}]
           texts == [x \in docs \X {f} |-> db.payloads[x[1]][f].v]
<1>2. db' = IndexTexts(d, t, texts)
  BY DEF CreateFulltextIndex
<1>3. /\ IsDb(d) /\ d.fulltext = db.fulltext /\ d.docFreq = db.docFreq /\ d.props = db.props
      /\ d.registry = db.registry /\ d.ftRegistry = db.ftRegistry \cup {<<t, f>>}
      /\ d.index = db.index /\ d.types = db.types
  BY <1>1 DEF IsDb, Tables
<1>4. docs \subseteq Born
  BY <1>1 DEF Scanned, BornOK
<1> HIDE DEF d
<1>5. \A x \in DOMAIN texts : /\ x = <<x[1], x[2]>> /\ x[1] \in docs /\ x[2] = f
                              /\ texts[x] = db.payloads[x[1]][f].v
  OBVIOUS
<1>6. \A n \in docs : <<n, f>> \in DOMAIN texts
  OBVIOUS
<1> HIDE DEF texts
<1>7. /\ Born' = Born
      /\ \A n \in Kept' : n \in Kept /\ (db.index[n].type = t => n \in Scanned(db, t))
  BY BuiltKept
<1>8. /\ db'.index = db.index /\ db'.types = db.types /\ db'.props = db.props
      /\ db'.registry = db.registry /\ db'.ftRegistry = db.ftRegistry \cup {<<t, f>>}
  BY <1>2, <1>3, <1>5, IndexTextsIs
<1>9. NamesOK'
  <2>1. d.ftRegistry \subseteq NodeTypes \X Fields
    BY <1>1, <1>3 DEF NamesOK
  <2>2. \A x \in DOMAIN texts : x = <<x[1], x[2]>> /\ x[1] \in Born
    BY <1>4, <1>5
  <2> QED
    BY <1>1, <1>2, <1>3, <1>7, <2>1, <2>2, TextNames
<1>10. ASSUME NEW n \in Kept' PROVE NodeText(n)'
  <2>1. /\ n \in Kept /\ NodeText(n) /\ n \in DOMAIN db.index
        /\ n \in Scanned(db, t) => db.payloads[n] = acked[n]
        /\ db.index[n].type = t => n \in Scanned(db, t)
    BY <1>7, <1>10, IndexTyped, ScannedIs DEF TextInv
  <2>2. /\ \A r \in Slots : CallTyped(call[r], n)'
        /\ \A pcs : Busy(n, pcs)' <=> Busy(n, pcs)
    BY <1>8, <2>1, RestTyped
  <2>3. EntriesOK(n)'
    BY <1>8, <2>1, <2>2, EntriesFrame DEF NodeText, StillTyped
  <2>4. PostingsOK(n)
    BY <2>1 DEF NodeText
  <2>5. \A x \in DOMAIN texts : x[1] = n => HasText(n, x[2]) /\ texts[x] = acked[n][x[2]].v
    <3>1. n \in docs => HasText(n, f) /\ db.payloads[n] = acked[n]
      BY <2>1 DEF HasText
    <3> QED
      BY <1>5, <3>1
  <2>6. /\ \A q \in db'.fulltext : q[4] = n =>
              HasText(n, q[2])' /\ q[3] \in Terms(acked'[n][q[2]].v)
        /\ \A k \in DOMAIN db'.docFreq : k[1] = n =>
              HasText(n, k[3])' /\ db'.docFreq[k] = TermFreqs(acked'[n][k[3]].v)
        /\ db.fulltext \subseteq db'.fulltext
        /\ DOMAIN db.docFreq \subseteq DOMAIN db'.docFreq
        /\ \A x \in DOMAIN texts :
              /\ \A w \in Terms(texts[x]) : <<t, x[2], w, x[1]>> \in db'.fulltext
              /\ <<x[1], t, x[2]>> \in DOMAIN db'.docFreq
    BY <1>2, <1>3, <1>5, <2>4, <2>5, TextsAdded
  <2>7. ASSUME ~Busy(n, {"props", "text"}), NEW g, HasText(n, g),
               <<db.index[n].type, g>> \in db'.ftRegistry, NEW w \in Terms(acked[n][g].v)
        PROVE  /\ <<db.index[n].type, g, w, n>> \in db'.fulltext
               /\ <<n, db.index[n].type, g>> \in DOMAIN db'.docFreq
    <3>1. CASE <<db.index[n].type, g>> \in db.ftRegistry
      <4>1. /\ <<db.index[n].type, g, w, n>> \in db.fulltext
            /\ <<n, db.index[n].type, g>> \in DOMAIN db.docFreq
        BY <2>4, <2>7, <3>1 DEF PostingsOK
      <4> QED
        BY <2>6, <4>1
    <3>2. CASE <<db.index[n].type, g>> = <<t, f>>
      <4>1. db.index[n].type = t /\ g = f
        BY <3>2
      <4>2. n \in docs /\ db.payloads[n] = acked[n]
        BY <2>1, <2>7, <4>1 DEF HasText
      <4>3. PICK x : x = <<n, f>>
        OBVIOUS
      <4>4. x \in DOMAIN texts /\ x[1] = n /\ x[2] = f
        BY <1>6, <4>2, <4>3
      <4>5. texts[x] = acked[n][f].v
        BY <1>5, <4>2, <4>4
      <4> QED
        BY <2>6, <2>7, <4>1, <4>4, <4>5
    <3> QED
      BY <1>8, <2>7, <3>1, <3>2
  <2>8. PostingsOK(n)'
    <3>1. \A g : HasText(n, g)' <=> HasText(n, g)
      BY DEF HasText
    <3> QED
      BY <1>8, <2>2, <2>6, <2>7, <3>1 DEF PostingsOK
  <2> QED
    BY <2>2, <2>3, <2>8 DEF NodeText
<1> QED
  BY <1>9, <1>10 DEF TextInv

LEMMA CreateIndexesText ==
    ASSUME StorageInv, TextInv, NEW s \in Slots, CreateIndexes(s)
    PROVE  TextInv'
<1>1. PICK t \in NodeTypes, f \in Fields :
         /\ db' \in {CreatePropertyIndex(db, t, f), CreateFulltextIndex(db, t, f)}
         /\ unkept' = unkept \cup {n \in Born \ Scanned(db, t) : <<t, n>> \in db.types}
  BY DEF CreateIndexes
<1>2. call' = call /\ acked' = acked /\ exposed' = exposed /\ doomed' = doomed
  BY DEF CreateIndexes
<1>3. CASE db' = db
  BY <1>1, <1>2, <1>3, NothingBuilt DEF Grows
<1>4. CASE db' = CreatePropertyIndex(db, t, f) /\ <<t, f>> \notin db.registry
  BY <1>1, <1>2, <1>4, PropertyBuilt
<1>5. CASE db' = CreateFulltextIndex(db, t, f) /\ <<t, f>> \notin db.ftRegistry
  BY <1>1, <1>2, <1>5, FulltextBuilt
<1>6. /\ <<t, f>> \in db.registry => CreatePropertyIndex(db, t, f) = db
      /\ <<t, f>> \in db.ftRegistry => CreateFulltextIndex(db, t, f) = db
  BY DEF CreatePropertyIndex, CreateFulltextIndex
<1> QED
  BY <1>1, <1>3, <1>4, <1>5, <1>6

LEMMA DropIndexText ==
    ASSUME StorageInv, TextInv, NEW s \in Slots, DropIndex(s)
    PROVE  TextInv'
<1>1. IsDb(db) /\ NamesOK
  BY DEF StorageInv, TierInv, BornOK, TextInv
<1>2. PICK t \in NodeTypes, f \in Fields : db' = DropPropertyIndex(db, t, f)
  BY DEF DropIndex
<1>3. /\ call' = call /\ acked' = acked /\ exposed' = exposed /\ doomed' = doomed
      /\ unkept' = unkept
  BY DEF DropIndex, history
<1>4. /\ db'.props = {q \in db.props : q[1] # t \/ q[2] # f}
      /\ db'.registry = db.registry \ {<<t, f>>}
      /\ db'.index = db.index /\ db'.types = db.types
      /\ db'.fulltext = db.fulltext /\ db'.ftRegistry = db.ftRegistry /\ db'.docFreq = db.docFreq
  BY <1>1, <1>2 DEF DropPropertyIndex, IsDb, Tables
<1>5. Born' = Born /\ Kept' = Kept
  BY <1>3 DEF Born, Kept, Live
<1>6. NamesOK'
  BY <1>1, <1>4, <1>5 DEF NamesOK
<1>7. ASSUME NEW n \in Kept PROVE NodeText(n)'
  <2>1. NodeText(n) /\ EntriesOK(n)
    BY <1>7 DEF TextInv, NodeText
  <2>2. /\ \A r \in Slots : CallTyped(call[r], n)'
        /\ \A pcs : Busy(n, pcs)' <=> Busy(n, pcs)
    BY <1>3, <1>4, <2>1, RestTyped
  <2>3. PostingsOK(n)'
    BY <1>3, <1>4, <2>1, <2>2, PostingsFrame DEF NodeText
  <2>4. \A q \in db'.props : q[4] = n =>
           q[2] \in DOMAIN acked[n] /\ q[3] = IndexKey(acked[n][q[2]])
    BY <1>4, <2>1 DEF EntriesOK
  <2>5. ASSUME ~Busy(n, {"props"}), NEW g \in DOMAIN acked[n], <<db.index[n].type, g>> \in db'.registry
        PROVE  <<db.index[n].type, g, IndexKey(acked[n][g]), n>> \in db'.props
    <3>1. PICK q : q = <<db.index[n].type, g, IndexKey(acked[n][g]), n>>
      OBVIOUS
    <3>2. q \in db.props
      BY <1>4, <2>1, <2>5, <3>1 DEF EntriesOK
    <3>3. q[1] # t \/ q[2] # f
      BY <1>4, <2>5, <3>1
    <3> QED
      BY <1>4, <3>1, <3>2, <3>3
  <2>6. EntriesOK(n)'
    BY <1>3, <1>4, <2>1, <2>2, <2>4, <2>5 DEF EntriesOK
  <2> QED
    BY <2>2, <2>3, <2>6 DEF NodeText
<1> QED
  BY <1>5, <1>6, <1>7 DEF TextInv

LEMMA TextInit ==
    ASSUME TieredInit
    PROVE  TextInv
<1>1. db = EmptyDb /\ Born = {}
  BY DEF TieredInit, Born
<1>2. /\ db.props = {} /\ db.fulltext = {} /\ db.registry = {} /\ db.ftRegistry = {}
      /\ DOMAIN db.docFreq = {}
  BY <1>1 DEF EmptyDb
<1> QED
  BY <1>1, <1>2 DEF TextInv, NamesOK, Kept, Live

LEMMA TextStep ==
    ASSUME StorageInv, TextInv, TieredNext
    PROVE  TextInv'
<1>1. ASSUME NEW s \in Slots, InsertSteps(s) PROVE TextInv'
  BY <1>1, InsertStartText, InsertIndexesText, OtherQuietText DEF InsertSteps
<1>2. ASSUME NEW s \in Slots, ReadSteps(s) PROVE TextInv'
  BY <1>2, ReadText, UpdateText, ThroughText DEF ReadSteps
<1>3. ASSUME NEW s \in Slots, ListSteps(s) PROVE TextInv'
  BY <1>3, ReadText DEF ListSteps
<1>4. ASSUME NEW s \in Slots, DeleteSteps(s) PROVE TextInv'
  BY <1>4, OtherQuietText, DeleteText DEF DeleteSteps
<1>5. ASSUME NEW s \in Slots, EvictSteps(s) PROVE TextInv'
  BY <1>5, OtherQuietText, IndexReadText, PointText, PayloadText DEF EvictSteps
<1>6. ASSUME NEW s \in Slots, PromoteSteps(s) PROVE TextInv'
  BY <1>6, OtherQuietText, IndexReadText, PointText, PayloadText DEF PromoteSteps
<1>7. ASSUME NEW s \in Slots, GraphSteps(s) PROVE TextInv'
  BY <1>7, EdgeCallsText, OtherQuietText, TxnText DEF GraphSteps
<1>8. ASSUME NEW s \in Slots, IndexSteps(s) PROVE TextInv'
  BY <1>8, BatchText, BatchCacheText, CreateIndexesText, DropIndexText DEF IndexSteps, BatchSteps
<1> QED
  BY <1>1, <1>2, <1>3, <1>4, <1>5, <1>6, <1>7, <1>8, CacheEvictsText, CrashText DEF TieredNext

LEMMA TextStutter ==
    ASSUME StorageInv, TextInv, UNCHANGED tieredVars
    PROVE  TextInv'
<1>1. call' = call /\ db' = db /\ Grows
  BY DEF tieredVars, history, Grows
<1> QED
  BY <1>1, NothingBuilt

(* What a word is found under. *)
LEMMA OneWord ==
    ASSUME NEW w, NEW v
    PROVE  /\ Terms(<<w>>) = {w} \ StopWords
           /\ DOMAIN TermFreqs(v) = Terms(v)
           /\ w \in Terms(v) => w \notin StopWords
<1>1. Range(<<w>>) = {w}
  BY DEF Range
<1> QED
  BY <1>1 DEF Terms, TermFreqs

(* The index entries and postings of a node whose last writer was a completed
   insert_node or index build are those of its properties, for any types,
   fields and values: a lookup neither misses the node nor finds it under
   another value, and BM25 weighs it by its own counts.  Evictions, promotions,
   cache losses, builds and drops never disturb them, nor do the calls,
   transactions and crashes that touch other nodes.  A node that an update, a
   batch, a transaction or an interrupted insert wrote, or that a build passed
   over because its payload was in the bucket, is not claimed to be found. *)
THEOREM IndexesStayExact == TieredSpec => []IndexesExact
<1>1. TextInv => IndexesExact
  <2> SUFFICES ASSUME TextInv, NEW n \in Kept, ~Inserting(n),
                      NEW index \in GetNodeIndex(db, n), NEW f \in Fields,
                      NEW t, t = index.type
               PROVE  /\ f \in IndexedFields(db, t) =>
                            \A v \in Vals : n \in IndexLookup(db, t, f, v)
                               <=> f \in DOMAIN acked[n] /\ IndexKey(acked[n][f]) = IndexKey(v)
                      /\ f \in FulltextFields(db, t) =>
                            \A v \in Vals : v.kind = "s" => \A w \in Range(v.v) :
                               LET there == IF HasText(n, f) THEN TermFreqs(acked[n][f].v) ELSE <<>>
                               IN  /\ n \in FulltextSearch(db, t, f, <<w>>) <=> w \in DOMAIN there
                                   /\ TermCount(db, t, f, n, w)
                                         = IF w \in DOMAIN there THEN there[w] ELSE 0
    BY DEF IndexesExact, Kept, HasText
  <2>1. NamesOK /\ EntriesOK(n) /\ PostingsOK(n) /\ t = db.index[n].type
    BY IndexTyped DEF TextInv, NodeText
  <2>2. ~Busy(n, {"props"}) /\ ~Busy(n, {"props", "text"})
    BY WorksOnIs DEF Inserting, RunsOn, Busy
  <2>3. ASSUME f \in IndexedFields(db, t), NEW v
        PROVE  n \in IndexLookup(db, t, f, v)
                  <=> f \in DOMAIN acked[n] /\ IndexKey(acked[n][f]) = IndexKey(v)
    <3>1. <<t, f>> \in db.registry
      BY <2>1, <2>3, RegisteredIs
    <3>2. n \in IndexLookup(db, t, f, v) <=>
             \E q \in db.props : q[1] = t /\ q[2] = f /\ q[3] = IndexKey(v) /\ q[4] = n
      BY DEF IndexLookup
    <3>3. ASSUME f \in DOMAIN acked[n], IndexKey(acked[n][f]) = IndexKey(v)
          PROVE  \E q \in db.props : q[1] = t /\ q[2] = f /\ q[3] = IndexKey(v) /\ q[4] = n
      <4>1. <<t, f, IndexKey(acked[n][f]), n>> \in db.props
        BY <2>1, <2>2, <3>1, <3>3 DEF EntriesOK
      <4> QED
        BY <3>3, <4>1
    <3>4. ASSUME NEW q \in db.props, q[2] = f, q[3] = IndexKey(v), q[4] = n
          PROVE  f \in DOMAIN acked[n] /\ IndexKey(acked[n][f]) = IndexKey(v)
      BY <2>1, <3>4 DEF EntriesOK
    <3> QED
      BY <3>2, <3>3, <3>4
  <2>4. ASSUME f \in FulltextFields(db, t), NEW w
        PROVE  LET there == IF HasText(n, f) THEN TermFreqs(acked[n][f].v) ELSE <<>>
               IN  /\ n \in FulltextSearch(db, t, f, <<w>>) <=> w \in DOMAIN there
                   /\ TermCount(db, t, f, n, w) = IF w \in DOMAIN there THEN there[w] ELSE 0
    <3> DEFINE there == IF HasText(n, f) THEN TermFreqs(acked[n][f].v) ELSE <<>>
    <3>1. <<t, f>> \in db.ftRegistry
      BY <2>1, <2>4, RegisteredIs
    <3>2. w \in DOMAIN there <=> HasText(n, f) /\ w \in Terms(acked[n][f].v)
      <4>1. CASE HasText(n, f)
        BY <4>1, OneWord
      <4>2. CASE ~HasText(n, f)
        <5>1. DOMAIN there = {}
          BY <4>2
        <5> QED
          BY <4>2, <5>1
      <4> QED
        BY <4>1, <4>2
    <3>3. n \in FulltextSearch(db, t, f, <<w>>) <=>
             \E q \in db.fulltext : q[1] = t /\ q[2] = f /\ q[3] \in {w} \ StopWords /\ q[4] = n
      BY OneWord DEF FulltextSearch
    <3>4. ASSUME HasText(n, f), w \in Terms(acked[n][f].v)
          PROVE  /\ <<t, f, w, n>> \in db.fulltext /\ <<n, t, f>> \in DOMAIN db.docFreq
                 /\ w \notin StopWords
      BY <2>1, <2>2, <3>1, <3>4, OneWord DEF PostingsOK
    <3>5. ASSUME NEW q \in db.fulltext, q[2] = f, q[3] = w, q[4] = n
          PROVE  HasText(n, f) /\ w \in Terms(acked[n][f].v)
      BY <2>1, <3>5 DEF PostingsOK
    <3>6. n \in FulltextSearch(db, t, f, <<w>>) <=> w \in DOMAIN there
      BY <3>2, <3>3, <3>4, <3>5
    <3>7. PICK key : key = <<n, t, f>>
      OBVIOUS
    <3>8. key[1] = n /\ key[3] = f
      BY <3>7
    <3>9. key \in DOMAIN db.docFreq => HasText(n, f) /\ db.docFreq[key] = there
      BY <2>1, <3>8 DEF PostingsOK
    <3>10. TermCount(db, t, f, n, w) = IF key \in DOMAIN db.docFreq /\ w \in DOMAIN db.docFreq[key]
                                       THEN db.docFreq[key][w] ELSE 0
      BY <3>7 DEF TermCount
    <3>11. w \in DOMAIN there => key \in DOMAIN db.docFreq
      BY <3>2, <3>4, <3>7
    <3> HIDE DEF there
    <3>12. TermCount(db, t, f, n, w) = IF w \in DOMAIN there THEN there[w] ELSE 0
      BY <3>9, <3>10, <3>11
    <3> QED
      BY <3>6, <3>12 DEF there
  <2> QED
    BY <2>3, <2>4
<1>2. TieredInit => TextInv
  BY TextInit
<1>3. StorageInv /\ TextInv /\ [TieredNext]_tieredVars => TextInv'
  BY TextStep, TextStutter
<1> QED
  BY <1>1, <1>2, <1>3, StorageInvariant, PTL DEF TieredSpec
==============================================================================
