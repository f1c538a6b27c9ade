---------------------------- MODULE TieredStorage ----------------------------
(***************************************************************************)
(* A v1 database in use (src/storage/tiered.rs, cache.rs, bucket.rs and    *)
(* the Database facade of mod.rs): index, payload and edge rows in the     *)
(* local redb file, payloads also in a cache and, once evicted, in a cloud *)
(* bucket.  Calls run in slots; a call takes one step per redb             *)
(* transaction, cache access or bucket request, since an await or another  *)
(* thread may come in between.  A crash drops the cache and every call.    *)
(*                                                                         *)
(* History variables: acked, what the committed inserts and updates of a   *)
(* node add up to; exposed, the nodes on which calls that Conflict have    *)
(* overlapped or a local payload was promoted; unkept, the nodes whose     *)
(* index entries no call keeps up to date; doomed and gone, the nodes      *)
(* whose delete has begun and has ended; wired, the edge ids used so far.  *)
(***************************************************************************)
EXTENDS LocalStorage, FiniteSets

CONSTANTS
    Nodes, Edges, Fields, Vals, NodeTypes, \* ids and values that calls name
    Docs,           \* property maps inserts write
    Patches,        \* property maps updates merge in
    Slots,          \* calls in flight at once
    MinCloud,       \* min_cloud_payload_bytes
    MaxShed,        \* bytes over the target when an eviction round starts
    WriteThrough,   \* TieredConfig::write_through
    MaxCrashes

ASSUME TieredConstants ==
    /\ MinCloud \in Nat /\ MaxShed \in Nat /\ MaxCrashes \in Nat
    /\ WriteThrough \in BOOLEAN

VARIABLES
    db,             \* the redb tables
    cache,          \* CacheLayer: node -> payload
    bucket,         \* payloads/<id> objects
    call,           \* slot -> the call it runs
    acked, exposed, unkept, doomed, gone, wired, crashes

history == <<acked, exposed, unkept, doomed, gone, wired, crashes>>

tieredVars == <<db, cache, bucket, call, history>>

Idle == [op |-> "idle"]

TieredInit ==
    /\ db = EmptyDb
    /\ cache = <<>>
    /\ bucket = <<>>
    /\ call = [s \in Slots |-> Idle]
    /\ acked = <<>>
    /\ exposed = {}
    /\ unkept = {}
    /\ doomed = {}
    /\ gone = {}
    /\ wired = {}
    /\ crashes = 0

Born == DOMAIN acked

(* The pairs of calls that may not overlap on one node. *)
Conflict(a, b) ==
    \/ a = "update" /\ b \in {"update", "get", "list", "insert", "batch", "evict", "promote"}
    \/ b = "update" /\ a \in {"get", "list", "insert", "batch", "evict", "promote"}
    \/ {a, b} = {"evict", "promote"}

(* The nodes whose payload call c reads or writes, or will. *)
WorksOn(c) ==
    CASE c.op \in {"insert", "get", "update", "delete", "evict", "promote"} -> {c.node}
      [] c.op = "batch" \/ (c.op = "list" /\ c.pc = "next") -> DOMAIN c.todo
      [] c.op = "list" /\ c.pc # "next" -> {c.node} \cup DOMAIN c.todo
      [] OTHER -> {}

RunsOn(s, n) == n \in WorksOn(call[s])

(* Those of the nodes ns on which a call that starts in slot s conflicts. *)
Overlaps(s, op, ns) ==
    {n \in ns : \E r \in Slots \ {s} : RunsOn(r, n) /\ Conflict(op, call[r].op)}

Goes(s, c) == call' = [call EXCEPT ![s] = c]

At(s, op, pc) == call[s].op = op /\ call[s].pc = pc

(* The calls of more than one step, and where they are. *)
InsertCall(n, pc, t, p) == [op |-> "insert", node |-> n, pc |-> pc, type |-> t, props |-> p]

BatchCall(todo) == [op |-> "batch", pc |-> "cache", todo |-> todo]

ReadCall(op, n, index, new, todo) ==
    [op |-> op, node |-> n, pc |-> "resolve", index |-> index, new |-> new, todo |-> todo]

WarmCall(op, n, index, new, todo, p) ==
    [op |-> op, node |-> n, pc |-> "warm", index |-> index, new |-> new, todo |-> todo,
     props |-> p]

ListCall(todo) == [op |-> "list", pc |-> "next", todo |-> todo]

UpdateCall(n, pc, p) == [op |-> "update", node |-> n, pc |-> pc, props |-> p]

DeleteCall(n, pc) == [op |-> "delete", node |-> n, pc |-> pc]

RoundCall(todo, shed) == [op |-> "round", todo |-> todo, shed |-> shed]

EvictCall(n, pc, p, todo, shed) ==
    [op |-> "evict", node |-> n, pc |-> pc, props |-> p, todo |-> todo, shed |-> shed]

PointCall(n, p, todo, shed, index) ==
    [op |-> "evict", node |-> n, pc |-> "point", props |-> p, todo |-> todo, shed |-> shed,
     index |-> index]

PromoteCall(n, pc, p) == [op |-> "promote", node |-> n, pc |-> pc, props |-> p]

-------------------------------------------------------------------------------
(* insert_node: rows, property indexes, full-text indexes, write-through,
   cache.  Ids are fresh.                                                  *)
InsertNodeStart(s) == \E n \in Nodes \ Born, t \in NodeTypes, p \in Docs :
    /\ call[s] = Idle
    /\ db' = InsertNodeTiered(db, n, IndexRecord(t, "local", p), p)
    /\ acked' = Put(acked, n, p)
    /\ Goes(s, InsertCall(n, "props", t, p))
    /\ UNCHANGED <<cache, bucket, exposed, unkept, doomed, gone, wired, crashes>>

(* Mutant: the property indexes are not maintained. *)
InsertNodeIndexes_TextOnly(s) ==
    LET c == call[s] IN
    /\ \/ /\ At(s, "insert", "props")
          /\ db' = db
          /\ Goes(s, InsertCall(c.node, "text", c.type, c.props))
       \/ /\ At(s, "insert", "text")
          /\ db' = UpdateFulltextIndex(db, c.node, c.type, c.props)
          /\ Goes(s, InsertCall(c.node, IF WriteThrough THEN "through" ELSE "cache",
                                c.type, c.props))
    /\ UNCHANGED <<cache, bucket, history>>

InsertNodeIndexes(s) ==
    LET c == call[s] IN
    /\ \/ /\ At(s, "insert", "props")
          /\ db' = UpdatePropertyIndexes(db, c.node, c.type, c.props)
          /\ Goes(s, InsertCall(c.node, "text", c.type, c.props))
       \/ /\ At(s, "insert", "text")
          /\ db' = UpdateFulltextIndex(db, c.node, c.type, c.props)
          /\ Goes(s, InsertCall(c.node, IF WriteThrough THEN "through" ELSE "cache",
                                c.type, c.props))
    /\ UNCHANGED <<cache, bucket, history>>

(* Write-through: a failed put is logged or ignored. *)
WriteThroughStep(s) ==
    LET c == call[s] IN
    /\ c.op \in {"insert", "update"} /\ c.pc = "through"
    /\ \/ bucket' = Put(bucket, c.node, c.props)
       \/ bucket' = bucket
    /\ Goes(s, IF c.op = "insert" THEN InsertCall(c.node, "cache", c.type, c.props) ELSE Idle)
    /\ UNCHANGED <<db, cache, history>>

InsertNodeCache(s) ==
    /\ At(s, "insert", "cache")
    /\ cache' = Put(cache, call[s].node, call[s].props)
    /\ Goes(s, Idle)
    /\ UNCHANGED <<db, bucket, history>>

(* insert_nodes_batch: rows of all nodes, then the cache, node by node.  No
   index is maintained and nothing is written through.                     *)
InsertNodesBatch(s) == \E ns \in SUBSET (Nodes \ Born), t \in NodeTypes, p \in Docs :
    /\ call[s] = Idle /\ ns # {}
    /\ db' = InsertNodesTieredBatch(db,
                [n \in ns |-> [index |-> IndexRecord(t, "local", p), payload |-> p]])
    /\ acked' = Merge(acked, [n \in ns |-> p])
    /\ unkept' = unkept \cup ns
    /\ Goes(s, BatchCall([n \in ns |-> p]))
    /\ UNCHANGED <<cache, bucket, exposed, doomed, gone, wired, crashes>>

BatchCache(s) ==
    LET todo == call[s].todo IN
    /\ call[s].op = "batch"
    /\ \E n \in DOMAIN todo :
          /\ cache' = Put(cache, n, todo[n])
          /\ Goes(s, IF DOMAIN todo = {n} THEN Idle ELSE BatchCall(Without(todo, {n})))
    /\ UNCHANGED <<db, bucket, history>>

-------------------------------------------------------------------------------
(* get_node and update_node read the index record and resolve the payload:
   cache, else local table or bucket by the record's location, which they
   then put in the cache.                                                  *)
ReadStart(s) == \E n \in Born, op \in {"get", "update"}, new \in Patches :
    /\ call[s] = Idle
    /\ \E index \in GetNodeIndex(db, n) :
          Goes(s, ReadCall(op, n, index, IF op = "get" THEN <<>> ELSE new, <<>>))
    /\ exposed' = exposed \cup Overlaps(s, op, {n})
    /\ UNCHANGED <<db, cache, bucket, acked, unkept, doomed, gone, wired, crashes>>

(* get_nodes_by_type reads the index records of the type at once and resolves
   them one after the other; the call fails with the first one that cannot be
   resolved.  get_all_nodes does the same for every type.                  *)
ListStart(s) == \E t \in NodeTypes :
    /\ call[s] = Idle
    /\ LET listed == GetNodeIndexesByType(db, t) IN
       /\ listed # {}
       /\ Goes(s, ListCall([n \in listed |-> CHOOSE index \in GetNodeIndex(db, n) : TRUE]))
       /\ exposed' = exposed \cup Overlaps(s, "list", listed)
    /\ UNCHANGED <<db, cache, bucket, acked, unkept, doomed, gone, wired, crashes>>

ListNext(s) ==
    /\ At(s, "list", "next")
    /\ \E n \in DOMAIN call[s].todo :
          Goes(s, ReadCall("list", n, call[s].todo[n], <<>>, Without(call[s].todo, {n})))
    /\ UNCHANGED <<db, cache, bucket, history>>

(* After the payload is at hand, get is done, a listing goes on, and update
   commits the merge. *)
Resolved(c, payload) ==
    CASE c.op = "update" -> [op |-> "update", node |-> c.node, pc |-> "commit", index |-> c.index,
                             new |-> c.new, props |-> Merge(payload, c.new)]
      [] c.op = "list" /\ DOMAIN c.todo # {} -> ListCall(c.todo)
      [] OTHER -> Idle

ResolveCached(s) ==
    LET c == call[s] IN
    /\ c.op \in {"get", "list", "update"} /\ c.pc = "resolve"
    /\ c.node \in DOMAIN cache
    /\ Goes(s, Resolved(c, cache[c.node]))
    /\ UNCHANGED <<db, cache, bucket, history>>

Fetched(loc, n) ==
    IF loc = "local" THEN GetPayload(db, n)
    ELSE IF n \in DOMAIN bucket THEN {bucket[n]} ELSE {}

(* A missing payload or a failed fetch ends the call with an error. *)
ResolveFetch(s) ==
    LET c == call[s] IN
    /\ c.op \in {"get", "list", "update"} /\ c.pc = "resolve"
    /\ c.node \notin DOMAIN cache
    /\ \/ \E p \in Fetched(c.index.loc, c.node) :
             Goes(s, WarmCall(c.op, c.node, c.index, c.new, c.todo, p))
       \/ /\ c.index.loc = "cloud" \/ Fetched(c.index.loc, c.node) = {}
          /\ Goes(s, Idle)
    /\ UNCHANGED <<db, cache, bucket, history>>

ResolveWarm(s) ==
    LET c == call[s] IN
    /\ c.op \in {"get", "list", "update"} /\ c.pc = "warm"
    /\ cache' = Put(cache, c.node, c.props)
    /\ Goes(s, Resolved(c, c.props))
    /\ UNCHANGED <<db, bucket, history>>

(* update_node's one transaction: index record, payload and legacy row.  The
   property and full-text indexes are left as they are.                    *)
UpdateCommit(s) ==
    LET c == call[s]
        index == IndexRecord(c.index.type, "local", c.props) IN
    /\ At(s, "update", "commit")
    /\ db' = UpdateNodeTiered(db, c.node, index, c.props)
    /\ acked' = Put(acked, c.node, Merge(acked[c.node], c.new))
    /\ unkept' = unkept \cup {c.node}
    /\ Goes(s, UpdateCall(c.node, "cache", c.props))
    /\ UNCHANGED <<cache, bucket, exposed, doomed, gone, wired, crashes>>

UpdateCache(s) ==
    /\ At(s, "update", "cache")
    /\ cache' = Put(cache, call[s].node, call[s].props)
    /\ Goes(s, IF WriteThrough THEN UpdateCall(call[s].node, "through", call[s].props)
               ELSE Idle)
    /\ UNCHANGED <<db, bucket, history>>

-------------------------------------------------------------------------------
(* delete_node: cache, bucket object (a failure is ignored), local rows. *)
DeleteStart(s) == \E n \in Born :
    /\ call[s] = Idle
    /\ cache' = Without(cache, {n})
    /\ doomed' = doomed \cup {n}
    /\ Goes(s, DeleteCall(n, "object"))
    /\ UNCHANGED <<db, bucket, acked, exposed, unkept, gone, wired, crashes>>

DeleteObject(s) ==
    /\ At(s, "delete", "object")
    /\ bucket' \in {bucket, Without(bucket, {call[s].node})}
    /\ Goes(s, DeleteCall(call[s].node, "rows"))
    /\ UNCHANGED <<db, cache, history>>

DeleteRows(s) ==
    /\ At(s, "delete", "rows")
    /\ db' = DeleteNodeTiered(db, call[s].node)
    /\ gone' = IF \E r \in Slots \ {s} : RunsOn(r, call[s].node)
               THEN gone ELSE gone \cup {call[s].node}
    /\ Goes(s, Idle)
    /\ UNCHANGED <<cache, bucket, acked, exposed, unkept, doomed, wired, crashes>>

-------------------------------------------------------------------------------
(* run_eviction: how far the file is over the target is read once, and so are
   the candidates (their order, oldest update first, is left open).        *)
RunEviction(s) == \E shed \in 1 .. MaxShed :
    /\ call[s] = Idle
    /\ Goes(s, RoundCall(EvictionCandidates(db, MinCloud), shed))
    /\ UNCHANGED <<db, cache, bucket, history>>

RunEvictionEnd(s) ==
    /\ call[s].op = "round"
    /\ call[s].todo = {} \/ call[s].shed = 0
    /\ Goes(s, Idle)
    /\ UNCHANGED <<db, cache, bucket, history>>

(* The round that goes on after evict_to_cloud of node n, successful or not. *)
Back(c, n, freed) ==
    RoundCall(c.todo \ {n}, IF c.shed > freed THEN c.shed - freed ELSE 0)

(* evict_to_cloud, for one candidate: payload, upload, index record read,
   index record re-pointed, payload row removed, cache.                    *)
EvictRead(s) == \E n \in (IF call[s].op = "round" THEN call[s].todo ELSE {}) :
    LET c == call[s] IN
    /\ c.shed > 0
    /\ \/ /\ GetPayload(db, n) = {}
          /\ Goes(s, Back(c, n, 0))
          /\ exposed' = exposed
       \/ /\ \E p \in GetPayload(db, n) : Goes(s, EvictCall(n, "upload", p, c.todo, c.shed))
          /\ exposed' = exposed \cup Overlaps(s, "evict", {n})
    /\ UNCHANGED <<db, cache, bucket, acked, unkept, doomed, gone, wired, crashes>>

EvictUpload(s) ==
    LET c == call[s] IN
    /\ At(s, "evict", "upload")
    /\ \/ /\ bucket' = Put(bucket, c.node, c.props)
          /\ Goes(s, EvictCall(c.node, "index", c.props, c.todo, c.shed))
       \/ bucket' = bucket /\ Goes(s, Back(c, c.node, 0))
    /\ UNCHANGED <<db, cache, history>>

(* Mutant: the payload row goes before the index record is re-pointed. *)
EvictIndex_DropsFirst(s) ==
    LET c == call[s] IN
    /\ At(s, "evict", "index")
    /\ db' = DeletePayload(db, c.node)
    /\ \/ \E index \in GetNodeIndex(db, c.node) :
             Goes(s, PointCall(c.node, c.props, c.todo, c.shed, index))
       \/ /\ GetNodeIndex(db, c.node) = {}
          /\ Goes(s, EvictCall(c.node, "drop", c.props, c.todo, c.shed))
    /\ UNCHANGED <<cache, bucket, history>>

EvictIndex(s) ==
    LET c == call[s] IN
    /\ At(s, "evict", "index")
    /\ \/ \E index \in GetNodeIndex(db, c.node) :
             Goes(s, PointCall(c.node, c.props, c.todo, c.shed, index))
       \/ /\ GetNodeIndex(db, c.node) = {}
          /\ Goes(s, EvictCall(c.node, "drop", c.props, c.todo, c.shed))
    /\ UNCHANGED <<db, cache, bucket, history>>

EvictPoint(s) ==
    LET c == call[s] IN
    /\ At(s, "evict", "point")
    /\ db' = UpdateNodeIndex(db, c.node, Relocated(c.index, "cloud"))
    /\ Goes(s, EvictCall(c.node, "drop", c.props, c.todo, c.shed))
    /\ UNCHANGED <<cache, bucket, history>>

EvictDrop(s) ==
    LET c == call[s] IN
    /\ At(s, "evict", "drop")
    /\ db' = DeletePayload(db, c.node)
    /\ Goes(s, EvictCall(c.node, "cache", c.props, c.todo, c.shed))
    /\ UNCHANGED <<cache, bucket, history>>

EvictCache(s) ==
    LET c == call[s] IN
    /\ At(s, "evict", "cache")
    /\ cache' = Put(cache, c.node, c.props)
    /\ Goes(s, Back(c, c.node, Cardinality(DOMAIN c.props)))
    /\ UNCHANGED <<db, bucket, history>>

(* promote_to_local writes back whatever the bucket holds: it never looks at
   payload_location, so promoting a local payload may undo an update.      *)
PromoteFetch(s) == \E n \in Born :
    /\ call[s] = Idle
    /\ n \in DOMAIN bucket
    /\ Goes(s, PromoteCall(n, "write", bucket[n]))
    /\ exposed' = exposed \cup Overlaps(s, "promote", {n}) \cup
          (IF \E index \in GetNodeIndex(db, n) : index.loc = "local" THEN {n} ELSE {})
    /\ UNCHANGED <<db, cache, bucket, acked, unkept, doomed, gone, wired, crashes>>

PromoteWrite(s) ==
    /\ At(s, "promote", "write")
    /\ db' = PutPayload(db, call[s].node, call[s].props)
    /\ Goes(s, PromoteCall(call[s].node, "index", call[s].props))
    /\ UNCHANGED <<cache, bucket, history>>

PromoteIndex(s) ==
    LET c == call[s] IN
    /\ At(s, "promote", "index")
    /\ Goes(s, IF GetNodeIndex(db, c.node) = {} THEN Idle
               ELSE [op |-> "promote", node |-> c.node, pc |-> "point",
                     index |-> CHOOSE index \in GetNodeIndex(db, c.node) : TRUE])
    /\ UNCHANGED <<db, cache, bucket, history>>

PromotePoint(s) ==
    LET c == call[s] IN
    /\ At(s, "promote", "point")
    /\ db' = UpdateNodeIndex(db, c.node, Relocated(c.index, "local"))
    /\ Goes(s, Idle)
    /\ UNCHANGED <<cache, bucket, history>>

(* prefetch_neighbors, for one neighbour that is not cached: a read of the
   local payload that ends in the cache.                                   *)
Prefetch(s) == \E n \in Nodes, e \in Edges :
    /\ call[s] = Idle
    /\ e \in GetEdgesFrom(db, n)
    /\ LET m == db.edges[e].to IN
       /\ m \notin DOMAIN cache
       /\ \E p \in GetPayload(db, m) :
             Goes(s, WarmCall("get", m, IndexRecord("none", "local", p), <<>>, <<>>, p))
       /\ exposed' = exposed \cup Overlaps(s, "get", {m})
    /\ UNCHANGED <<db, cache, bucket, acked, unkept, doomed, gone, wired, crashes>>

(* moka drops entries by size, age or idleness whenever it likes. *)
CacheEvicts == \E n \in DOMAIN cache :
    /\ cache' = Without(cache, {n})
    /\ UNCHANGED <<db, bucket, call, history>>

-------------------------------------------------------------------------------
(* Calls that are one transaction on local tables. *)

EdgeRows == [from : Nodes, to : Nodes, type : {"t"}]

CreateEdge(s) == \E e \in Edges \ wired, row \in EdgeRows :
    /\ call[s] = Idle
    /\ db' = InsertEdge(db, e, row)
    /\ wired' = wired \cup {e}
    /\ UNCHANGED <<cache, bucket, call, acked, exposed, unkept, doomed, gone, crashes>>

CreateEdgesBatch(s) == \E row, other \in EdgeRows :
    /\ call[s] = Idle
    /\ wired = {}
    /\ LET first == CHOOSE e \in Edges : TRUE
       IN  db' = InsertEdgesBatch(db, [e \in Edges |-> IF e = first THEN row ELSE other])
    /\ wired' = Edges
    /\ UNCHANGED <<cache, bucket, call, acked, exposed, unkept, doomed, gone, crashes>>

RemoveEdge(s) == \E e \in Edges :
    /\ call[s] = Idle
    /\ db' = DeleteEdge(db, e)
    /\ UNCHANGED <<cache, bucket, call, history>>

(* Database::create_index and create_fulltext_index pass over the nodes whose
   payload is in the bucket.                                               *)
CreateIndexes(s) == \E t \in NodeTypes, f \in Fields :
    /\ call[s] = Idle
    /\ db' \in {CreatePropertyIndex(db, t, f), CreateFulltextIndex(db, t, f)}
    /\ unkept' = unkept \cup {n \in Born \ Scanned(db, t) : <<t, n>> \in db.types}
    /\ UNCHANGED <<cache, bucket, call, acked, exposed, doomed, gone, wired, crashes>>

DropIndex(s) == \E t \in NodeTypes, f \in Fields :
    /\ call[s] = Idle
    /\ db' = DropPropertyIndex(db, t, f)
    /\ UNCHANGED <<cache, bucket, call, history>>

(* LocalStorage::begin_transaction .. commit works on legacy rows; on a node
   with tiered rows it changes nothing a tiered read looks at.             *)
TxnOps ==
    [op : {"InsertNode"}, node : Nodes \ Born, type : NodeTypes, props : Docs]
    \cup [op : {"UpdateNode"}, node : Born, props : Patches]
    \cup [op : {"DeleteNode"}, node : Born]
    \cup [op : {"InsertEdge"}, edge : Edges \ wired, row : EdgeRows]
    \cup [op : {"DeleteEdge"}, edge : Edges]

TxnCommit(s) == \E op \in TxnOps :
    LET named  == IF op.op \in {"InsertNode", "UpdateNode", "DeleteNode"} THEN {op.node} ELSE {}
        legacy == named \ DOMAIN db.index IN
    /\ call[s] = Idle
    /\ db' = Commit(db, <<op>>)
    /\ acked' = CASE op.op = "InsertNode" -> Put(acked, op.node, op.props)
                  [] op.op = "UpdateNode" /\ op.node \in DOMAIN db.nodes ->
                        Put(acked, op.node, Merge(acked[op.node], op.props))
                  [] OTHER -> acked
    /\ exposed' = exposed \cup (named \ legacy)
          \cup {n \in named : n \in DOMAIN cache \/ \E r \in Slots : RunsOn(r, n)}
    /\ unkept' = unkept \cup named
    /\ doomed' = IF op.op = "DeleteNode" THEN doomed \cup legacy ELSE doomed
    /\ gone' = IF op.op = "DeleteNode" THEN gone \cup legacy ELSE gone
    /\ wired' = IF op.op = "InsertEdge" THEN wired \cup {op.edge} ELSE wired
    /\ UNCHANGED <<cache, bucket, call, crashes>>

(* The process dies and the database is opened again: the cache is empty and
   migrate_to_tiered runs.                                                 *)
CrashAndOpen ==
    /\ crashes < MaxCrashes
    /\ db' = MigrateToTiered(db)
    /\ cache' = <<>>
    /\ call' = [s \in Slots |-> Idle]
    /\ unkept' = unkept \cup
          {n \in Born : \E s \in Slots : RunsOn(s, n) /\ call[s].op = "insert"}
    /\ crashes' = crashes + 1
    /\ UNCHANGED <<bucket, acked, exposed, doomed, gone, wired>>

-------------------------------------------------------------------------------
InsertSteps(s) == InsertNodeStart(s) \/ InsertNodeIndexes(s) \/ InsertNodeCache(s)

ListSteps(s) == ListStart(s) \/ ListNext(s)

ReadSteps(s) ==
    ReadStart(s) \/ ResolveCached(s) \/ ResolveFetch(s) \/ ResolveWarm(s)
    \/ UpdateCommit(s) \/ UpdateCache(s) \/ WriteThroughStep(s)

DeleteSteps(s) == DeleteStart(s) \/ DeleteObject(s) \/ DeleteRows(s)

EvictSteps(s) ==
    RunEviction(s) \/ RunEvictionEnd(s) \/ EvictRead(s) \/ EvictUpload(s)
    \/ EvictIndex(s) \/ EvictPoint(s) \/ EvictDrop(s) \/ EvictCache(s)

PromoteSteps(s) ==
    PromoteFetch(s) \/ PromoteWrite(s) \/ PromoteIndex(s) \/ PromotePoint(s)

GraphSteps(s) ==
    CreateEdge(s) \/ CreateEdgesBatch(s) \/ RemoveEdge(s) \/ Prefetch(s) \/ TxnCommit(s)

BatchSteps(s) == InsertNodesBatch(s) \/ BatchCache(s)

IndexSteps(s) == BatchSteps(s) \/ CreateIndexes(s) \/ DropIndex(s)

TieredNext ==
    \/ \E s \in Slots : \/ InsertSteps(s) \/ ReadSteps(s) \/ ListSteps(s) \/ DeleteSteps(s)
                         \/ EvictSteps(s) \/ PromoteSteps(s)
                         \/ GraphSteps(s) \/ IndexSteps(s)
    \/ CacheEvicts
    \/ CrashAndOpen

TieredSpec == TieredInit /\ [][TieredNext]_tieredVars

-------------------------------------------------------------------------------
Live == Born \ doomed

Inserting(n) == \E s \in Slots : RunsOn(s, n) /\ call[s].op = "insert"

(* What a read that finds nothing in the cache is answered with. *)
Durable(n) == UNION {Fetched(index.loc, n) : index \in GetNodeIndex(db, n)}

(* No acknowledged write is lost to a reader, in the cache or behind it, by
   evictions, promotions, failed uploads and crashes between any two steps, as
   long as no two calls that Conflict overlap on the node: an index record
   never points at a tier that does not hold the node's last payload, and a
   get or a listing fails for want of a local payload only when the index
   record it goes by has been replaced since it was read.  And a
   node whose delete ran by itself is found neither by id nor by type, and no
   later crash, migration or eviction brings it back.                      *)
WritesSurvive ==
    /\ \A n \in Live \ exposed :
          /\ Durable(n) = {acked[n]}
          /\ n \in DOMAIN cache =>
                \/ cache[n] = acked[n]
                \/ \E s \in Slots : At(s, "update", "cache") /\ call[s].node = n
    /\ \A s \in Slots : call[s].op \in {"get", "list"} /\ call[s].pc = "resolve" =>
          LET c == call[s] IN
          \/ c.node \in doomed \cup exposed \cup DOMAIN cache
          \/ Fetched(c.index.loc, c.node) # {} \/ GetNodeIndex(db, c.node) # {c.index}
    /\ \A n \in gone \ exposed :
          /\ GetNodeIndex(db, n) = {}
          /\ \A t \in NodeTypes : n \notin GetNodeIndexesByType(db, t)

(* Walking the from-index or the to-index gives exactly the edges of the
   EDGES table at that end, although deletes leave entries of removed edges
   behind in the other endpoint's index.                                   *)
EdgeReadersAgree ==
    \A n \in Nodes :
        /\ GetEdgesFrom(db, n) = {e \in DOMAIN db.edges : db.edges[e].from = n}
        /\ GetEdgesTo(db, n) = {e \in DOMAIN db.edges : db.edges[e].to = n}

(* The index entries and postings of a node that insert_node or an index build
   saw, and that no call has rewritten since, are those of its properties,
   wherever its payload has moved: a lookup neither misses it nor finds it
   under another value.                                                    *)
IndexesExact ==
    \A n \in Live \ (unkept \cup exposed) : ~Inserting(n) =>
        \A index \in GetNodeIndex(db, n), f \in Fields :
            LET t == index.type IN
            /\ f \in IndexedFields(db, t) =>
                  \A v \in Vals : n \in IndexLookup(db, t, f, v)
                        <=> f \in DOMAIN acked[n] /\ IndexKey(acked[n][f]) = IndexKey(v)
            /\ f \in FulltextFields(db, t) =>
                  \A v \in Vals : v.kind = "s" => \A w \in Range(v.v) :
                     LET there == IF f \in DOMAIN acked[n] /\ acked[n][f].kind = "s"
                                  THEN TermFreqs(acked[n][f].v) ELSE <<>>
                     IN  /\ n \in FulltextSearch(db, t, f, <<w>>) <=> w \in DOMAIN there
                         /\ TermCount(db, t, f, n, w)
                               = IF w \in DOMAIN there THEN there[w] ELSE 0
================================================================================
