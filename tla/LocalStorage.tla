----------------------------- MODULE LocalStorage -----------------------------
(***************************************************************************)
(* The redb tables of a v1 database (src/storage/local.rs) and what each   *)
(* LocalStorage call does to them.  Every call is one redb transaction     *)
(* under the write lock, so it is one function from a database value to    *)
(* the next; the modules that use it decide how calls interleave.          *)
(*                                                                         *)
(* A table is a partial function, a multimap table a set of pairs.  A      *)
(* property map is a partial function from fields to values; a value is    *)
(* [kind, v]: text ("s") is its sequence of words, a float ("f") the       *)
(* sequence of its length in units of 10^-11.  Timestamps are left out.    *)
(***************************************************************************)
EXTENDS Integers, Sequences, SequencesExt

Without(f, keys) == Restrict(f, DOMAIN f \ keys)

(* LocalStorage::create: every table, empty. *)
EmptyDb ==
    [nodes |-> <<>>, index |-> <<>>, payloads |-> <<>>, edges |-> <<>>,
     types |-> {}, from |-> {}, to |-> {}, etypes |-> {},
     props |-> {}, registry |-> {},
     fulltext |-> {}, ftRegistry |-> {}, docFreq |-> <<>>]

(* One key of a table, or several, inserted or overwritten. *)
Put(f, k, v) == [x \in DOMAIN f \cup {k} |-> IF x = k THEN v ELSE f[x]]

Merge(old, new) ==
    [x \in DOMAIN old \cup DOMAIN new |-> IF x \in DOMAIN new THEN new[x] ELSE old[x]]

(* NodeIndex::from_node; a payload's size is its number of properties. *)
IndexRecord(type, loc, props) ==
    [type |-> type, loc |-> loc, size |-> Cardinality(DOMAIN props)]

Relocated(index, loc) == [type |-> index.type, loc |-> loc, size |-> index.size]

-------------------------------------------------------------------------------
(* Legacy rows: full nodes in NODES_TABLE. *)

InsertNode(db, n, type, props) ==
    [db EXCEPT !.nodes = Put(@, n, [type |-> type, props |-> props]),
               !.types = @ \cup {<<type, n>>}]

GetNode(db, n) == IF n \in DOMAIN db.nodes THEN {db.nodes[n]} ELSE {}

UpdateNode(db, n, new) ==
    [db EXCEPT !.nodes = Put(@, n, [type |-> @[n].type, props |-> Merge(@[n].props, new)])]

(* Edges leaving n go from EDGES and from n's from-index, then edges reaching
   n from EDGES and n's to-index: the other endpoint's index and the edge
   type index keep their entries, and the readers skip them.               *)
DropEdges(db, n) ==
    LET leaving == {e \in {p[2] : p \in db.from} : <<n, e>> \in db.from}
        half    == [db EXCEPT !.edges = Without(@, leaving),
                              !.from = @ \ ({n} \X leaving)]
        coming  == {e \in {p[2] : p \in half.to} : <<n, e>> \in half.to}
    IN  [half EXCEPT !.edges = Without(@, coming),
                     !.to = @ \ ({n} \X coming)]

DeleteNode(db, n) ==
    LET type == IF n \in DOMAIN db.nodes THEN {db.nodes[n].type} ELSE {}
    IN  DropEdges([db EXCEPT !.types = @ \ (type \X {n}),
                             !.nodes = Without(@, {n})], n)

GetNodesByType(db, type) ==
    {n \in DOMAIN db.nodes : <<type, n>> \in db.types}

GetAllNodes(db) == DOMAIN db.nodes

-------------------------------------------------------------------------------
(* Edges.  Nothing checks that the endpoints exist. *)

(* Mutant: the to-index is not written. *)
InsertEdge_NoTo(db, e, edge) ==
    [db EXCEPT !.edges = Put(@, e, edge),
               !.from = @ \cup {<<edge.from, e>>},
               !.etypes = @ \cup {<<edge.type, e>>}]

InsertEdge(db, e, edge) ==
    [db EXCEPT !.edges = Put(@, e, edge),
               !.from = @ \cup {<<edge.from, e>>},
               !.to = @ \cup {<<edge.to, e>>},
               !.etypes = @ \cup {<<edge.type, e>>}]

InsertEdgesBatch(db, batch) ==
    [db EXCEPT !.edges = Merge(@, batch),
               !.from = @ \cup {<<batch[e].from, e>> : e \in DOMAIN batch},
               !.to = @ \cup {<<batch[e].to, e>> : e \in DOMAIN batch},
               !.etypes = @ \cup {<<batch[e].type, e>> : e \in DOMAIN batch}]

GetEdge(db, e) == IF e \in DOMAIN db.edges THEN {db.edges[e]} ELSE {}

(* The readers walk an index and skip the ids EDGES no longer has. *)
GetEdgesFrom(db, n) == {e \in DOMAIN db.edges : <<n, e>> \in db.from}

GetEdgesTo(db, n) == {e \in DOMAIN db.edges : <<n, e>> \in db.to}

GetEdgesByType(db, type) == {e \in DOMAIN db.edges : <<type, e>> \in db.etypes}

DeleteEdge(db, e) ==
    IF e \notin DOMAIN db.edges THEN db
    ELSE LET edge == db.edges[e]
         IN  [db EXCEPT !.from = @ \ {<<edge.from, e>>},
                        !.to = @ \ {<<edge.to, e>>},
                        !.etypes = @ \ {<<edge.type, e>>},
                        !.edges = Without(@, {e})]

-------------------------------------------------------------------------------
(* Tiered rows: an index record and, while it is local, a payload. *)

InsertNodeTiered(db, n, index, payload) ==
    [db EXCEPT !.index = Put(@, n, index),
               !.payloads = Put(@, n, payload),
               !.types = @ \cup {<<index.type, n>>}]

(* insert_nodes_tiered_batch: one transaction for all rows. *)
InsertNodesTieredBatch(db, rows) ==
    [db EXCEPT !.index = Merge(@, [n \in DOMAIN rows |-> rows[n].index]),
               !.payloads = Merge(@, [n \in DOMAIN rows |-> rows[n].payload]),
               !.types = @ \cup {<<rows[n].index.type, n>> : n \in DOMAIN rows}]

(* The index row, else one made up from the legacy row. *)
GetNodeIndex(db, n) ==
    IF n \in DOMAIN db.index THEN {db.index[n]}
    ELSE {IndexRecord(row.type, "local", row.props) : row \in GetNode(db, n)}

GetPayload(db, n) ==
    IF n \in DOMAIN db.payloads THEN {db.payloads[n]}
    ELSE {row.props : row \in GetNode(db, n)}

PutPayload(db, n, payload) == [db EXCEPT !.payloads = Put(@, n, payload)]

DeletePayload(db, n) == [db EXCEPT !.payloads = Without(@, {n})]

UpdateNodeIndex(db, n, index) == [db EXCEPT !.index = Put(@, n, index)]

(* update_node_tiered writes the legacy row too, and creates it if need be. *)
UpdateNodeTiered(db, n, index, payload) ==
    [db EXCEPT !.index = Put(@, n, index),
               !.payloads = Put(@, n, payload),
               !.nodes = Put(@, n, [type |-> index.type, props |-> payload])]

DeleteNodeTiered(db, n) ==
    DropEdges([db EXCEPT !.types = @ \ ({ix.type : ix \in GetNodeIndex(db, n)} \X {n}),
                         !.index = Without(@, {n}),
                         !.payloads = Without(@, {n}),
                         !.nodes = Without(@, {n})], n)

GetNodeIndexesByType(db, type) ==
    {n \in DOMAIN db.index \cup DOMAIN db.nodes : <<type, n>> \in db.types}

(* Legacy rows count only while the index table is empty. *)
GetAllNodeIndexes(db) ==
    IF DOMAIN db.index # {} THEN DOMAIN db.index ELSE DOMAIN db.nodes

EvictionCandidates(db, minSize) ==
    {n \in DOMAIN db.index : db.index[n].loc = "local" /\ db.index[n].size >= minSize}

(* migrate_to_tiered does nothing once the index table has a row; it writes no
   type index entries: the legacy rows already have theirs.                *)
MigrateToTiered(db) ==
    IF DOMAIN db.index # {} THEN db
    ELSE [db EXCEPT
            !.index = [n \in DOMAIN db.nodes |->
                          IndexRecord(db.nodes[n].type, "local", db.nodes[n].props)],
            !.payloads = Merge(@, [n \in DOMAIN db.nodes |-> db.nodes[n].props])]

-------------------------------------------------------------------------------
(* Property and full-text indexes.  Entries are only ever added, except by
   drop_property_index.                                                    *)

(* make_property_index_key: a float is rounded to ten decimals. *)
IndexKey(value) ==
    IF value.kind = "f"
    THEN [kind |-> "f", v |-> [i \in 1 .. (Len(value.v) + 5) \div 10 |-> 0]]
    ELSE value

(* The nodes an index build visits: typed, indexed, payload at hand.  An
   evicted payload is not fetched.                                         *)
Scanned(db, type) ==
    {n \in DOMAIN db.index \cap DOMAIN db.payloads : <<type, n>> \in db.types}

CreatePropertyIndex(db, type, field) ==
    IF <<type, field>> \in db.registry THEN db
    ELSE [db EXCEPT
            !.props = @ \cup {<<type, field, IndexKey(db.payloads[n][field]), n>> :
                              n \in {m \in Scanned(db, type) :
                                        field \in DOMAIN db.payloads[m]}},
            !.registry = @ \cup {<<type, field>>}]

DropPropertyIndex(db, type, field) ==
    [db EXCEPT !.props = {p \in @ : p[1] # type \/ p[2] # field},
               !.registry = @ \ {<<type, field>>}]

(* index_lookup: no answer at all when the field has no index. *)
IndexLookup(db, type, field, value) ==
    {p[4] : p \in {q \in db.props : q[1] = type /\ q[2] = field
                                       /\ q[3] = IndexKey(value)}}

IndexedFields(db, type) == {r[2] : r \in {q \in db.registry : q[1] = type}}

UpdatePropertyIndexes(db, n, type, props) ==
    [db EXCEPT !.props = @ \cup
        {<<type, f, IndexKey(props[f]), n>> : f \in IndexedFields(db, type) \cap DOMAIN props}]

StopWords == {"the"}

(* tokenize, as the sequence a query is read by and as the set that counts
   and postings depend on.                                                 *)
Tokenize(words) == SelectSeq(words, LAMBDA w : w \notin StopWords)

Terms(words) == Range(words) \ StopWords

(* tokenize_and_count *)
TermFreqs(words) == [t \in Terms(words) |-> Cardinality({i \in DOMAIN words : words[i] = t})]

(* The texts of <<node, field>> pairs, as the postings and the term counts they
   add.  Postings of words a text no longer has stay; the term counts are
   replaced.                                                               *)
IndexTexts(db, type, texts) ==
    [db EXCEPT
        !.fulltext = @ \cup UNION {{<<type, d[2], t, d[1]>> : t \in Terms(texts[d])} :
                                      d \in DOMAIN texts},
        !.docFreq = Merge(@, [k \in {<<d[1], type, d[2]>> : d \in DOMAIN texts} |->
                                 TermFreqs(texts[<<k[1], k[3]>>])])]

(* The build passes over a text without a token; an insert records it. *)
CreateFulltextIndex(db, type, field) ==
    IF <<type, field>> \in db.ftRegistry THEN db
    ELSE LET docs == {n \in Scanned(db, type) :
                         /\ field \in DOMAIN db.payloads[n]
                         /\ db.payloads[n][field].kind = "s"
                         /\ Terms(db.payloads[n][field].v) # {}}
         IN  IndexTexts([db EXCEPT !.ftRegistry = @ \cup {<<type, field>>}], type,
                        [d \in docs \X {field} |-> db.payloads[d[1]][field].v])

FulltextFields(db, type) == {r[2] : r \in {q \in db.ftRegistry : q[1] = type}}

UpdateFulltextIndex(db, n, type, props) ==
    LET texts == {f \in FulltextFields(db, type) \cap DOMAIN props : props[f].kind = "s"}
    IN  IndexTexts(db, type, [d \in {n} \X texts |-> props[d[2]].v])

(* fulltext_search before the ranking: the nodes a query word is posted for,
   whatever has become of them.                                            *)
FulltextSearch(db, type, field, words) ==
    {p[4] : p \in {q \in db.fulltext : q[1] = type /\ q[2] = field
                                          /\ q[3] \in Terms(words)}}

(* The term count BM25 weighs a posting by: 0 for a word since overwritten. *)
TermCount(db, type, field, n, word) ==
    LET key == <<n, type, field>>
    IN  IF key \in DOMAIN db.docFreq /\ word \in DOMAIN db.docFreq[key]
        THEN db.docFreq[key][word] ELSE 0

-------------------------------------------------------------------------------
(* Transaction::commit: the buffered operations in one redb transaction, each
   written to fewer tables than the call of the same name.                 *)
CommitOp(db, op) ==
    CASE op.op = "InsertNode" -> InsertNode(db, op.node, op.type, op.props)
      [] op.op = "UpdateNode" -> IF op.node \in DOMAIN db.nodes
                                 THEN UpdateNode(db, op.node, op.props) ELSE db
      [] op.op = "DeleteNode" -> [db EXCEPT !.nodes = Without(@, {op.node})]
      [] op.op = "InsertEdge" -> [db EXCEPT
                                    !.edges = Put(@, op.edge, op.row),
                                    !.from = @ \cup {<<op.row.from, op.edge>>},
                                    !.to = @ \cup {<<op.row.to, op.edge>>}]
      [] op.op = "DeleteEdge" -> [db EXCEPT !.edges = Without(@, {op.edge})]

Commit(db, ops) == FoldLeft(CommitOp, db, ops)
================================================================================
