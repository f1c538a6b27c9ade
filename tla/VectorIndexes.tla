----------------------------- MODULE VectorIndexes -----------------------------
(***************************************************************************)
(* Embeddings of one (node type, field) of a v1 database: the stored rows, *)
(* the managed HNSW-like index (src/storage/vector_index.rs) and the calls *)
(* of src/storage/mod.rs that keep the two in step.  A call takes one step *)
(* per storage access, per look at the map of indexes and per index        *)
(* operation.  Index objects outlive their place in the map: a call may    *)
(* still hold one that rebuild_vector_index has replaced.                  *)
(*                                                                         *)
(* A normalised vector is [dim, at]: its dimension and a point on a line,  *)
(* so that distance is |a - b|.                                            *)
(***************************************************************************)
EXTENDS Integers, Sequences, FiniteSets, SequencesExt

CONSTANTS
    VecIds,         \* node ids
    VecPoints,      \* positions vectors and queries take
    Dims,           \* dimensions
    Layer,          \* random_layer of an id
    MaxConn,        \* max_connections, 16 in the code
    Ef,             \* ef_construction, 100 in the code
    VecCalls,       \* calls in flight
    MaxIndexes,     \* index objects ever made
    MaxReopens

ASSUME VectorConstants ==
    /\ MaxConn \in Nat \ {0} /\ Ef \in Nat /\ Ef > MaxConn
    /\ VecPoints \subseteq Int
    /\ Layer \in [VecIds -> Nat]
    /\ MaxIndexes \in Nat /\ MaxReopens \in Nat

VARIABLES
    vrows,          \* id -> vector, the nodes that have the field
    indexes,        \* every index object made
    managed,        \* which of them the map holds, 0 for none
    vcall,          \* VecCalls -> the call it runs
    reopens,
    embedded,       \* ids handed out: they are never used again
    unlisted        \* history: rows the managed index was not given as they are

vectorVars == <<vrows, indexes, managed, vcall, reopens, embedded, unlisted>>

-------------------------------------------------------------------------------
(* VectorIndex.  Only layer 0 is ever linked; a higher layer makes an entry
   the entry point.  "crowded" is history: a link was refused for want of
   room.                                                                   *)

NewIndex(dim) ==
    [dim |-> dim, vecs |-> <<>>, nbrs |-> <<>>, entry |-> {}, crowded |-> FALSE]

Distance(a, b) == IF a > b THEN a - b ELSE b - a

Nearest(ix, q, ids) ==
    CHOOSE i \in ids : \A j \in ids : Distance(q, ix.vecs[i]) <= Distance(q, ix.vecs[j])

Farthest(ix, q, ids) ==
    CHOOSE i \in ids : \A j \in ids : Distance(q, ix.vecs[i]) >= Distance(q, ix.vecs[j])

(* A neighbour seen for the first time joins the candidates and the results
   if it beats the worst of ef results or there is room.                   *)
Visit(ix, q, ef, acc, id) ==
    IF id \in acc.seen \/ id \notin DOMAIN ix.vecs THEN acc
    ELSE LET worst == Farthest(ix, q, acc.res)
             in    == Distance(q, ix.vecs[id]) < Distance(q, ix.vecs[worst])
                         \/ Cardinality(acc.res) < ef
             res   == acc.res \cup {id}
         IN  IF ~in THEN [acc EXCEPT !.seen = @ \cup {id}]
             ELSE [seen |-> acc.seen \cup {id},
                   cand |-> acc.cand \cup {id},
                   res  |-> IF Cardinality(res) > ef
                            THEN res \ {Farthest(ix, q, res)} ELSE res]

RECURSIVE Explore(_, _, _, _)
Explore(ix, q, ef, acc) ==
    IF acc.cand = {} THEN acc.res
    ELSE LET now   == Nearest(ix, q, acc.cand)
             worst == Farthest(ix, q, acc.res)
         IN  IF Distance(q, ix.vecs[now]) > Distance(q, ix.vecs[worst])
                   /\ Cardinality(acc.res) >= ef
             THEN acc.res
             ELSE Explore(ix, q, ef,
                     FoldLeft(LAMBDA a, id : Visit(ix, q, ef, a, id),
                              [acc EXCEPT !.cand = @ \ {now}], ix.nbrs[now]))

(* search_layer: the results, nearest first. *)
SearchLayer(ix, q, ef) ==
    LET start == [seen |-> ix.entry, cand |-> ix.entry, res |-> ix.entry]
    IN  SetToSortSeq(Explore(ix, q, ef, start),
            LAMBDA i, j : Distance(q, ix.vecs[i]) < Distance(q, ix.vecs[j]))

Take(s, n) == SubSeq(s, 1, IF n < Len(s) THEN n ELSE Len(s))

IndexSearch(ix, q, k) ==
    IF DOMAIN ix.vecs = {} THEN <<>>
    ELSE Take(SearchLayer(ix, q, IF k > Ef THEN k ELSE Ef), k)


(* insert: link to the nearest entries, and them back while they have room.
   An id inserted again finds itself.                                      *)
IndexInsert(ix, id, at) ==
    LET first == DOMAIN ix.vecs = {}
        found == IF first THEN <<>> ELSE SearchLayer(ix, at, Ef)
        near  == Take(found, MaxConn)
        room(n) == Len(ix.nbrs[n]) < MaxConn
    IN  [ix EXCEPT
           !.vecs  = (id :> at) @@ @,
           !.nbrs  = (id :> near) @@
                     [n \in DOMAIN @ |-> IF n \in Range(near) /\ room(n)
                                         THEN Append(@[n], id) ELSE @[n]],
           !.entry = IF first \/ Layer[id] > 0 THEN {id} ELSE @,
           !.crowded = @ \/ near # found \/ \E n \in Range(near) \ {id} : ~room(n)]

(* remove: links from the removed entry's own neighbours go; if it was the
   entry point, any entry takes its place.                                 *)
IndexRemove(ix, id) ==
    LET rest  == DOMAIN ix.vecs \ {id}
        strip(n) == IF n \in Range(ix.nbrs[id])
                    THEN SelectSeq(ix.nbrs[n], LAMBDA m : m # id) ELSE ix.nbrs[n]
        heirs == IF ix.entry # {id} THEN {ix.entry}
                 ELSE IF rest = {} THEN {{}} ELSE {{n} : n \in rest}
    IN  {[ix EXCEPT !.vecs = Restrict(@, rest), !.nbrs = [n \in rest |-> strip(n)],
                    !.entry = e] : e \in heirs}

-------------------------------------------------------------------------------
Quiet == [op |-> "none"]

VectorInit ==
    /\ vrows = <<>> /\ indexes = <<>> /\ managed = 0
    /\ vcall = [c \in VecCalls |-> Quiet]
    /\ reopens = 0 /\ embedded = {} /\ unlisted = {}

Becomes(c, new) == vcall' = [vcall EXCEPT ![c] = new]

Runs(c, op, pc) == vcall[c].op = op /\ vcall[c].pc = pc

Vectors == [dim : Dims, at : VecPoints]

(* get_or_create_vector_index: the index a call goes on with. *)
GetOrCreate(dim, new) ==
    IF managed # 0 THEN UNCHANGED <<indexes, managed>> /\ new = managed
    ELSE /\ Len(indexes) < MaxIndexes
         /\ indexes' = Append(indexes, NewIndex(dim))
         /\ managed' = new /\ new = Len(indexes) + 1

(* A vector of another dimension is refused, with a warning or none. *)
Inserted(ix, id, vec) == IF vec.dim = ix.dim THEN IndexInsert(ix, id, vec.at) ELSE ix

(* insert_with_embedding: row, index found or created, index entry. *)
EmbedRow(c) == \E id \in VecIds \ embedded, v \in Vectors :
    /\ vcall[c] = Quiet
    /\ vrows' = (id :> v) @@ vrows
    /\ embedded' = embedded \cup {id}
    /\ Becomes(c, [op |-> "embed", pc |-> "find", id |-> id, vec |-> v])
    /\ UNCHANGED <<indexes, managed, reopens, unlisted>>

EmbedFind(c) == \E new \in 1 .. MaxIndexes :
    /\ Runs(c, "embed", "find")
    /\ GetOrCreate(vcall[c].vec.dim, new)
    /\ Becomes(c, [vcall[c] EXCEPT !.pc = "insert"] @@ [index |-> new])
    /\ UNCHANGED <<vrows, reopens, unlisted, embedded>>

EmbedInsert(c) ==
    /\ Runs(c, "embed", "insert")
    /\ indexes' = [indexes EXCEPT ![vcall[c].index] =
                      Inserted(@, vcall[c].id, vcall[c].vec)]
    /\ Becomes(c, Quiet)
    /\ UNCHANGED <<vrows, managed, reopens, unlisted, embedded>>

(* insert_node, or insert_nodes_batch in one transaction, of nodes with a
   `$vector` field: rows, and no index is told.                            *)
InsertRows(c) == \E ids \in SUBSET (VecIds \ embedded) \ {{}} : \E new \in [ids -> Vectors] :
    /\ vcall[c] = Quiet
    /\ vrows' = new @@ vrows
    /\ embedded' = embedded \cup ids
    /\ unlisted' = unlisted \cup ids
    /\ UNCHANGED <<indexes, managed, vcall, reopens>>

(* update_node of a node with the field: another vector, or none. *)
UpdateRow(c) == \E id \in DOMAIN vrows :
    /\ vcall[c] = Quiet
    /\ \/ \E v \in Vectors : vrows' = (id :> v) @@ vrows
       \/ vrows' = Restrict(vrows, DOMAIN vrows \ {id})
    /\ unlisted' = unlisted \cup {id}
    /\ UNCHANGED <<indexes, managed, vcall, reopens, embedded>>

(* The row a listing had is still the stored one. *)
StillStored(id, listed) == id \in DOMAIN vrows \cap DOMAIN listed /\ listed[id] = vrows[id]

(* similarity_search answers from the managed index unless it is missing or
   empty; then it lists the rows and fills the index if it is still empty. *)
LazyList(c) ==
    /\ vcall[c] = Quiet
    /\ managed # 0 => DOMAIN indexes[managed].vecs = {}
    /\ DOMAIN vrows # {}
    /\ Becomes(c, [op |-> "search", pc |-> "find", listed |-> vrows])
    /\ UNCHANGED <<vrows, indexes, managed, reopens, unlisted, embedded>>

LazyFind(c) == \E new \in 1 .. MaxIndexes, id \in VecIds :
    LET listed == vcall[c].listed IN
    /\ Runs(c, "search", "find")
    /\ id \in DOMAIN listed
    /\ GetOrCreate(listed[id].dim, new)
    /\ Becomes(c, [op |-> "search", pc |-> "look", listed |-> listed, index |-> new])
    /\ UNCHANGED <<vrows, reopens, unlisted, embedded>>

LazyLook(c) ==
    /\ Runs(c, "search", "look")
    /\ Becomes(c, IF DOMAIN indexes[vcall[c].index].vecs # {} THEN Quiet
                  ELSE [vcall[c] EXCEPT !.pc = "fill"])
    /\ UNCHANGED <<vrows, indexes, managed, reopens, unlisted, embedded>>

LazyFill(c) ==
    LET listed == vcall[c].listed IN
    /\ Runs(c, "search", "fill")
    /\ \E id \in DOMAIN listed :
          /\ indexes' = [indexes EXCEPT ![vcall[c].index] = Inserted(@, id, listed[id])]
          /\ unlisted' = IF vcall[c].index = managed /\ StillStored(id, listed)
                         THEN unlisted \ {id} ELSE unlisted
          /\ Becomes(c, IF DOMAIN listed = {id} THEN Quiet
                        ELSE [vcall[c] EXCEPT !.listed = Restrict(@, DOMAIN @ \ {id})])
    /\ UNCHANGED <<vrows, managed, reopens, embedded>>

(* rebuild_vector_index: a fresh index from the rows listed, then the map.  A
   row of another dimension than the first one listed fails the rebuild.   *)
RebuildList(c) ==
    /\ vcall[c] = Quiet
    /\ DOMAIN vrows # {} /\ Cardinality({vrows[id].dim : id \in DOMAIN vrows}) = 1
    /\ Becomes(c, [op |-> "rebuild", pc |-> "swap", listed |-> vrows])
    /\ UNCHANGED <<vrows, indexes, managed, reopens, unlisted, embedded>>

RebuildSwap(c) ==
    LET listed == vcall[c].listed
        dim    == (CHOOSE v \in {listed[id] : id \in DOMAIN listed} : TRUE).dim IN
    /\ Runs(c, "rebuild", "swap")
    /\ Len(indexes) < MaxIndexes
    /\ \E order \in SetToSeqs(DOMAIN listed) :
          indexes' = Append(indexes,
              FoldLeft(LAMBDA ix, id : IndexInsert(ix, id, listed[id].at),
                       NewIndex(dim), order))
    /\ managed' = Len(indexes')
    /\ unlisted' = {id \in DOMAIN vrows \cup unlisted : ~StillStored(id, listed)}
    /\ Becomes(c, Quiet)
    /\ UNCHANGED <<vrows, reopens, embedded>>

(* delete_node removes the row and leaves the index alone. *)
DeleteVecRow(c) == \E id \in DOMAIN vrows :
    /\ vcall[c] = Quiet
    /\ vrows' = Restrict(vrows, DOMAIN vrows \ {id})
    /\ UNCHANGED <<indexes, managed, vcall, reopens, unlisted, embedded>>

(* VectorIndex::remove, which only an index's own users call. *)
RemoveFromIndex(c) == \E id \in VecIds :
    /\ vcall[c] = Quiet
    /\ managed # 0
    /\ id \in DOMAIN indexes[managed].vecs
    /\ \E ix \in IndexRemove(indexes[managed], id) :
          indexes' = [indexes EXCEPT ![managed] = ix]
    /\ unlisted' = unlisted \cup {id}
    /\ UNCHANGED <<vrows, managed, vcall, reopens, embedded>>

(* Database::open: the map of indexes starts empty. *)
ReopenDatabase ==
    /\ reopens < MaxReopens
    /\ managed' = 0
    /\ vcall' = [c \in VecCalls |-> Quiet]
    /\ reopens' = reopens + 1
    /\ unlisted' = DOMAIN vrows
    /\ UNCHANGED <<vrows, indexes, embedded>>

VectorCalls(c) ==
    \/ EmbedRow(c) \/ EmbedFind(c) \/ EmbedInsert(c)
    \/ InsertRows(c) \/ UpdateRow(c)
    \/ LazyList(c) \/ LazyFind(c) \/ LazyLook(c) \/ LazyFill(c)
    \/ RebuildList(c) \/ RebuildSwap(c)
    \/ DeleteVecRow(c) \/ RemoveFromIndex(c)

VectorNext == (\E c \in VecCalls : VectorCalls(c)) \/ ReopenDatabase

VectorSpec == VectorInit /\ [][VectorNext]_vectorVars

-------------------------------------------------------------------------------
NoVectorCall == \A c \in VecCalls : vcall[c] = Quiet

(* The managed index answers for the row: it has its vector, or another
   dimension than the row's.                                               *)
IndexHas(id) ==
    /\ managed # 0
    /\ vrows[id].dim = indexes[managed].dim =>
          id \in DOMAIN indexes[managed].vecs /\ indexes[managed].vecs[id] = vrows[id].at

(* Once no call is under way, the managed index has the vector of every row
   that insert_with_embedding wrote and of every row a fill or a rebuild listed
   since its last write.  It may lack, or have the old vector of, the rows that
   insert_node, insert_nodes_batch and update_node wrote since, those that were
   there when the database was opened, and those written while a rebuild ran. *)
EmbeddingsIndexed == NoVectorCall => \A id \in DOMAIN vrows \ unlisted : IndexHas(id)

(* The exact answer: the k smallest distances, in order. *)
ExactDistances(ix, q, k) ==
    Take(SortSeq([i \in 1 .. Cardinality(DOMAIN ix.vecs) |->
                    Distance(q, ix.vecs[SetToSeq(DOMAIN ix.vecs)[i]])],
                 LAMBDA a, b : a < b), k)

(* Until a link has been refused for want of room, every search of the managed
   index returns k nearest vectors, whatever was inserted, inserted again and
   removed before, and from whichever entry point it starts.               *)
SearchExact ==
    managed # 0 /\ ~indexes[managed].crowded =>
        \A q \in VecPoints, k \in 1 .. Cardinality(VecIds) :
            LET ix == indexes[managed]  found == IndexSearch(ix, q, k) IN
            /\ [i \in DOMAIN found |-> Distance(q, ix.vecs[found[i]])]
                  = ExactDistances(ix, q, k)
            /\ Cardinality(Range(found)) = Len(found)

================================================================================
