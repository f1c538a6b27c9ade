------------------------------ MODULE QueryEngine ------------------------------
(***************************************************************************)
(* SQL over a v1 database: parser.rs turns a statement into a ParsedQuery, *)
(* planner.rs plans it, executor.rs runs the plan against the storage      *)
(* (src/query).  The executor awaits the storage between the reads and the *)
(* writes of a statement, so statements of several clients interleave.     *)
(*                                                                         *)
(* A WHERE clause is the tree sqlparser returns, [t |-> "cmp" | "in" |     *)
(* "like" | "null" | "and" | "or", ...]; columns and node ids are numbers, *)
(* ordered as their names are; a value is Null, a bool, an int, a float or *)
(* a text, the sequence of its words.                                      *)
(***************************************************************************)
EXTENDS LocalStorage, FiniteSetsExt

CONSTANTS
    QueryNodes,     \* node ids, numbers
    QueryType,      \* the node type the statements name
    Statements,     \* the statements clients may send
    QueryCalls,     \* client calls in flight
    MaxDocs,        \* rows inserted at most
    GraphDepth,     \* max_depth of the graph searches
    MaxArcs,        \* edges ever drawn at most
    WordOrder       \* the words of the texts, in string order

VARIABLES
    qdb,            \* the tables
    planner,        \* QueryPlanner::indexed_fields, as this engine knows them
    qcall,          \* the statement each call is executing
    qborn           \* ids handed out: they are never used again

queryVars == <<qdb, planner, qcall, qborn>>

Null == [kind |-> "null", v |-> 0]

-------------------------------------------------------------------------------
(* parser.rs *)

RECURSIVE ExtractConditions(_)
(* extract_conditions_recursive: AND is flattened; anything that is not a
   comparison of a column, OR included, adds no condition at all, and the
   negation of LIKE and IN is not looked at.                               *)
ExtractConditions(e) ==
    CASE e.t = "and" -> ExtractConditions(e.l) \o ExtractConditions(e.r)
      [] e.t \in {"cmp", "in", "like", "null"} ->
            <<[col |-> e.col, op |-> e.op, val |-> e.val]>>
      [] OTHER -> <<>>

(* parse_vector_where, parse_simple_where and parse_single_condition know the
   comparisons only, joined by AND: other conditions are left out.         *)
ParseVectorWhere(e) ==
    SelectSeq(ExtractConditions(e),
              LAMBDA c : c.op \in {"Eq", "Ne", "Lt", "Le", "Gt", "Ge"})

(* extract_insert_values: the first row of VALUES. *)
ExtractInsertValues(rows) == IF rows = <<>> THEN <<>> ELSE Head(rows)

ConvertSelect(stmt) ==
    [op |-> "Select", cols |-> stmt.cols, conds |-> ExtractConditions(stmt.where),
     order |-> stmt.order, limit |-> stmt.limit, offset |-> stmt.offset, data |-> <<>>]

ParseVectorSearch(stmt) ==
    [op |-> "VectorSearch", cols |-> {}, conds |-> ParseVectorWhere(stmt.where),
     order |-> <<>>, limit |-> stmt.limit, offset |-> {}, data |-> <<>>]

(* FULLTEXT SEARCH: the text is its words; without a LIMIT ten are asked for.
   The limit is kept twice, and the search reads the one BoundLimit misses. *)
ParseFulltextSearch(stmt) ==
    LET limit == IF stmt.limit = {} THEN {10} ELSE stmt.limit
    IN  [op |-> "FullTextSearch", cols |-> {}, conds |-> <<>>, order |-> <<>>,
         limit |-> limit, offset |-> {}, data |-> <<>>,
         params |-> [field |-> stmt.field, words |-> stmt.words, limit |-> limit]]

(* CREATE INDEX, DROP INDEX and CREATE FULLTEXT INDEX ON table (field). *)
ParseIndexCommand(stmt) ==
    [op |-> stmt.op, cols |-> {}, conds |-> <<>>, order |-> <<>>, limit |-> {},
     offset |-> {}, data |-> [field |-> stmt.field]]

(* INSERT, UPDATE and DELETE.  (parse_natural_language makes a SELECT or a
   DELETE without a WHERE.)                                                *)
ConvertStatement(stmt) ==
    [op |-> stmt.op, cols |-> {}, conds |-> ExtractConditions(stmt.where),
     order |-> <<>>, limit |-> {}, offset |-> {}, data |-> ExtractInsertValues(stmt.rows)]

Parse(stmt) ==
    CASE stmt.op = "VectorSearch" -> ParseVectorSearch(stmt)
      [] stmt.op = "FullTextSearch" -> ParseFulltextSearch(stmt)
      [] stmt.op \in {"CreateIndex", "DropIndex", "CreateFullTextIndex"} -> ParseIndexCommand(stmt)
      [] stmt.op = "Select" -> ConvertSelect(stmt)
      [] OTHER -> ConvertStatement(stmt)

(* execute_sql: the caller's limit bounds the statement's. *)
BoundLimit(query, limit) ==
    [query EXCEPT !.limit = IF limit = {} THEN @
                            ELSE {Min(@ \cup limit)}]

-------------------------------------------------------------------------------
(* Operator::matches and value ordering *)

RECURSIVE LikeMatches(_, _)
(* LIKE as an anchored regular expression: "%" is any run of words. *)
LikeMatches(text, pattern) ==
    IF pattern = <<>> THEN text = <<>>
    ELSE IF Head(pattern) = "%"
         THEN \E k \in 0 .. Len(text) :
                 LikeMatches(SubSeq(text, k + 1, Len(text)), Tail(pattern))
         ELSE text # <<>> /\ Head(text) = Head(pattern)
                /\ LikeMatches(Tail(text), Tail(pattern))

(* A float is a sequence of as many units; IndexKey keeps tens of them. *)
FloatUnit == 10

Number(val) == IF val.kind = "i" THEN FloatUnit * val.v ELSE Len(val.v)

WordRank(w) == CHOOSE i \in DOMAIN WordOrder : WordOrder[i] = w

(* Texts compare word by word, a prefix first. *)
TextBefore(s, t) == \E k \in 1 .. Len(t) :
    /\ Len(s) >= k - 1 /\ SubSeq(s, 1, k - 1) = SubSeq(t, 1, k - 1)
    /\ Len(s) = k - 1 \/ WordRank(s[k]) < WordRank(t[k])

(* Numbers compare with numbers, an int as a float with a float, and texts with
   texts; values of other kinds are in no order.                           *)
Numeric(l, r) == l.kind \in {"i", "f"} /\ r.kind \in {"i", "f"}

Comparable(l, r) == Numeric(l, r) \/ (l.kind = "s" /\ r.kind = "s")

Less(l, r) == IF Numeric(l, r) THEN Number(l) < Number(r) ELSE TextBefore(l.v, r.v)

Matches(op, l, r) ==
    CASE op = "Eq" -> l = r
      [] op = "Ne" -> l # r
      [] op = "Lt" -> Comparable(l, r) /\ Less(l, r)
      [] op = "Le" -> Comparable(l, r) /\ ~Less(r, l)
      [] op = "Gt" -> Comparable(l, r) /\ Less(r, l)
      [] op = "Ge" -> Comparable(l, r) /\ ~Less(l, r)
      [] op = "Like" -> l.kind = "s" /\ r.kind = "s" /\ LikeMatches(l.v, r.v)
      [] op = "In" -> r.kind = "array" /\ l \in r.v
      [] op = "IsNull" -> l.kind = "null"
      [] op = "IsNotNull" -> l.kind # "null"

(* A column the node does not have reads as Null. *)
ColumnValue(props, col) == IF col \in DOMAIN props THEN props[col] ELSE Null

MatchesConditions(props, conds) ==
    \A i \in DOMAIN conds :
        Matches(conds[i].op, ColumnValue(props, conds[i].col), conds[i].val)

(* node_matches_conditions, the filter of a vector search: a missing column
   matches nothing but IS NULL.                                            *)
NodeMatchesConditions(props, conds) ==
    \A i \in DOMAIN conds :
        IF conds[i].col \in DOMAIN props
        THEN conds[i].op # "In" /\ Matches(conds[i].op, props[conds[i].col], conds[i].val)
        ELSE conds[i].op = "IsNull"

(* compare_values: Null first; other mixtures are equal. *)
Before(a, b) ==
    \/ a.kind = "null" /\ b.kind # "null"
    \/ Comparable(a, b) /\ Less(a, b)
    \/ a.kind = "b" /\ b.kind = "b" /\ ~a.v /\ b.v

-------------------------------------------------------------------------------
(* planner.rs *)

Indexed(conds) == {i \in DOMAIN conds : conds[i].col \in planner}

(* plan_scan: the first condition on an indexed column is looked up, whatever
   its operator is.                                                        *)
PlanScan(conds) ==
    IF Indexed(conds) = {} THEN [step |-> "FullScan", col |-> 0, val |-> Null]
    ELSE LET i == Min(Indexed(conds))
         IN  [step |-> "IndexLookup", col |-> conds[i].col, val |-> conds[i].val]

(* Mutant: the first condition counts as checked by any scan. *)
RemainingConditions_SkipsFirst(query) ==
    IF query.conds = <<>> THEN <<>> ELSE Tail(query.conds)

(* A SELECT filters by the conditions on columns without an index; UPDATE and
   DELETE keep them all.                                                   *)
RemainingConditions(query) ==
    IF query.op = "Select"
    THEN LET keep(c) == c.col \notin planner IN SelectSeq(query.conds, keep)
    ELSE query.conds

-------------------------------------------------------------------------------
(* executor.rs: one statement *)

(* get_all_by_type and index_lookup list node ids; a lookup in an index that
   is not there falls back to the full scan.                               *)
ScanIds(plan) ==
    IF plan.step = "FullScan" \/ plan.col \notin IndexedFields(qdb, QueryType)
    THEN GetNodeIndexesByType(qdb, QueryType)
    ELSE IndexLookup(qdb, QueryType, plan.col, plan.val)

(* Then each node is read, in id order; one that is gone is skipped. *)
FetchNodes(ids) == SetToSortSeq(ids \cap DOMAIN qdb.payloads, LAMBDA a, b : a < b)

(* A stable sort on one column. *)
SortBy(rows, order) ==
    LET key(n)  == ColumnValue(qdb.payloads[n], order.col)
        less(a, b) == IF order.desc THEN Before(key(b), key(a)) ELSE Before(key(a), key(b))
        rank(i) == Cardinality({j \in DOMAIN rows :
                      less(rows[j], rows[i]) \/ (j < i /\ ~less(rows[i], rows[j]))})
    IN  [k \in DOMAIN rows |-> rows[CHOOSE i \in DOMAIN rows : rank(i) = k - 1]]

(* The Sort steps in clause order, then the Limit step: without a LIMIT the
   OFFSET is not looked at.                                                *)
LimitRows(rows, query) ==
    IF query.limit = {} THEN rows
    ELSE LET limit == CHOOSE l \in query.limit : TRUE
             skip  == IF query.offset = {} THEN 0 ELSE CHOOSE o \in query.offset : TRUE
         IN  [i \in 1 .. Min({limit, Max({Len(rows) - skip, 0})}) |-> rows[skip + i]]

(* The Filter step, or the filter of a vector search (its ranking is in
   VectorIndexes), and the steps after it.                                 *)
RunScan(query, ids) ==
    LET keep(n) == IF query.op = "VectorSearch"
                   THEN NodeMatchesConditions(qdb.payloads[n], query.conds)
                   ELSE MatchesConditions(qdb.payloads[n], RemainingConditions(query))
        rows == SelectSeq(FetchNodes(ids), keep)
    IN  IF query.op # "Select" THEN rows
        ELSE LimitRows(FoldLeft(SortBy, rows, query.order), query)

(* QueryResult::from_nodes: every column some row has, in order.  (The id and
   type cells that come first are left out: both are always kept.)         *)
ResultColumns(rows) ==
    SetToSortSeq(UNION {DOMAIN qdb.payloads[rows[i]] : i \in DOMAIN rows},
                 LAMBDA a, b : a < b)

(* The projection keeps the headers of the named columns and as many cells,
   counted from the left.                                                  *)
Project(rows, query) ==
    LET all  == ResultColumns(rows)
        cols == IF query.cols = {} THEN all
                ELSE SelectSeq(all, LAMBDA c : c \in query.cols)
    IN  [head |-> cols,
         cells |-> [i \in DOMAIN rows |->
                       [j \in DOMAIN cols |-> ColumnValue(qdb.payloads[rows[i]], all[j])]]]

-------------------------------------------------------------------------------
(* The steps of a call.  "want" and "fresh" are the history the properties
   read: the rows the WHERE clause means, and whether the planned index then
   had exactly the entries of the rows; "calm" is FALSE once another call has
   written since.                                                          *)

NoStatement == [pc |-> "idle"]

QueryInit ==
    /\ qdb = EmptyDb
    /\ planner = {}
    /\ qcall = [c \in QueryCalls |-> NoStatement]
    /\ qborn = {}

NoQuery(c) == qcall[c].pc = "idle"

(* What every write does to the calls in flight. *)
Disturb(calls, c) ==
    [d \in QueryCalls |-> IF d # c /\ calls[d].pc \in {"planned", "listed"}
                          THEN [calls[d] EXCEPT !.calm = FALSE] ELSE calls[d]]

RECURSIVE Means(_, _)
(* What a WHERE clause means, read as SQL. *)
Means(e, props) ==
    CASE e.t = "and" -> Means(e.l, props) /\ Means(e.r, props)
      [] e.t = "or" -> Means(e.l, props) \/ Means(e.r, props)
      [] e.t \in {"cmp", "null"} -> Matches(e.op, ColumnValue(props, e.col), e.val)
      [] e.t \in {"in", "like"} -> Matches(e.op, ColumnValue(props, e.col), e.val) # e.negated
      [] e.t = "all" -> TRUE

Meant(stmt) ==
    {n \in GetNodeIndexesByType(qdb, QueryType) : Means(stmt.where, qdb.payloads[n])}

IndexFresh(col) ==
    {<<p[3], p[4]>> : p \in {q \in qdb.props : q[2] = col /\ q[4] \in DOMAIN qdb.payloads}}
    = {<<IndexKey(qdb.payloads[n][col]), n>> :
          n \in {m \in DOMAIN qdb.payloads : col \in DOMAIN qdb.payloads[m]}}

(* execute_sql up to the first await: parse, bound the limit, plan.  A filtered
   vector search is not planned: it scans.                                 *)
Execute(c, stmt, limit) ==
    /\ NoQuery(c)
    /\ stmt.op \in {"Select", "Update", "Delete", "VectorSearch"}
    /\ LET query == BoundLimit(Parse(stmt), limit)
       IN  qcall' = [qcall EXCEPT ![c] =
               [pc |-> "planned", stmt |-> stmt, query |-> query,
                plan |-> PlanScan(IF query.op = "VectorSearch" THEN <<>> ELSE query.conds),
                rest |-> RemainingConditions(query),
                ids |-> {}, rows |-> <<>>, want |-> {}, fresh |-> TRUE, calm |-> TRUE,
                result |-> <<>>]]
    /\ UNCHANGED <<qdb, planner, qborn>>

ListIds(c) ==
    /\ qcall[c].pc = "planned"
    /\ qcall' = [qcall EXCEPT
            ![c].pc = "listed",
            ![c].ids = ScanIds(qcall[c].plan),
            ![c].want = Meant(qcall[c].stmt),
            ![c].fresh = \/ qcall[c].plan.step = "FullScan"
                         \/ qcall[c].plan.col \in IndexedFields(qdb, QueryType)
                              /\ IndexFresh(qcall[c].plan.col),
            ![c].calm = TRUE]
    /\ UNCHANGED <<qdb, planner, qborn>>

(* The Filter, Sort, Limit and Project steps. *)
FetchRows(c) ==
    /\ qcall[c].pc = "listed" /\ qcall[c].query.op # "FullTextSearch"
    /\ LET call == qcall[c]
           rows == RunScan(call.query, call.ids)
       IN  qcall' = [qcall EXCEPT
               ![c].pc = "fetched",
               ![c].rows = rows,
               ![c].result = IF call.query.op = "Select" THEN Project(rows, call.query) ELSE <<>>]
    /\ UNCHANGED <<qdb, planner, qborn>>

(* The UpdateNodes and DeleteNodes steps: one awaited call per node.  A node
   that is gone fails the update and with it the rest of the statement; a
   delete of it goes through.  An update maintains no index.               *)
ChangeNode(c) ==
    /\ qcall[c].pc = "fetched"
    /\ qcall[c].query.op \in {"Update", "Delete"}
    /\ qcall[c].rows # <<>>
    /\ LET n    == Head(qcall[c].rows)
           lost == n \notin DOMAIN qdb.payloads
           new  == Merge(qdb.payloads[n], qcall[c].query.data)
       IN  /\ qdb' = CASE qcall[c].query.op = "Delete" -> DeleteNodeTiered(qdb, n)
                       [] qcall[c].query.op = "Update" /\ lost -> qdb
                       [] qcall[c].query.op = "Update" /\ ~lost ->
                             UpdateNodeTiered(qdb, n, IndexRecord(QueryType, "local", new), new)
           /\ qcall' = IF qcall[c].query.op = "Update" /\ lost
                       THEN [qcall EXCEPT ![c] = NoStatement]
                       ELSE Disturb([qcall EXCEPT ![c].rows = Tail(@)], c)
    /\ UNCHANGED <<planner, qborn>>

FinishStatement(c) ==
    /\ qcall[c].pc = "fetched"
    /\ qcall[c].query.op \in {"Select", "VectorSearch", "FullTextSearch"} \/ qcall[c].rows = <<>>
    /\ qcall' = [qcall EXCEPT ![c] = NoStatement]
    /\ UNCHANGED <<qdb, planner, qborn>>

(* INSERT: one node, whatever the statement listed, into every index the
   database (not the planner) knows.                                       *)
ExecuteInsert(c, stmt, n) ==
    /\ NoQuery(c)
    /\ stmt.op = "Insert"
    /\ n \notin qborn
    /\ Cardinality(DOMAIN qdb.payloads) < MaxDocs
    /\ LET data == Parse(stmt).data
           row  == InsertNodeTiered(qdb, n, IndexRecord(QueryType, "local", data), data)
       IN  qdb' = UpdateFulltextIndex(UpdatePropertyIndexes(row, n, QueryType, data),
                                      n, QueryType, data)
    /\ qcall' = Disturb(qcall, c)
    /\ qborn' = qborn \cup {n}
    /\ UNCHANGED planner

(* The index commands change the database, not this engine's planner. *)
ExecuteIndexCommand(c, stmt) ==
    /\ NoQuery(c)
    /\ LET query == Parse(stmt) IN
       \/ query.op = "CreateIndex" /\ qdb' = CreatePropertyIndex(qdb, QueryType, query.data.field)
       \/ query.op = "DropIndex" /\ qdb' = DropPropertyIndex(qdb, QueryType, query.data.field)
       \/ query.op = "CreateFullTextIndex"
             /\ qdb' = CreateFulltextIndex(qdb, QueryType, query.data.field)
    /\ qcall' = Disturb(qcall, c)
    /\ UNCHANGED <<planner, qborn>>

Postings(field, word) ==
    {p[4] : p \in {q \in qdb.fulltext : q[1] = QueryType /\ q[2] = field /\ q[3] = word}}

(* The rank of a document for a query of one word.  Its BM25 score is
   idf * tf * 2.2 / (tf + 1.2) with idf = ln((total + 1) / (df + 1/2)): it grows
   with the term count while there are no more postings than rows, and falls
   once the postings of deleted rows outnumber them.                       *)
Bm25Order(field, word, n) ==
    LET total == Cardinality({p \in qdb.types : p[1] = QueryType})
        tf    == TermCount(qdb, QueryType, field, n, word)
    IN  IF Cardinality(Postings(field, word)) <= total THEN tf ELSE -tf

(* The rows whose text has the word, whatever the index says. *)
HasWord(field, word) ==
    {n \in GetNodeIndexesByType(qdb, QueryType) :
        /\ field \in DOMAIN qdb.payloads[n] /\ qdb.payloads[n][field].kind = "s"
        /\ word \in Terms(qdb.payloads[n][field].v)}

(* execute_fulltext_search, the first await: rank the postings, dead rows
   included, and cut.  Equal scores come in any order; a field without an
   index is an error, a query of stop words finds nothing.                 *)
RankDocuments(c, stmt, limit) ==
    /\ NoQuery(c)
    /\ stmt.op = "FullTextSearch" /\ stmt.field \in FulltextFields(qdb, QueryType)
    /\ LET query  == BoundLimit(Parse(stmt), limit)
           tokens == Tokenize(query.params.words)
           word   == IF tokens = <<>> THEN "" ELSE Head(tokens)
           docs   == FulltextSearch(qdb, QueryType, stmt.field, query.params.words)
           rank(n) == Bm25Order(stmt.field, word, n)
           most   == CHOOSE l \in query.params.limit : TRUE
       IN  \E list \in SetToSeqs(docs) :
             /\ \A i, j \in DOMAIN list : i < j => rank(list[i]) >= rank(list[j])
             /\ qcall' = [qcall EXCEPT ![c] =
                    [pc |-> "listed", stmt |-> stmt, query |-> query,
                     rows |-> SubSeq(list, 1, Min({most, Len(list)})),
                     want |-> HasWord(stmt.field, word),
                     fresh |-> Postings(stmt.field, word) = HasWord(stmt.field, word),
                     calm |-> TRUE]]
    /\ UNCHANGED <<qdb, planner, qborn>>

(* Database::fulltext_search, after it: the nodes are read, those that are gone
   are left out and not replaced by others.                                *)
FetchRanked(c) ==
    /\ qcall[c].pc = "listed" /\ qcall[c].query.op = "FullTextSearch"
    /\ qcall' = [qcall EXCEPT
            ![c].pc = "fetched",
            ![c].rows = SelectSeq(@, LAMBDA n : n \in DOMAIN qdb.payloads)]
    /\ UNCHANGED <<qdb, planner, qborn>>

(* refresh_indexes takes &mut self: no call is in flight. *)
RefreshIndexes ==
    /\ \A c \in QueryCalls : NoQuery(c)
    /\ planner' = IndexedFields(qdb, QueryType)
    /\ UNCHANGED <<qdb, qcall, qborn>>

StatementSteps ==
    \/ \E c \in QueryCalls :
          \/ \E stmt \in Statements :
                \/ Execute(c, stmt, {})
                \/ Execute(c, stmt, {1})
                \/ ExecuteIndexCommand(c, stmt)
                \/ RankDocuments(c, stmt, {})
                \/ RankDocuments(c, stmt, {1})
                \/ \E n \in QueryNodes : ExecuteInsert(c, stmt, n)
          \/ ListIds(c)
          \/ FetchRows(c)
          \/ FetchRanked(c)
          \/ ChangeNode(c)
          \/ FinishStatement(c)
    \/ RefreshIndexes

-------------------------------------------------------------------------------
(* Graph searches: traverse, shortest_path, connected_components.  A search
   holds no lock; each is taken here as one read of the edges.             *)

RECURSIVE TraverseLoop(_, _, _)
(* The queue holds <<node, depth>>; a node is marked when it is taken. *)
TraverseLoop(queue, seen, types) ==
    IF queue = <<>> THEN seen
    ELSE LET n     == Head(queue)[1]
             depth == Head(queue)[2]
             out   == {e \in GetEdgesFrom(qdb, n) : qdb.edges[e].type \in types}
             next  == SelectSeq(SetToSeq({qdb.edges[e].to : e \in out}),
                                LAMBDA m : m \notin seen \cup {n})
         IN  IF n \in seen THEN TraverseLoop(Tail(queue), seen, types)
             ELSE TraverseLoop(
                    Tail(queue) \o IF depth >= GraphDepth THEN <<>>
                                   ELSE [i \in DOMAIN next |-> <<next[i], depth + 1>>],
                    seen \cup {n}, types)

(* Mutant: the start node counts as one step. *)
Traverse_FromOne(start, types) ==
    TraverseLoop(<<<<start, 1>>>>, {}, types) \cap DOMAIN qdb.payloads

Traverse(start, types) ==
    TraverseLoop(<<<<start, 0>>>>, {}, types) \cap DOMAIN qdb.payloads

RECURSIVE PathLoop(_, _, _)
(* The queue holds paths.  A path longer than max_depth is not extended. *)
PathLoop(queue, seen, target) ==
    IF queue = <<>> THEN <<>>
    ELSE LET path == Head(queue)
             n    == Last(path)
             next == SetToSeq({qdb.edges[e].to : e \in GetEdgesFrom(qdb, n)} \ (seen \cup {n}))
         IN  IF n = target THEN path
             ELSE IF n \in seen \/ Len(path) > GraphDepth
             THEN PathLoop(Tail(queue), seen, target)
             ELSE PathLoop(Tail(queue) \o [i \in DOMAIN next |-> Append(path, next[i])],
                           seen \cup {n}, target)

(* The path found, {} for None, with the ids resolved: a node that is not
   there is skipped.                                                       *)
ShortestPath(from, to) ==
    LET path == PathLoop(<<<<from>>>>, {}, to)
    IN  IF path = <<>> THEN {} ELSE {SelectSeq(path, LAMBDA n : n \in DOMAIN qdb.payloads)}

RECURSIVE ComponentLoop(_, _, _)
ComponentLoop(queue, seen, comp) ==
    IF queue = <<>> THEN [seen |-> seen, comp |-> comp]
    ELSE LET n     == Head(queue)
             ahead == {qdb.edges[e].to : e \in GetEdgesFrom(qdb, n)}
             back  == {qdb.edges[e].from : e \in GetEdgesTo(qdb, n)}
         IN  IF n \in seen THEN ComponentLoop(Tail(queue), seen, comp)
             ELSE ComponentLoop(Tail(queue) \o SetToSeq((ahead \cup back) \ seen),
                                seen \cup {n},
                                comp \cup ({n} \cap DOMAIN qdb.payloads))

(* One component per node of the type not seen before, empty ones left out. *)
ConnectedComponents ==
    LET step(acc, n) ==
            IF n \in acc.seen THEN acc
            ELSE LET found == ComponentLoop(<<n>>, acc.seen, {})
                 IN  [seen |-> found.seen,
                      comps |-> acc.comps \cup ({found.comp} \ {{}})]
    IN  FoldLeft(step, [seen |-> {}, comps |-> {}],
                 FetchNodes(GetNodeIndexesByType(qdb, QueryType))).comps

(* Nodes come and go and edges are drawn, one call at a time.  insert_edge does
   not look at the endpoints: either may be gone.                          *)
DrawEdge(from, to, type) ==
    /\ {from, to} \subseteq qborn
    /\ Cardinality(qdb.etypes) < MaxArcs
    /\ qdb' = InsertEdge(qdb, <<from, to, type>>, [from |-> from, to |-> to, type |-> type])
    /\ UNCHANGED <<planner, qcall, qborn>>

AddNode(n) ==
    /\ n \notin qborn
    /\ qdb' = InsertNodeTiered(qdb, n, IndexRecord(QueryType, "local", <<>>), <<>>)
    /\ qborn' = qborn \cup {n}
    /\ UNCHANGED <<planner, qcall>>

RemoveNode(n) ==
    /\ n \in DOMAIN qdb.payloads
    /\ qdb' = DeleteNodeTiered(qdb, n)
    /\ UNCHANGED <<planner, qcall, qborn>>

GraphQuerySteps ==
    \E n, m \in QueryNodes :
        \/ \E type \in {"k", "l"} : DrawEdge(n, m, type)
        \/ AddNode(n)
        \/ RemoveNode(n)

-------------------------------------------------------------------------------
(* Properties *)

RECURSIVE Conjunctive(_)
(* Clauses the parser keeps whole: conjunctions of plain comparisons. *)
Conjunctive(e) ==
    CASE e.t = "and" -> Conjunctive(e.l) /\ Conjunctive(e.r)
      [] e.t \in {"in", "like"} -> ~e.negated
      [] e.t \in {"cmp", "null", "all"} -> TRUE
      [] OTHER -> FALSE

(* The planner used no index, or looked up the clause's one condition on an
   indexed column, an equality with a value that index keys do not round
   (UPDATE and DELETE filter again, so there the others do not matter).  A vector search reads a missing column otherwise
   than SELECT does, and tells them apart by <>.                           *)
PlannedSafely(call) ==
    LET used == {i \in DOMAIN call.query.conds :
                    call.plan.step = "IndexLookup"
                    /\ call.query.conds[i] \notin Range(call.rest)}
        eq   == \E i \in DOMAIN call.query.conds :
                    /\ call.query.conds[i].op = "Eq"
                    /\ call.query.conds[i].col = call.plan.col
                    /\ call.query.conds[i].val = call.plan.val
        ne   == \E i \in DOMAIN call.query.conds : call.query.conds[i].op = "Ne"
    IN  CASE call.query.op = "VectorSearch" -> ~ne
          [] call.plan.step = "FullScan" -> TRUE
          [] OTHER -> eq /\ call.plan.val.kind # "f" /\ Cardinality(used) <= 1

(* The rows a statement may answer with: all that are meant, cut by LIMIT. *)
AnswerIs(call, meant) ==
    LET query == call.query
        skip  == IF query.limit = {} \/ query.offset = {} THEN 0
                 ELSE CHOOSE o \in query.offset : TRUE
        size  == Cardinality(meant) - skip
        limit == IF query.limit = {} THEN size ELSE CHOOSE l \in query.limit : TRUE
        full  == Max({Min({limit, size}), 0})
    IN  /\ Range(call.rows) \subseteq meant
        /\ Len(call.rows) = (IF query.op = "Select" THEN full ELSE Cardinality(meant))
        /\ Cardinality(Range(call.rows)) = Len(call.rows)

(* A full-text search answers with as many rows that have the word as its own
   LIMIT admits, those with more occurrences first.                        *)
SearchIs(call) ==
    LET words == call.query.params
        count(n) == TermCount(qdb, QueryType, words.field, n, Head(Tokenize(words.words)))
    IN  /\ Range(call.rows) \subseteq call.want
        /\ Len(call.rows) = Min(words.limit \cup {Cardinality(call.want)})
        /\ Cardinality(Range(call.rows)) = Len(call.rows)
        /\ \A n \in Range(call.rows), m \in call.want :
               count(n) < count(m) => m \in Range(call.rows)
        /\ \A i, j \in DOMAIN call.rows :
               i < j => count(call.rows[i]) >= count(call.rows[j])

(* A SELECT answers with exactly the rows its WHERE clause means, cut by its
   LIMIT and OFFSET, in the order of its ORDER BY column, and every cell under
   the right header when the kept columns come first; an UPDATE or a DELETE
   picks exactly the rows meant, a FULLTEXT SEARCH the best ones.  This holds of conjunctive clauses whose plan
   is safe and whose index is exact, when no other call writes in between:
   executor.rs:378 reads ids and rows at different moments, planner.rs:137-160
   drops conditions the lookup did not check.                              *)
QueriesExact ==
    [][\A c \in QueryCalls :
         LET call == qcall'[c]
         IN  /\ qcall[c].pc = "listed" /\ call.pc = "fetched"
             /\ call.calm /\ call.fresh
             => IF call.query.op = "FullTextSearch" THEN SearchIs(call) ELSE
                Conjunctive(call.stmt.where) /\ PlannedSafely(call)
             => /\ AnswerIs(call, call.want)
                /\ Len(call.query.order) = 1 =>
                     \A i, j \in DOMAIN call.rows : i < j =>
                       LET order == call.query.order[1]
                           a == ColumnValue(qdb.payloads[call.rows[i]], order.col)
                           b == ColumnValue(qdb.payloads[call.rows[j]], order.col)
                       IN  IF order.desc THEN ~Before(a, b) ELSE ~Before(b, a)
                /\ call.query.op = "Select" /\ IsPrefix(call.result.head, ResultColumns(call.rows)) =>
                     \A i \in DOMAIN call.rows : \A j \in DOMAIN call.result.head :
                       call.result.cells[i][j]
                         = ColumnValue(qdb.payloads[call.rows[i]], call.result.head[j])]_queryVars

(* What planner.rs:291 and storage/mod.rs:433 promise: an index makes a lookup faster,
   it does not change the answer.  Undisturbed, with an exact index and a
   conjunctive clause, a SELECT answers with the rows the clause means.    *)
IndexesOnlySpeedUp ==
    \A c \in {d \in QueryCalls : qcall[d].pc = "fetched"} :
        /\ qcall[c].query.op = "Select"
        /\ qcall[c].calm /\ qcall[c].fresh /\ Conjunctive(qcall[c].stmt.where)
        => AnswerIs(qcall[c], qcall[c].want)

RECURSIVE Ball(_, _)
(* The nodes at most k edges from n, along the edge relation arcs. *)
Ball(seeds, args) ==
    IF args.k = 0 THEN seeds
    ELSE Ball(seeds \cup {a[2] : a \in {b \in args.arcs : b[1] \in seeds}},
              [args EXCEPT !.k = @ - 1])

(* The paths of k edges from n to m. *)
PathsOf(n, m, k, arcs) ==
    {p \in [1 .. k + 1 -> QueryNodes] :
        /\ p[1] = n /\ p[k + 1] = m
        /\ \A i \in 1 .. k : <<p[i], p[i + 1]>> \in arcs}

(* The breadth-first searches of executor.rs:545-735 find what they are for:
   traverse the stored nodes within max_depth edges of the kinds asked for;
   shortest_path None only when the target is farther than max_depth, and else
   the stored nodes of a path no longer than any other, which is the whole path
   where no edge of the graph leads to or from a node that is gone;
   connected_components the partition of the stored nodes by reachability over
   edges of either direction.                                              *)
GraphSearchExact ==
    LET arcs(types) == {<<qdb.edges[e].from, qdb.edges[e].to>> :
                           e \in {f \in DOMAIN qdb.edges : qdb.edges[f].type \in types}}
        all  == arcs({"k", "l"})
        both == all \cup {<<a[2], a[1]>> : a \in all}
        near(n, k, types) == Ball({n}, [k |-> k, arcs |-> arcs(types)])
        live == DOMAIN qdb.payloads
        stored(p) == SelectSeq(p, LAMBDA n : n \in live)
    IN  /\ \A n, m \in QueryNodes :
              LET answer == ShortestPath(n, m)
                  dists  == {k \in 0 .. GraphDepth : m \in near(n, k, {"k", "l"})}
              IN  IF dists = {} THEN answer = {}
                  ELSE LET paths == PathsOf(n, m, Min(dists), all)
                       IN  /\ \E p \in paths : answer = {stored(p)}
                           /\ n \in live /\ (\A a \in all : {a[1], a[2]} \subseteq live) =>
                                 \E p \in paths : answer = {p}
        /\ \A n \in live :
              /\ \A types \in {{"k"}, {"k", "l"}} :
                    Traverse(n, types) = near(n, GraphDepth, types) \cap live
              /\ LET home == {comp \in ConnectedComponents : n \in comp}
                 IN  home = {Ball({n}, [k |-> Cardinality(QueryNodes), arcs |-> both]) \cap live}
================================================================================
