------------------------------ MODULE MCDatabase ------------------------------
(***************************************************************************)
(* The v1 database, one scenario per question.  A behaviour picks a        *)
(* scenario and moves only the component it names; the others stay in      *)
(* their initial state, so the state space is the sum of the scenarios'    *)
(* and not their product.                                                  *)
(***************************************************************************)
EXTENDS TieredStorage, ReplicaSet, ReplicaLocks, ShardSet, BucketSync, ResultStreams,
        VectorIndexes, ParallelScan, WireServer, QueryEngine, RagPipeline, SchemaManager

VARIABLE scenario

Scenarios == {"tier", "tierRace", "tierList", "tierGraph", "tierIndex", "votes", "logs", "locks", "shards",
              "counting", "sync", "streams", "vectors", "vectorRace", "scan", "pool", "talk",
              "sql", "text", "graph", "chunks", "ranks", "schema"}

-------------------------------------------------------------------------------
(* Values of the constants. *)
IntVal(n) == [kind |-> "i", v |-> n]
FloatVal(n) == [kind |-> "f", v |-> [i \in 1 .. FloatUnit * n |-> 0]]
Text(words) == [kind |-> "s", v |-> words]

MCWordOrder == <<"a", "b", "the">>

MCVals == {Text(<<"a">>), Text(<<"b", "a", "the">>)}
MCDocs == {"f" :> Text(<<"a">>)}
MCPatches == {"f" :> Text(<<"b", "a", "the">>), "g" :> Text(<<"a">>)}

MCRingHash == "a" :> 1 @@ "b" :> 4 @@ "e" :> 6
MCRingPoints == 0 :> {2, 5} @@ 1 :> {0, 3} @@ 2 :> {2, 6}
MCSipHash == "a" :> <<1, 2>> @@ "b" :> <<6, 3>> @@ "e" :> <<5, 7>>

MCStreamBatches == {<<1, 2>>, <<>>, <<3>>}

MCLayer == [id \in VecIds |-> IF id = "b" THEN 1 ELSE 0]

MCGraphEdges == "p" :> <<"q">> @@ "q" :> <<"r", "p">> @@ "r" :> <<"t", "t">> @@ "t" :> <<>>

Cmp(col, op, val) == [t |-> "cmp", col |-> col, op |-> op, val |-> val]
All == [t |-> "all"]
And(l, r) == [t |-> "and", l |-> l, r |-> r]
Or(l, r) == [t |-> "or", l |-> l, r |-> r]
Stmt(op, where) == [op |-> op, where |-> where, cols |-> {}, order |-> <<>>, limit |-> {},
                    offset |-> {}, rows |-> <<>>, field |-> 0, words |-> <<>>]

(* The statement the second client runs beside the first one's. *)
RivalDelete == Stmt("Delete", [t |-> "in", col |-> 1, op |-> "In", negated |-> FALSE,
                               val |-> [kind |-> "array", v |-> {IntVal(2)}]])

TextStatements == {
    [Stmt("CreateFullTextIndex", All) EXCEPT !.field = 2],
    [Stmt("FullTextSearch", All) EXCEPT !.field = 2, !.words = <<"a", "the">>, !.limit = {1}],
    [Stmt("FullTextSearch", All) EXCEPT !.field = 2, !.words = <<"a">>]}

MCStatements == TextStatements \cup {
    [Stmt("Select", Cmp(1, "Gt", IntVal(1))) EXCEPT !.cols = {2}],
    [Stmt("Select", And(Cmp(1, "Eq", IntVal(1)),
                        [t |-> "null", col |-> 2, op |-> "IsNull", val |-> Null])) EXCEPT !.cols = {1}],
    [Stmt("Select", [t |-> "like", col |-> 2, op |-> "Like", val |-> Text(<<"a", "%">>),
                     negated |-> FALSE])
        EXCEPT !.limit = {2}, !.offset = {1}, !.order = <<[col |-> 2, desc |-> TRUE]>>],
    Stmt("Delete", Or(Cmp(1, "Eq", IntVal(1)), Cmp(2, "Gt", Text(<<"a">>)))),
    [Stmt("Update", And(Cmp(1, "Eq", IntVal(1)), Cmp(1, "Lt", FloatVal(2))))
        EXCEPT !.rows = <<1 :> IntVal(2) @@ 2 :> Text(<<"a">>)>>],
    RivalDelete,
    Stmt("VectorSearch", Cmp(1, "Ge", IntVal(2))),
    [Stmt("Insert", All) EXCEPT !.rows = <<1 :> IntVal(1), 1 :> IntVal(2)>>],
    [Stmt("Insert", All) EXCEPT !.rows = <<1 :> IntVal(2) @@ 2 :> Text(<<"a", "b">>)>>],
    [Stmt("Insert", All) EXCEPT !.rows = <<2 :> Text(<<"a", "a", "the">>)>>],
    [Stmt("CreateIndex", All) EXCEPT !.field = 1],
    [Stmt("DropIndex", All) EXCEPT !.field = 1]}

FieldDef(type, mods) == [type |-> type, mods |-> mods]
MCSchemaDefs == {"f" :> FieldDef("Int", {"required"}),
                 "f" :> FieldDef("Float", {"indexed"}) @@ "g" :> FieldDef("Int", {"unique"})}

-------------------------------------------------------------------------------
Init ==
    /\ scenario \in Scenarios
    /\ TieredInit /\ ReplicaInit /\ LocksInit /\ ShardInit /\ SyncInit /\ StreamInit
    /\ VectorInit /\ ScanInit /\ (scenario # "scan" => ~locking) /\ WireInit /\ QueryInit /\ RagInit /\ SchemaInit

(* Everything rests but the component c. *)
Only(c) ==
    /\ UNCHANGED scenario
    /\ IF c = "tiered" THEN TRUE ELSE UNCHANGED tieredVars
    /\ IF c = "replica" THEN TRUE ELSE UNCHANGED replicaVars
    /\ IF c = "locks" THEN TRUE ELSE UNCHANGED lockVars
    /\ IF c = "shards" THEN TRUE ELSE UNCHANGED shardVars
    /\ IF c = "sync" THEN TRUE ELSE UNCHANGED syncVars
    /\ IF c = "streams" THEN TRUE ELSE UNCHANGED streamVars
    /\ IF c = "vectors" THEN TRUE ELSE UNCHANGED vectorVars
    /\ IF c = "scan" THEN TRUE ELSE UNCHANGED scanVars
    /\ IF c = "wire" THEN TRUE ELSE UNCHANGED wireVars
    /\ IF c = "query" THEN TRUE ELSE UNCHANGED queryVars
    /\ IF c = "rag" THEN TRUE ELSE UNCHANGED ragVars
    /\ IF c = "schema" THEN TRUE ELSE UNCHANGED schemaVars

(* One call at a time on one node, with crashes. *)
OneNode == DOMAIN acked' \subseteq {"n1"}

Tier ==
    /\ scenario = "tier"
    /\ \/ InsertSteps(1) \/ ReadSteps(1) \/ DeleteSteps(1) \/ EvictSteps(1) \/ PromoteSteps(1)
       \/ CacheEvicts \/ CrashAndOpen
    /\ OneNode /\ Only("tiered")

(* Two calls at a time that do not conflict. *)
TierRace ==
    /\ scenario = "tierRace"
    /\ \E s \in Slots : InsertSteps(s) \/ ReadSteps(s) \/ DeleteSteps(s) \/ EvictSteps(s) \/ PromoteSteps(s)
    /\ OneNode /\ exposed' = {} /\ Only("tiered")

(* A listing of two nodes beside evictions, gets and the delete of one. *)
TierList ==
    /\ scenario = "tierList"
    /\ \/ BatchSteps(1) /\ DOMAIN acked' = Nodes
       \/ ListSteps(1) \/ ResolveCached(1) \/ ResolveFetch(1) \/ ResolveWarm(1)
       \/ EvictSteps(2) \/ ReadSteps(2) \/ DeleteSteps(2)
    /\ doomed' \subseteq {"n1"} /\ call'[2].op # "update"
    /\ exposed' = {} /\ Only("tiered")

(* Two nodes and their edges; n2 has no loop, and nodes with edges are not
   updated.                                                                *)
TierGraph ==
    /\ scenario = "tierGraph"
    /\ BatchSteps(1) \/ DeleteSteps(1) \/ GraphSteps(1) \/ ResolveWarm(1)
    /\ wired' # {} => acked' \in [Nodes -> Docs]
    /\ \A e \in DOMAIN db'.edges : "n1" \in {db'.edges[e].from, db'.edges[e].to}
    /\ exposed' = {} /\ Only("tiered")

(* Index builds beside inserts, evictions and crashes. *)
TierIndex ==
    /\ scenario = "tierIndex"
    /\ InsertSteps(1) \/ WriteThroughStep(1) \/ EvictSteps(1) \/ IndexSteps(2) \/ CrashAndOpen
    /\ OneNode /\ Only("tiered")

(* Replica 3 votes and never stands. *)
Votes == scenario = "votes" /\ VoteSteps /\ role'[3] = "follower" /\ Only("replica")

(* Replica r is the candidate of term r, replica 3 decides the elections, no
   response is handled (replica 3 alone sends those of appends), and while append_command is between two locks of a
   replica the others rest: what they would do they may do before it.      *)
Logs ==
    /\ scenario = "logs"
    /\ VoteSteps \/ LogSteps
    /\ \A r \in Replicas : role'[r] # "follower" => term'[r] = r
    /\ \A b \in ballots' : b[1] \in {b[3], 3}
    /\ \A h \in Callers : /\ handling'[h].pc \notin {"term", "vote", "role"}
                          /\ handling'[h].pc = "read" => Len(log[handling'[h].at]) < MaxLog
    /\ \A m \in msgs' : m.type = "AppendResponse" => m.from = 3
    /\ \A h \in Callers, r \in Replicas : r # handling[h].at /\ handling[h].pc # "idle" =>
          <<term[r], role[r], log[r]>> = <<term'[r], role'[r], log'[r]>>
    /\ Only("replica")

(* Threads are alike: the calls under way are in one order.  At most one is in
   a method that takes one lock at a time.                                 *)
MethodRank == [append_command |-> 1, request_vote |-> 2, append_entries |-> 3, response |-> 4,
               start_election |-> 5, become_leader |-> 6, create_heartbeat |-> 7,
               unapplied |-> 8, none |-> 0]
Locks ==
    /\ scenario = "locks" /\ LocksNext
    /\ \A t, u \in Threads : t < u /\ method'[u] # "none" => MethodRank[method'[t]] <= MethodRank[method'[u]]
    /\ Cardinality({t \in Threads : method'[t] \in {"append_command", "response", "become_leader"}}) <= 1
    /\ Only("locks")

(* One caller writes, the other one reads and deletes. *)
Shards == scenario = "shards" /\ ShardSteps /\ scall'[2].op # "insert" /\ Only("shards")
Counting == scenario = "counting" /\ CountingSteps /\ Only("shards")

(* A read-only site changes its files by downloads alone; the other one syncs
   and pushes, downloads do not overlap with that nor syncs with syncs; time
   does not pass during its calls.                                         *)
Sync ==
    /\ scenario = "sync" /\ SyncNext
    /\ \A s \in ReadonlySites : files'[s] # files[s] => edits' = edits
    /\ \A s \in Sites \ ReadonlySites : transfer'[s].op # "fetch"
    /\ clock' # clock => transfer["q"].op = "none"
    /\ transfer'["q"].op = "fetch" => transfer'["p"].op = "none"
    /\ transfer'["q"].op = "sync" => transfer'["p"].op # "sync"
    /\ Only("sync")
Streams == scenario = "streams" /\ StreamNext /\ Only("streams")

(* One call at a time on three vectors, a before c, b at 1, c at 0, any dimension,
   a's row alone deleted or updated; or two calls on two vectors.          *)
Vectors1 ==
    /\ scenario = "vectors" /\ (VectorCalls(1) \/ ReopenDatabase)
    /\ \A id \in DOMAIN vrows' :
          vrows'[id] \in (IF id = "c" THEN [dim : Dims, at : {0}]
                           ELSE [dim : {1}, at : IF id = "a" THEN {0, 1} ELSE {1}])
    /\ "c" \in embedded' => "a" \in embedded'
    /\ embedded' \subseteq DOMAIN vrows' \cup {"a"}
    /\ \A id \in {"b", "c"} \cap DOMAIN vrows : vrows'[id] = vrows[id]
    /\ Only("vectors")
Vectors2 ==
    /\ scenario = "vectorRace"
    /\ \E c \in VecCalls : EmbedRow(c) \/ EmbedFind(c) \/ EmbedInsert(c) \/ LazyList(c) \/ LazyFind(c)
                             \/ LazyLook(c) \/ LazyFill(c) \/ RebuildList(c) \/ RebuildSwap(c)
    /\ "c" \notin DOMAIN vrows' /\ Only("vectors")

Scan == scenario = "scan" /\ ScanNext /\ Only("scan")

(* Three connections for two places; a client asks at most one Ping, on which
   its task may panic.                                                     *)
Pool ==
    /\ scenario = "pool"
    /\ AdmissionSteps \/ \E c \in Conns : SendRequest(c) \/ Serve(c)
    /\ \A c \in Conns : asked'[c] <= 1 /\ \A i \in DOMAIN up'[c] : up'[c][i].msg.kind = "Ping"
    /\ Only("wire")

(* Client c1 and one other, with its framing or without, which are admitted
   before either asks anything; the other one asks once, one of three
   requests, and waits.                                                    *)
Talk ==
    /\ scenario = "talk"
    /\ AdmissionSteps \/ \E c \in Conns : TalkSteps(c)
    /\ ~stopping' /\ "new" \in {link'["c2"], link'["c3"]}
    /\ link'["c1"] = "backlog" => \A c \in {"c2", "c3"} : link'[c] = "new"
    /\ asked'["c2"] + asked'["c3"] <= 1 /\ gaveUp' \subseteq {"c1"}
    /\ \A c \in {"c2", "c3"} : \A i \in DOMAIN up'[c] :
          up'[c][i].msg.kind \in {"Ping", "InsertNode", "BeginTransaction"}
    /\ (\E c \in Conns : asked'[c] > 0) => loop'.pc = "accept" /\ active > 1
    /\ Only("wire")

(* One client runs every statement, the other one deletes rows meanwhile.  Two
   ids, drawn in order.                                                    *)
Sql ==
    /\ scenario = "sql" /\ StatementSteps
    /\ qdb'.ftRegistry = {} /\ \A n \in DOMAIN qdb'.payloads : 1 \in DOMAIN qdb'.payloads[n]
    /\ qcall'[2].pc # "idle" => /\ qcall'[1].pc # "idle" /\ qcall'[1].stmt.op \in {"Select", "Update"}
                                /\ qcall'[2].stmt = RivalDelete /\ qcall'[2].query.limit = {}
    /\ \A n \in qborn' : n < 3 /\ 1 .. n \subseteq qborn'
    /\ qcall'[1].pc # "idle" => (1 \in qcall'[1].query.limit) = (2 \in qcall'[1].stmt.limit)
    /\ Only("query")

(* Full-text searches, with and without a caller's limit, beside deletes. *)
TextSearches ==
    /\ scenario = "text" /\ StatementSteps
    /\ qdb'.registry = {}
    /\ \A c \in QueryCalls : qcall'[c].pc # "idle" =>
          qcall'[c].stmt \in (IF c = 1 THEN TextStatements ELSE {RivalDelete})
    /\ \A n \in qborn' : 1 .. n \subseteq qborn'
    /\ Only("query")

(* Ids are drawn in order; edges are of one type, but for one of the other. *)
Graph ==
    /\ scenario = "graph" /\ GraphQuerySteps
    /\ Cardinality({e \in DOMAIN qdb'.edges : qdb'.edges[e].type = "l"}) <= 1
    /\ \A n \in qborn' : 1 .. n \subseteq qborn'
    /\ Only("query")

(* At most one character of two bytes, in at most six. *)
ChunkDocuments ==
    /\ scenario = "chunks" /\ ChunkSteps
    /\ Bytes(document') <= Min({Len(document') + 1, 6})
    /\ Only("rag")

(* A plain retrieval looks at the vector ranking alone. *)
Ranks ==
    /\ scenario = "ranks" /\ RankSteps
    /\ context'.pc = "run" => keywordRanks = <<>>
    /\ Cardinality(context'.gone) <= 2
    /\ Only("rag")

(* Rows are numbered in order, data is inserted under one name, and one of the
   two callers only works on that name.                                    *)
Schema ==
    /\ scenario = "schema" /\ SchemaSteps
    /\ data'["t"] = 0 /\ (smcall'[1].pc # "idle" => smcall'[1].name = "s")
    /\ \A r \in minted' : 1 .. r \subseteq minted'
    /\ Only("schema")

Next ==
    \/ Tier \/ TierRace \/ TierList \/ TierGraph \/ TierIndex \/ Votes \/ Logs \/ Locks \/ Shards \/ Counting
    \/ Sync \/ Streams \/ Vectors1 \/ Vectors2 \/ Scan \/ Pool \/ Talk \/ Sql \/ TextSearches \/ Graph
    \/ ChunkDocuments \/ Ranks \/ Schema

vars == <<scenario, tieredVars, replicaVars, lockVars, shardVars, syncVars, streamVars, vectorVars,
          scanVars, wireVars, queryVars, ragVars, schemaVars>>

Spec == Init /\ [][Next]_vars
===============================================================================
