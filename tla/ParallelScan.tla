----------------------------- MODULE ParallelScan -----------------------------
(***************************************************************************)
(* ParallelExecutor::parallel_traverse (src/storage/parallel.rs): one task *)
(* per start node walks the graph breadth first, each with a queue of its  *)
(* own, all with one visited set.  A node is claimed under the write lock; *)
(* its row and edges are read after that.  The graph does not change.      *)
(*                                                                         *)
(* Every task opens the database file again.  redb locks the file where    *)
(* the system has file locks, and then, the caller having it open, refuses *)
(* (the module's own test is ignored for that): the call fails.            *)
(***************************************************************************)
EXTENDS Integers, Sequences, FiniteSets, SequencesExt

CONSTANTS
    GraphNodes,     \* ids
    GraphRows,      \* the ids that have a row: edges may dangle
    GraphEdges,     \* id -> its edges' ends, in the order read, filter applied
    MaxDepth        \* the largest max_depth asked for

ASSUME ScanConstants ==
    /\ GraphRows \subseteq GraphNodes /\ MaxDepth \in Nat
    /\ GraphEdges \in [GraphNodes -> Seq(GraphNodes)]

VARIABLES
    locking,        \* redb's file lock is there
    answered,       \* what the call returned: "", "ok" or "error"
    walks,          \* start -> [opened, queue, at, nodes, edges, merged]
    maxDepth,       \* max_depth of the call
    visited,        \* the global visited set
    scanNodes,      \* the merged node list
    scanEdges       \* the merged edges, as <<from, position>>

scanVars == <<locking, answered, walks, maxDepth, visited, scanNodes, scanEdges>>

NoWalks == <<>>

ScanInit ==
    /\ locking \in BOOLEAN /\ answered = ""
    /\ walks = NoWalks /\ maxDepth = 0
    /\ visited = {} /\ scanNodes = <<>> /\ scanEdges = <<>>

(* The call: a task for each start node, which first opens the database. *)
StartScan == \E starts \in SUBSET GraphNodes \ {{}}, depth \in 0 .. MaxDepth :
    /\ walks = NoWalks
    /\ maxDepth' = depth
    /\ walks' = [s \in starts |->
          [opened |-> ~locking, queue |-> <<[id |-> s, depth |-> 0]>>, at |-> {}, nodes |-> <<>>,
           edges |-> <<>>, merged |-> FALSE]]
    /\ UNCHANGED <<locking, answered, visited, scanNodes, scanEdges>>

(* Mutant: the test and the insert are not one critical section. *)
ClaimNode_NoTest(t) ==
    LET w == walks[t]  next == Head(w.queue) IN
    /\ w.opened /\ w.queue # <<>> /\ w.at = {}
    /\ visited' = visited \cup {next.id}
    /\ walks' = [walks EXCEPT ![t].queue = Tail(@), ![t].at = {next}]
    /\ UNCHANGED <<locking, answered, maxDepth, scanNodes, scanEdges>>

ClaimNode(t) ==
    LET w == walks[t]  next == Head(w.queue) IN
    /\ w.opened /\ w.queue # <<>> /\ w.at = {}
    /\ visited' = visited \cup {next.id}
    /\ walks' = [walks EXCEPT ![t].queue = Tail(@),
                              ![t].at = IF next.id \in visited THEN {} ELSE {next}]
    /\ UNCHANGED <<locking, answered, maxDepth, scanNodes, scanEdges>>

(* The row if there is one; short of max_depth the edges, and a queue entry
   for every end that no task has visited yet.                             *)
ExpandNode(t) ==
    LET w == walks[t] IN
    /\ \E now \in w.at :
         LET ends  == IF now.depth >= maxDepth THEN <<>> ELSE GraphEdges[now.id]
             fresh == SelectSeq(ends, LAMBDA e : e \notin visited)
         IN  walks' = [walks EXCEPT ![t] =
                 [w EXCEPT
                   !.at = {},
                   !.nodes = IF now.id \in GraphRows THEN Append(@, now.id) ELSE @,
                   !.edges = @ \o [i \in DOMAIN ends |-> <<now.id, i>>],
                   !.queue = @ \o [i \in DOMAIN fresh |->
                                      [id |-> fresh[i], depth |-> now.depth + 1]]]]
    /\ UNCHANGED <<locking, answered, maxDepth, visited, scanNodes, scanEdges>>

MergeWalk(t) ==
    LET w == walks[t] IN
    /\ w.opened /\ w.queue = <<>> /\ w.at = {} /\ ~w.merged
    /\ scanNodes' = scanNodes \o w.nodes
    /\ scanEdges' = scanEdges \o w.edges
    /\ walks' = [walks EXCEPT ![t].merged = TRUE]
    /\ UNCHANGED <<locking, answered, maxDepth, visited>>

(* The handles are awaited; the error of one is the answer. *)
AnswerScan ==
    /\ walks # NoWalks /\ answered = ""
    /\ \/ (\E t \in DOMAIN walks : ~walks[t].opened) /\ answered' = "error"
       \/ (\A t \in DOMAIN walks : walks[t].merged) /\ answered' = "ok"
    /\ UNCHANGED <<locking, walks, maxDepth, visited, scanNodes, scanEdges>>

ScanNext ==
    \/ StartScan \/ AnswerScan
    \/ \E t \in DOMAIN walks : ClaimNode(t) \/ ExpandNode(t) \/ MergeWalk(t)

-------------------------------------------------------------------------------
(* The nodes at most n edges from s. *)
RECURSIVE Within(_, _)
Within(S, n) ==
    IF n = 0 THEN S
    ELSE Within(S \cup UNION {Range(GraphEdges[id]) : id \in S}, n - 1)

(* However the tasks interleave, no node and no edge is returned twice, none
   that is further than max_depth from every start node, and every start node
   is.  The answer is all nodes within max_depth if there was one task or the
   depth cannot bind.  With several tasks and a binding depth a node may be
   claimed by the task to which it is farther, and what lies behind it is
   then missing: that is as much as holds.                                 *)
TraversalExact ==
    /\ Cardinality(Range(scanNodes)) = Len(scanNodes)
    /\ Cardinality(Range(scanEdges)) = Len(scanEdges)
    /\ answered = "ok" =>
          LET starts == DOMAIN walks
              near   == Within(starts, maxDepth) \cap GraphRows
          IN  /\ Range(scanNodes) \subseteq near
              /\ starts \cap GraphRows \subseteq Range(scanNodes)
              /\ Cardinality(starts) = 1 \/ maxDepth >= Cardinality(GraphNodes)
                    => Range(scanNodes) = near
===============================================================================
