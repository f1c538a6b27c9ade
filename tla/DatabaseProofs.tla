---------------------------- MODULE DatabaseProofs ----------------------------
(***************************************************************************)
(* Theorems about the v1 database: the server's connection pool and the    *)
(* pairing of answers with requests, the replica set's elections and logs, *)
(* the order in which its methods lock, the transfers to and from the      *)
(* bucket, streamed results, the shards with their ring and filters, and   *)
(* schemas with their migrations.                                          *)
(***************************************************************************)
EXTENDS WireServer, ReplicaSet, ReplicaLocks, BucketSync, ResultStreams, ShardSet,
        SchemaManager, NaturalSets, FiniteSetTheorems, SequenceTheorems, TLAPS

-------------------------------------------------------------------------------
(* The connection pool. *)

Running == {c \in Conns : link[c] \in {"open", "ended", "leaked"}}

(* The accept loop carries a connection that still waits in the backlog, and
   a count it has compared with the limit.                                 *)
LoopOk ==
    \/ loop \in [pc : {"check", "accept", "stopped"}]
    \/ loop \in [pc : {"acquire"}, conn : Conns] /\ link[loop.conn] = "backlog"
    \/ /\ loop \in [pc : {"exchange"}, conn : Conns, seen : 0 .. MaxConnections - 1]
       /\ link[loop.conn] = "backlog"

(* After a late admission the loop has nothing to do but look at the flag. *)
LateOk ==
    \/ late = {}
    \/ stopping /\ loop.pc \in {"check", "stopped"} /\ \E c : late = {c}

LinkStates == {"new", "backlog", "open", "ended", "gone", "leaked"}

(* PoolExact strengthened by where the accept loop stands. *)
PoolInv ==
    /\ link \in [Conns -> LinkStates] /\ active \in Nat /\ stopping \in BOOLEAN
    /\ LoopOk
    /\ IsFiniteSet(Running) /\ active = Cardinality(Running)
    /\ active <= MaxConnections
    /\ LateOk

LEMMA PoolImplies == PoolInv => PoolExact
<1> SUFFICES ASSUME PoolInv PROVE PoolExact
  OBVIOUS
<1>1. Cardinality(late) <= 1
  <2>1. CASE late = {}
    BY <2>1, FS_EmptySet
  <2>2. ASSUME NEW c, late = {c} PROVE Cardinality(late) <= 1
    <3>1. Cardinality({c}) = 1
      BY FS_Singleton
    <3> QED
      BY <2>2, <3>1
  <2> QED
    BY <2>1, <2>2 DEF PoolInv, LateOk
<1> QED
  BY <1>1 DEF PoolInv, Running, PoolExact

LEMMA PoolStarts == WireInit => PoolInv
<1> SUFFICES ASSUME WireInit PROVE PoolInv
  OBVIOUS
<1> USE DEF WireInit
<1>1. Running = {}
  BY DEF Running
<1>2. link \in [Conns -> LinkStates]
  BY DEF LinkStates
<1>3. loop \in [pc : {"check", "accept", "stopped"}]
  OBVIOUS
<1>4. LoopOk /\ LateOk
  BY <1>3 DEF LoopOk, LateOk
<1>5. active = 0 /\ stopping \in BOOLEAN
  OBVIOUS
<1>6. IsFiniteSet(Running) /\ active = Cardinality(Running)
  BY <1>1, <1>5, FS_EmptySet, Zenon
<1> HIDE DEF WireInit
<1>7. active \in Nat /\ active <= MaxConnections
  BY <1>5, WireConstants
<1> QED
  BY <1>2, <1>4, <1>5, <1>6, <1>7 DEF PoolInv

(* A link that changes between two states that both count, or neither. *)
LEMMA LinkKeeps ==
    ASSUME PoolInv, NEW c \in Conns, NEW s \in LinkStates,
           link' = [link EXCEPT ![c] = s], active' = active,
           link[c] \in {"open", "ended", "leaked"} <=> s \in {"open", "ended", "leaked"}
    PROVE  /\ link' \in [Conns -> LinkStates] /\ active' \in Nat
           /\ IsFiniteSet(Running') /\ active' = Cardinality(Running')
           /\ active' <= MaxConnections
<1>1. Running' = Running /\ link' \in [Conns -> LinkStates]
  BY DEF PoolInv, Running
<1> QED
  BY <1>1 DEF PoolInv

LEMMA PoolKept == PoolInv /\ [WireNext]_wireVars => PoolInv'
<1> SUFFICES ASSUME PoolInv, [WireNext]_wireVars PROVE PoolInv'
  OBVIOUS
<1> USE DEF LinkStates
<1>1. CASE UNCHANGED wireVars
  BY <1>1 DEF PoolInv, Running, LoopOk, LateOk, wireVars, linkVars
<1>2. CASE LoopCheck
  <2>1. UNCHANGED <<link, active, stopping, late>> /\ Running' = Running
    BY <1>2 DEF LoopCheck, linkVars, Running
  <2>2. LoopOk'
    <3>1. loop' = [pc |-> IF stopping THEN "stopped" ELSE "accept"]
      BY <1>2 DEF LoopCheck
    <3>2. loop' \in [pc : {"check", "accept", "stopped"}]
      BY <3>1
    <3> QED
      BY <3>2 DEF LoopOk
  <2>3. LateOk'
    <3>1. stopping => loop'.pc = "stopped"
      BY <1>2 DEF LoopCheck
    <3> QED
      BY <2>1, <3>1 DEF LateOk, PoolInv
  <2> QED
    BY <2>1, <2>2, <2>3 DEF PoolInv
<1>3. CASE AcquireLoad
  <2>1. loop \in [pc : {"acquire"}, conn : Conns] /\ link[loop.conn] = "backlog" /\ late = {}
    BY <1>3 DEF AcquireLoad, PoolInv, LoopOk, LateOk
  <2>2. CASE active >= MaxConnections
    <3>1. link' = [link EXCEPT ![loop.conn] = "gone"] /\ loop' = [pc |-> "check"]
          /\ UNCHANGED <<active, stopping, late>>
      BY <1>3, <2>2 DEF AcquireLoad
    <3>2. LoopOk' /\ LateOk'
      BY <2>1, <3>1 DEF LoopOk, LateOk
    <3> QED
      BY <2>1, <3>1, <3>2, LinkKeeps DEF PoolInv
  <2>3. CASE ~(active >= MaxConnections)
    <3>1. loop' = [pc |-> "exchange", conn |-> loop.conn, seen |-> active]
          /\ UNCHANGED <<active, stopping, late, link>>
      BY <1>3, <2>3 DEF AcquireLoad
    <3>2. active \in 0 .. MaxConnections - 1
      BY <2>3, WireConstants DEF PoolInv
    <3>3. LoopOk' /\ LateOk'
      BY <2>1, <3>1, <3>2 DEF LoopOk, LateOk
    <3> QED
      BY <3>1, <3>3 DEF PoolInv, Running
  <2> QED
    BY <2>2, <2>3
<1>4. CASE AcquireExchange
  <2>1. loop \in [pc : {"exchange"}, conn : Conns, seen : 0 .. MaxConnections - 1]
        /\ link[loop.conn] = "backlog" /\ late = {}
    BY <1>4 DEF AcquireExchange, PoolInv, LoopOk, LateOk
  <2>2. CASE active = loop.seen
    <3>1. link' = [link EXCEPT ![loop.conn] = "open"] /\ loop' = [pc |-> "check"]
          /\ active' = active + 1 /\ UNCHANGED stopping
          /\ late' = IF stopping THEN late \cup {loop.conn} ELSE late
      BY <1>4, <2>2 DEF AcquireExchange
    <3>2. Running' = Running \cup {loop.conn} /\ loop.conn \notin Running
      BY <2>1, <3>1 DEF PoolInv, Running
    <3>3. IsFiniteSet(Running') /\ active' = Cardinality(Running')
      BY <3>1, <3>2, FS_AddElement DEF PoolInv
    <3>4. LoopOk' /\ LateOk'
      BY <2>1, <3>1 DEF LoopOk, LateOk
    <3>5. active' \in Nat /\ active' <= MaxConnections
      BY <2>1, <2>2, <3>1, WireConstants DEF PoolInv
    <3> QED
      BY <2>1, <3>1, <3>3, <3>4, <3>5 DEF PoolInv
  <2>3. CASE active # loop.seen
    <3>1. loop' = [pc |-> "acquire", conn |-> loop.conn]
          /\ UNCHANGED <<active, stopping, late, link>>
      BY <1>4, <2>3 DEF AcquireExchange
    <3>2. LoopOk' /\ LateOk'
      BY <2>1, <3>1 DEF LoopOk, LateOk
    <3> QED
      BY <3>1, <3>2 DEF PoolInv, Running
  <2> QED
    BY <2>2, <2>3
<1>5. CASE Shutdown
  <2>1. stopping' = TRUE /\ UNCHANGED <<loop, active, late, link>>
    BY <1>5 DEF Shutdown, linkVars
  <2> QED
    BY <2>1 DEF PoolInv, Running, LoopOk, LateOk
<1>6. ASSUME NEW c \in Conns, Connect(c) PROVE PoolInv'
  <2>1. link[c] = "new" /\ link' = [link EXCEPT ![c] = "backlog"]
        /\ UNCHANGED <<loop, active, stopping, late>>
    BY <1>6 DEF Connect
  <2>2. LoopOk' /\ LateOk'
    BY <2>1 DEF PoolInv, LoopOk, LateOk
  <2> QED
    BY <2>1, <2>2, LinkKeeps DEF PoolInv
<1>7. ASSUME NEW c \in Conns, Accept(c) PROVE PoolInv'
  <2>1. link[c] = "backlog" /\ loop' = [pc |-> "acquire", conn |-> c] /\ loop.pc = "accept"
        /\ UNCHANGED <<active, stopping, late, link>>
    BY <1>7 DEF Accept, linkVars
  <2>2. LoopOk' /\ LateOk'
    BY <2>1 DEF PoolInv, LoopOk, LateOk
  <2> QED
    BY <2>1, <2>2 DEF PoolInv, Running
<1>8. ASSUME NEW c \in Conns, Release(c) PROVE PoolInv'
  <2>1. link[c] = "ended" /\ link' = [link EXCEPT ![c] = "gone"] /\ active' = active - 1
        /\ UNCHANGED <<loop, stopping, late>>
    BY <1>8 DEF Release
  <2>2. LoopOk' /\ LateOk'
    BY <2>1 DEF PoolInv, LoopOk, LateOk
  <2>3. Running' = Running \ {c} /\ c \in Running
    BY <2>1 DEF PoolInv, Running
  <2>4. IsFiniteSet(Running') /\ active' = Cardinality(Running')
    BY <2>1, <2>3, FS_RemoveElement DEF PoolInv
  <2>5. active' \in Nat /\ active' <= MaxConnections
    BY <2>1, <2>4, FS_CardinalityType, WireConstants DEF PoolInv
  <2> QED
    BY <2>1, <2>2, <2>4, <2>5 DEF PoolInv
<1>9. ASSUME NEW c \in Conns, NEW s \in {"ended", "leaked"}, link[c] = "open", link' = [link EXCEPT ![c] = s],
             UNCHANGED <<loop, active, stopping, late>>
      PROVE  PoolInv'
  <2>1. LoopOk' /\ LateOk'
    BY <1>9 DEF PoolInv, LoopOk, LateOk
  <2> QED
    BY <1>9, <2>1, LinkKeeps DEF PoolInv
<1>10. ASSUME UNCHANGED <<link, loop, active, stopping, late>> PROVE PoolInv'
  BY <1>10 DEF PoolInv, Running, LoopOk, LateOk
<1>11. ASSUME NEW c \in Conns, Serve(c) PROVE PoolInv'
  <2>1. link[c] = "open" /\ UNCHANGED <<loop, active, stopping, late>>
        /\ \/ link' = [link EXCEPT ![c] = "ended"] \/ link' = [link EXCEPT ![c] = "leaked"]
           \/ link' = [link EXCEPT ![c] = @] \/ link' = link
    BY <1>11 DEF Serve, handlerVars
  <2>2. [link EXCEPT ![c] = @] = link
    BY DEF PoolInv
  <2> QED
    BY <1>9, <1>10, <2>1, <2>2
<1>12. ASSUME NEW c \in Conns, TalkSteps(c) PROVE PoolInv'
  BY <1>10, <1>11, <1>12 DEF TalkSteps, SendRequest, DropCall, ReadAnswer, ReadFails
<1>13. ASSUME NEW c \in Conns, Hangup(c) PROVE PoolInv'
  BY <1>9, <1>13 DEF Hangup
<1> QED
  BY <1>1, <1>2, <1>3, <1>4, <1>5, <1>6, <1>7, <1>8, <1>12, <1>13 DEF WireNext, AdmissionSteps

(* However many connections come and go, in every order of the accept loop's
   load and compare_exchange with the releases of ended tasks, the pool counts
   exactly the running ones and those whose task panicked, never exceeds
   max_connections, and admits at most one connection after shutdown.      *)
THEOREM PoolIsExact == WireSpec => []PoolExact
<1>1. WireSpec => []PoolInv
  BY PoolStarts, PoolKept, PTL DEF WireSpec
<1> QED
  BY <1>1, PoolImplies, PTL

-------------------------------------------------------------------------------
(* Answers and requests. *)

Msgs == [kind : RequestKinds, no : Nat] \cup [kind : RequestKinds, no : Nat, tx : Nat]

Calls(r) == r \in [kind : RequestKinds, no : Nat]

(* Where the one call of a patient client can be: its request is on the way,
   its answer is, or the server hung up on it.                             *)
Sent(c, r) ==
    /\ down[c] = <<>> /\ up[c] # <<>> /\ Tail(up[c]) = <<>>
    /\ Head(up[c]).msg.kind = r.kind /\ Head(up[c]).msg.no = r.no

Answered(c, r) ==
    /\ up[c] = <<>> /\ down[c] # <<>> /\ Tail(down[c]) = <<>>
    /\ Head(down[c]).msg.no = r.no /\ Head(down[c]).msg.kind \in {Expects[r.kind], "Error"}

HungUp(c) == up[c] = <<>> /\ down[c] = <<>> /\ link[c] \in {"ended", "gone", "leaked"}

Resting(c) == down[c] = <<>> /\ (up[c] = <<>> \/ link[c] \in {"ended", "gone", "leaked"})

TalkOk(c) ==
    \/ waits[c] = {} /\ Resting(c)
    \/ \E r : Calls(r) /\ waits[c] = {r} /\ (Sent(c, r) \/ Answered(c, r) \/ HungUp(c))

(* Every request on the way has its client's framing. *)
UpFrames(c) == {f \in [marked : BOOLEAN, msg : Msgs] : f.marked = (c \in CompressingClients)}

TalkTypes ==
    /\ link \in [Conns -> LinkStates]
    /\ DOMAIN up = Conns /\ \A c \in Conns : up[c] \in Seq(UpFrames(c))
    /\ up = [c \in Conns |-> up[c]] /\ down = [c \in Conns |-> down[c]]
    /\ waits = [c \in Conns |-> waits[c]] /\ asked \in [Conns -> Nat]

(* An ended transaction's number is given out and no longer open. *)
TxOk ==
    /\ txCounter \in Nat /\ txs \in SUBSET (0 .. txCounter - 1)
    /\ ends \in Seq((0 .. txCounter - 1) \X TxRequests)
    /\ \A i \in DOMAIN ends : ends[i][1] \notin txs
    /\ \A i, j \in DOMAIN ends : ends[i][1] = ends[j][1] => i = j

(* AnswersPaired strengthened by where each call is. *)
TalkInv ==
    /\ TalkTypes
    /\ mixed \subseteq gaveUp
    /\ \A c \in Conns \ gaveUp : TalkOk(c)
    /\ TxOk
    /\ \A s \in stored : (s[1] \in CompressingClients) = ServerCompression

(* The handler answers a request with what the client's method expects, or
   with an error: the two tables agree.                                    *)
LEMMA RespondFits ==
    ASSUME NEW r, r.kind \in RequestKinds, NEW a \in Respond(r)
    PROVE  a.no = r.no /\ a.kind \in {Expects[r.kind], "Error"}
<1>1. r.kind \in DOMAIN Expects
  BY WireConstants
<1>2. DOMAIN Expects = DOMAIN NodeMethods \cup DOMAIN OtherMethods
  BY DEF Expects, Both
<1>3. \A k \in DOMAIN Expects : Expects[k] = IF k \in DOMAIN NodeMethods THEN NodeMethods[k] ELSE OtherMethods[k]
  BY DEF Expects, Both
<1>4. DOMAIN Handlers = (DOMAIN OnNodes \cup DOMAIN OnEdges) \cup (DOMAIN OnStatus \cup DOMAIN DbOnly)
  BY DEF Handlers, Both
<1>5. \A k \in DOMAIN Handlers : Handlers[k] =
        IF k \in DOMAIN OnNodes THEN OnNodes[k] ELSE IF k \in DOMAIN OnEdges THEN OnEdges[k]
        ELSE IF k \in DOMAIN OnStatus THEN OnStatus[k] ELSE DbOnly[k]
  BY DEF Handlers, Both
<1>6. r.kind \in {"Ping", "Disconnect", "InsertNode", "GetNode", "UpdateNode", "DeleteNode",
                  "GetNodesByType", "CreateEdge", "GetEdgesFrom", "Query", "Status",
                  "BeginTransaction", "CommitTransaction", "RollbackTransaction"}
  BY <1>1, <1>2 DEF NodeMethods, OtherMethods
<1>7. r.kind \in DOMAIN Handlers => Handlers[r.kind] = Expects[r.kind]
  BY <1>1, <1>2, <1>3, <1>4, <1>5, <1>6
     DEF NodeMethods, OtherMethods, OnNodes, OnEdges, OnStatus, DbOnly
<1>8. r.kind \notin DOMAIN Handlers =>
        r.kind \in {"Ping", "Disconnect", "BeginTransaction", "CommitTransaction", "RollbackTransaction"}
  BY <1>4, <1>6 DEF OnNodes, OnEdges, OnStatus, DbOnly
<1>9. /\ r.kind = "Ping" => Expects[r.kind] = "Pong"
      /\ r.kind = "Disconnect" => Expects[r.kind] = "Goodbye"
      /\ r.kind = "BeginTransaction" => Expects[r.kind] = "TransactionStarted"
      /\ r.kind = "CommitTransaction" => Expects[r.kind] = "TransactionCommitted"
      /\ r.kind = "RollbackTransaction" => Expects[r.kind] = "TransactionRolledBack"
  BY <1>1, <1>2, <1>3 DEF NodeMethods, OtherMethods
<1>10. r.kind \in DOMAIN Handlers =>
         r.kind \notin {"Ping", "Disconnect", "BeginTransaction", "CommitTransaction", "RollbackTransaction"}
  BY <1>4 DEF OnNodes, OnEdges, OnStatus, DbOnly
<1> HIDE DEF Handlers, Expects
<1>11. CASE r.kind \in DOMAIN Handlers
  <2>1. Respond(r) \subseteq {Answer(r, "Error"), Answer(r, Handlers[r.kind])}
    <3>1. Respond(r) = {Answer(r, "Error")} \cup
                (IF ShardedMode /\ r.kind \in DOMAIN DbOnly THEN {} ELSE {Answer(r, Handlers[r.kind])})
      BY <1>10, <1>11 DEF Respond
    <3>2. CASE ShardedMode /\ r.kind \in DOMAIN DbOnly
      BY <3>1, <3>2
    <3>3. CASE ~(ShardedMode /\ r.kind \in DOMAIN DbOnly)
      BY <3>1, <3>3
    <3> QED
      BY <3>2, <3>3
  <2>2. a = Answer(r, "Error") \/ a = Answer(r, Expects[r.kind])
    BY <2>1, <1>7, <1>11
  <2> QED
    BY <2>2 DEF Answer
<1>12. CASE r.kind \notin DOMAIN Handlers
  <2>1. CASE r.kind = "CommitTransaction"
    BY <1>9, <1>12, <2>1 DEF Respond, Answer
  <2>2. CASE r.kind = "RollbackTransaction"
    BY <1>9, <1>12, <2>2 DEF Respond, Answer
  <2>3. CASE r.kind \in {"Ping", "Disconnect", "BeginTransaction"}
    BY <1>9, <1>12, <2>3 DEF Respond, Answer
  <2> QED
    BY <1>8, <1>12, <2>1, <2>2, <2>3
<1> QED
  BY <1>11, <1>12

LEMMA TalkStarts == WireInit => TalkInv
<1> SUFFICES ASSUME WireInit PROVE TalkInv
  OBVIOUS
<1>1. TalkTypes
  BY DEF WireInit, TalkTypes, LinkStates
<1>2. \A c \in Conns : TalkOk(c)
  BY DEF WireInit, TalkOk, Resting
<1>3. TxOk
  BY DEF WireInit, TxOk
<1> QED
  BY <1>1, <1>2, <1>3 DEF WireInit, TalkInv

(* Ending or beginning a transaction keeps the ended ones apart. *)
LEMMA TxKept ==
    ASSUME TxOk, NEW c, NEW r, HandlerEffect(c, r)
    PROVE  TxOk'
<1>1. CASE UNCHANGED <<txs, txCounter, ends>>
  BY <1>1 DEF TxOk
<1>2. CASE txs' = txs \cup {txCounter} /\ txCounter' = txCounter + 1 /\ ends' = ends
  <2>1. txCounter' \in Nat /\ 0 .. txCounter - 1 \subseteq 0 .. txCounter' - 1
    BY <1>2 DEF TxOk
  <2>2. txs' \in SUBSET (0 .. txCounter' - 1)
    BY <1>2, <2>1 DEF TxOk
  <2>3. ends' \in Seq((0 .. txCounter' - 1) \X TxRequests)
    BY <1>2, <2>1 DEF TxOk
  <2>4. ASSUME NEW i \in DOMAIN ends PROVE ends[i][1] \notin txs'
    <3>1. ends[i][1] \in 0 .. txCounter - 1
      BY DEF TxOk
    <3> QED
      BY <3>1, <1>2 DEF TxOk
  <2> QED
    BY <1>2, <2>1, <2>2, <2>3, <2>4 DEF TxOk
<1>3. CASE r.tx \in txs /\ txs' = txs \ {r.tx} /\ ends' = Append(ends, <<r.tx, r.kind>>)
             /\ txCounter' = txCounter /\ r.kind \in TxRequests
  <2>1. <<r.tx, r.kind>> \in (0 .. txCounter - 1) \X TxRequests
    BY <1>3 DEF TxOk
  <2>2. ends' \in Seq((0 .. txCounter - 1) \X TxRequests)
    BY <1>3, <2>1 DEF TxOk
  <2>3. DOMAIN ends' = DOMAIN ends \cup {Len(ends) + 1} /\ ends'[Len(ends) + 1][1] = r.tx
    BY <1>3, <2>1 DEF TxOk
  <2>4. \A i \in DOMAIN ends : ends'[i] = ends[i] /\ ends[i][1] # r.tx /\ i # Len(ends) + 1
    BY <1>3, <2>1 DEF TxOk
  <2>5. \A i \in DOMAIN ends' : ends'[i][1] \notin txs'
    BY <1>3, <2>3, <2>4 DEF TxOk
  <2>6. \A i, j \in DOMAIN ends' : ends'[i][1] = ends'[j][1] => i = j
    BY <2>3, <2>4 DEF TxOk
  <2> QED
    BY <1>3, <2>2, <2>5, <2>6 DEF TxOk
<1>4. CASE r.kind = "BeginTransaction"
  BY <1>2, <1>4 DEF HandlerEffect
<1>5. CASE r.kind \in {"CommitTransaction", "RollbackTransaction"} /\ r.tx \in txs
  <2>1. r.kind # "BeginTransaction" /\ r.kind \in TxRequests
    BY <1>5 DEF TxRequests
  <2>2. txs' = txs \ {r.tx} /\ ends' = Append(ends, <<r.tx, r.kind>>) /\ txCounter' = txCounter
    BY <1>5, <2>1 DEF HandlerEffect
  <2> QED
    BY <1>3, <1>5, <2>1, <2>2
<1>6. CASE r.kind # "BeginTransaction"
           /\ ~(r.kind \in {"CommitTransaction", "RollbackTransaction"} /\ r.tx \in txs)
  <2>1. UNCHANGED <<txs, txCounter, ends>>
    BY <1>6 DEF HandlerEffect
  <2> QED
    BY <1>1, <2>1
<1> QED
  BY <1>4, <1>5, <1>6

(* A step of one connection leaves the talk of another. *)
LEMMA OthersTalk ==
    ASSUME NEW d \in Conns, TalkOk(d), up'[d] = up[d], down'[d] = down[d],
           waits'[d] = waits[d], link'[d] = link[d]
    PROVE  TalkOk(d)'
  BY DEF TalkOk, Resting, Sent, Answered, HungUp

(* A link that changes, but never back from its end, leaves it too, as long as
   no request is in the way.                                               *)
LEMMA LinkMoves ==
    ASSUME NEW d \in Conns, TalkOk(d), up' = up, down' = down, waits' = waits,
           link[d] \in {"ended", "gone", "leaked"} => link'[d] \in {"ended", "gone", "leaked"}
    PROVE  TalkOk(d)'
  BY DEF TalkOk, Resting, Sent, Answered, HungUp

LEMMA ServeKept ==
    ASSUME TalkInv, NEW c \in Conns, Serve(c)
    PROVE  TalkInv'
<1> DEFINE frame == Head(up[c])
           r == frame.msg
           reply(a) == [marked |-> ServerCompression, msg |-> a]
<1>1. link[c] = "open" /\ up[c] # <<>> /\ up[c] \in Seq(UpFrames(c))
      /\ up' = [up EXCEPT ![c] = Tail(@)] /\ UNCHANGED <<waits, asked, gaveUp, mixed>>
  BY DEF Serve, TalkInv, TalkTypes
<1>2. frame \in UpFrames(c) /\ Tail(up[c]) \in Seq(UpFrames(c))
  BY <1>1
<1>3. r.kind \in RequestKinds /\ frame.marked = (c \in CompressingClients) /\ frame.marked \in BOOLEAN
  BY <1>2 DEF UpFrames, Msgs
<1>4. PICK kind : \/ link' = link
                  \/ link' = [link EXCEPT ![c] = kind] /\ kind \in {"open", "ended", "leaked"}
  <2>1. [link EXCEPT ![c] = IF r.kind = "Disconnect" THEN "ended" ELSE @]
          = [link EXCEPT ![c] = IF r.kind = "Disconnect" THEN "ended" ELSE "open"]
    BY <1>1
  <2> QED
    BY <2>1 DEF Serve
<1>5. link' \in [Conns -> LinkStates] /\ \A d \in Conns \ {c} : link'[d] = link[d]
  BY <1>4 DEF TalkInv, TalkTypes, LinkStates
<1>6. down' = down \/ \E f : down' = [down EXCEPT ![c] = Append(@, f)]
  BY DEF Serve
<1>7. /\ DOMAIN up' = Conns /\ up' = [d \in Conns |-> up'[d]] /\ up'[c] = Tail(up[c])
      /\ \A d \in Conns \ {c} : up'[d] = up[d] /\ down'[d] = down[d]
      /\ down' = [d \in Conns |-> down'[d]]
  BY <1>1, <1>6 DEF TalkInv, TalkTypes
<1>8. TalkTypes'
  BY <1>1, <1>2, <1>5, <1>7 DEF TalkInv, TalkTypes
<1>9. ASSUME NEW d \in Conns \ gaveUp, d # c PROVE TalkOk(d)'
  <2>1. TalkOk(d)
    BY DEF TalkInv
  <2> QED
    BY <1>1, <1>5, <1>7, <1>9, <2>1, OthersTalk
<1>10. ASSUME c \notin gaveUp PROVE TalkOk(c)'
  <2>1. TalkOk(c)
    BY <1>10 DEF TalkInv
  <2>2. PICK q : Calls(q) /\ waits[c] = {q} /\ Sent(c, q)
    BY <1>1, <2>1 DEF TalkOk, Resting, Answered, HungUp
  <2>3. waits'[c] = {q} /\ up'[c] = <<>> /\ down[c] = <<>> /\ r.kind = q.kind /\ r.no = q.no
    BY <1>1, <1>7, <2>2 DEF Sent
  <2>4. ASSUME NEW a, a.no = r.no, a.kind \in {Expects[r.kind], "Error"},
               down' = [down EXCEPT ![c] = Append(@, reply(a))]
        PROVE  TalkOk(c)'
    <3>1. down'[c] = <<reply(a)>>
      BY <2>3, <2>4 DEF TalkInv, TalkTypes
    <3>2. Head(down'[c]) = reply(a) /\ Tail(down'[c]) = <<>> /\ down'[c] # <<>>
      BY <3>1
    <3>3. Head(down'[c]).msg = a
      BY <3>2
    <3>4. Answered(c, q)'
      BY <2>3, <2>4, <3>2, <3>3 DEF Answered
    <3> QED
      BY <2>2, <2>3, <3>4 DEF TalkOk, Calls
  <2>5. CASE \E a \in Respond(r) : down' = [down EXCEPT ![c] = Append(@, reply(a))]
    BY <1>3, <2>4, <2>5, RespondFits
  <2>6. CASE down' = [down EXCEPT ![c] = Append(@, reply(Answer(r, "Error")))]
    <3>1. Answer(r, "Error").no = r.no /\ Answer(r, "Error").kind = "Error"
      BY DEF Answer
    <3> QED
      BY <2>4, <2>6, <3>1
  <2>7. ASSUME NEW s \in {"ended", "leaked"}, down' = down, link' = [link EXCEPT ![c] = s] PROVE TalkOk(c)'
    <3>1. HungUp(c)'
      BY <2>3, <2>7 DEF HungUp, TalkInv, TalkTypes
    <3> QED
      BY <2>2, <2>3, <3>1 DEF TalkOk, Calls
  <2> QED
    BY <2>5, <2>6, <2>7 DEF Serve, handlerVars
<1>11. CASE UNCHANGED handlerVars
  BY <1>1, <1>8, <1>9, <1>10, <1>11 DEF TalkInv, handlerVars, TxOk
<1>12. CASE HandlerEffect(c, r) /\ ServerReads(frame) = "request"
  <2>1. TxOk'
    BY <1>12, TxKept DEF TalkInv
  <2>2. r.kind \in Writes => (c \in CompressingClients) = ServerCompression
    <3>1. r.kind \in Writes => r.kind # "Ping"
      BY DEF Writes
    <3> QED
      <4>1. frame.marked \in BOOLEAN /\ ServerCompression \in BOOLEAN
        BY <1>3, WireConstants
      <4>2. CASE frame.marked /\ ~ServerCompression
        BY <1>12, <3>1, <4>1, <4>2 DEF ServerReads
      <4>3. CASE ~frame.marked /\ ServerCompression
        BY <1>12, <3>1, <4>1, <4>3 DEF ServerReads
      <4>4. CASE frame.marked = ServerCompression
        BY <1>3, <4>4
      <4> QED
        BY <4>1, <4>2, <4>3, <4>4
  <2>3. stored' = stored \/ (stored' = stored \cup {<<c, r.no>>} /\ r.kind \in Writes)
    BY <1>12 DEF HandlerEffect
  <2>4. \A s \in stored' : (s[1] \in CompressingClients) = ServerCompression
    BY <2>2, <2>3 DEF TalkInv
  <2> QED
    BY <1>1, <1>8, <1>9, <1>10, <2>1, <2>4 DEF TalkInv
<1> QED
  BY <1>11, <1>12 DEF Serve

LEMMA SendKept ==
    ASSUME TalkInv, NEW c \in Conns, SendRequest(c)
    PROVE  TalkInv'
<1>1. PICK r \in Requests(asked[c] + 1) :
        /\ link[c] \in {"backlog", "open"} /\ waits[c] = {}
        /\ up' = [up EXCEPT ![c] = Append(@, [marked |-> c \in CompressingClients, msg |-> r])]
        /\ waits' = [waits EXCEPT ![c] = {[kind |-> r.kind, no |-> r.no]}]
        /\ asked' = [asked EXCEPT ![c] = r.no]
  BY DEF SendRequest
<1> DEFINE frame == [marked |-> c \in CompressingClients, msg |-> r]
           q == [kind |-> r.kind, no |-> r.no]
<1>2. UNCHANGED <<link, down, gaveUp, mixed, txs, txCounter, ends, stored>>
  BY DEF SendRequest, handlerVars
<1>3. asked[c] + 1 \in Nat /\ txCounter \in Nat
  BY DEF TalkInv, TalkTypes, TxOk
<1>4. r \in Msgs /\ r.kind \in RequestKinds /\ r.no \in Nat
  <2>1. CASE r \in [kind : RequestKinds \ TxRequests, no : {asked[c] + 1}]
    BY <1>3, <2>1 DEF Msgs
  <2>2. CASE r \in [kind : RequestKinds \cap TxRequests, no : {asked[c] + 1}, tx : 1 .. txCounter]
    <3>1. r \in [kind : RequestKinds, no : Nat, tx : Nat]
      BY <1>3, <2>2
    <3> QED
      BY <3>1 DEF Msgs
  <2> QED
    BY <2>1, <2>2 DEF Requests
<1>5. frame \in UpFrames(c)
  <2>1. (c \in CompressingClients) \in BOOLEAN
    OBVIOUS
  <2>2. frame.marked = (c \in CompressingClients) /\ frame \in [marked : BOOLEAN, msg : Msgs]
    BY <1>4, <2>1
  <2> QED
    BY <2>2 DEF UpFrames
<1>6. /\ up[c] \in Seq(UpFrames(c))
      /\ up'[c] = Append(up[c], frame) /\ up'[c] \in Seq(UpFrames(c))
  BY <1>1, <1>5 DEF TalkInv, TalkTypes
<1>7. /\ DOMAIN up' = Conns /\ up' = [d \in Conns |-> up'[d]]
      /\ waits' = [d \in Conns |-> waits'[d]] /\ waits'[c] = {q}
      /\ \A d \in Conns \ {c} : up'[d] = up[d] /\ waits'[d] = waits[d]
  BY <1>1 DEF TalkInv, TalkTypes
<1>8. asked' \in [Conns -> Nat]
  BY <1>1, <1>4 DEF TalkInv, TalkTypes
<1>9. TalkTypes'
  BY <1>2, <1>6, <1>7, <1>8 DEF TalkInv, TalkTypes
<1>10. ASSUME NEW d \in Conns \ gaveUp, d # c PROVE TalkOk(d)'
  <2>1. TalkOk(d)
    BY DEF TalkInv
  <2> QED
    BY <1>2, <1>7, <1>10, <2>1, OthersTalk
<1>11. ASSUME c \notin gaveUp PROVE TalkOk(c)'
  <2>1. TalkOk(c)
    BY <1>11 DEF TalkInv
  <2>2. up[c] = <<>> /\ down[c] = <<>>
    BY <1>1, <2>1 DEF TalkOk, Resting
  <2>3. up'[c] = <<frame>>
    BY <1>6, <2>2
  <2>4. Head(up'[c]) = frame /\ Tail(up'[c]) = <<>> /\ up'[c] # <<>>
    BY <2>3
  <2>5. Head(up'[c]).msg.kind = q.kind /\ Head(up'[c]).msg.no = q.no
    BY <2>4
  <2>6. Sent(c, q)'
    BY <1>2, <2>2, <2>4, <2>5 DEF Sent
  <2>7. Calls(q)
    BY <1>4 DEF Calls
  <2> QED
    BY <1>7, <2>6, <2>7 DEF TalkOk, Calls
<1> QED
  BY <1>2, <1>9, <1>10, <1>11 DEF TalkInv, TxOk

LEMMA ReadKept ==
    ASSUME TalkInv, NEW c \in Conns, ReadAnswer(c)
    PROVE  TalkInv'
<1> DEFINE frame == Head(down[c])
<1>1. /\ waits[c] # {} /\ down[c] # <<>>
      /\ down' = [down EXCEPT ![c] = Tail(@)] /\ waits' = [waits EXCEPT ![c] = {}]
      /\ UNCHANGED <<link, up, asked, gaveUp, txs, txCounter, ends, stored>>
      /\ mixed' = mixed \/ (mixed' = mixed \cup {c} /\ \E r \in waits[c] : Mistaken(r, frame.msg))
  BY DEF ReadAnswer, handlerVars
<1>2. /\ waits' = [d \in Conns |-> waits'[d]] /\ waits'[c] = {}
      /\ down' = [d \in Conns |-> down'[d]] /\ down'[c] = Tail(down[c])
      /\ \A d \in Conns \ {c} : down'[d] = down[d] /\ waits'[d] = waits[d]
  BY <1>1 DEF TalkInv, TalkTypes
<1>3. TalkTypes'
  BY <1>1, <1>2 DEF TalkInv, TalkTypes
<1>4. ASSUME NEW d \in Conns \ gaveUp, d # c PROVE TalkOk(d)'
  <2>1. TalkOk(d)
    BY DEF TalkInv
  <2> QED
    BY <1>1, <1>2, <1>4, <2>1, OthersTalk
<1>5. ASSUME c \notin gaveUp PROVE TalkOk(c)' /\ mixed' = mixed
  <2>1. TalkOk(c)
    BY <1>5 DEF TalkInv
  <2>2. PICK q : Calls(q) /\ waits[c] = {q} /\ Answered(c, q)
    BY <1>1, <2>1 DEF TalkOk, Sent, HungUp
  <2>3. ~Mistaken(q, frame.msg)
    BY <2>2 DEF Mistaken, Answered
  <2>4. Resting(c)'
    BY <1>1, <1>2, <2>2 DEF Answered, Resting
  <2> QED
    BY <1>1, <1>2, <2>2, <2>3, <2>4 DEF TalkOk
<1>6. mixed' \subseteq gaveUp'
  BY <1>1, <1>5 DEF TalkInv
<1> QED
  BY <1>1, <1>3, <1>4, <1>5, <1>6 DEF TalkInv, TxOk

LEMMA TalkKept == TalkInv /\ PoolInv /\ [WireNext]_wireVars => TalkInv'
<1> SUFFICES ASSUME TalkInv, PoolInv, [WireNext]_wireVars PROVE TalkInv'
  OBVIOUS
<1>1. ASSUME UNCHANGED <<up, down, waits, asked, gaveUp, mixed, handlerVars>>,
             link' \in [Conns -> LinkStates],
             \A d \in Conns : link[d] \in {"ended", "gone", "leaked"} => link'[d] \in {"ended", "gone", "leaked"}
      PROVE  TalkInv'
  <2>1. TalkTypes' /\ TxOk'
    BY <1>1 DEF TalkInv, TalkTypes, TxOk, handlerVars
  <2>2. ASSUME NEW d \in Conns \ gaveUp PROVE TalkOk(d)'
    BY <1>1, LinkMoves DEF TalkInv
  <2> QED
    BY <1>1, <2>1, <2>2 DEF TalkInv, handlerVars
<1> USE DEF LinkStates
<1>2. CASE UNCHANGED wireVars
  BY <1>1, <1>2 DEF wireVars, linkVars, TalkInv, TalkTypes
<1>3. CASE LoopCheck \/ Shutdown \/ \E c \in Conns : Accept(c)
  BY <1>1, <1>3 DEF LoopCheck, Shutdown, Accept, linkVars, TalkInv, TalkTypes
<1>4. ASSUME NEW s \in {"backlog", "open", "gone", "ended"}, NEW c,
             link' = [link EXCEPT ![c] = s],
             c \in Conns /\ link[c] \in {"ended", "gone", "leaked"} => s \in {"ended", "gone", "leaked"},
             UNCHANGED <<up, down, waits, asked, gaveUp, mixed, handlerVars>>
      PROVE  TalkInv'
  <2>1. link' \in [Conns -> LinkStates]
    BY <1>4 DEF TalkInv, TalkTypes
  <2>2. \A d \in Conns : link[d] \in {"ended", "gone", "leaked"} => link'[d] \in {"ended", "gone", "leaked"}
    BY <1>4 DEF TalkInv, TalkTypes
  <2> QED
    BY <1>1, <1>4, <2>1, <2>2
<1>5. ASSUME NEW c \in Conns, Connect(c) \/ Release(c) \/ Hangup(c) PROVE TalkInv'
  BY <1>4, <1>5 DEF Connect, Release, Hangup
<1>8. CASE AcquireLoad \/ AcquireExchange
  <2>1. \/ link' = link
        \/ link' = [link EXCEPT ![loop.conn] = "gone"]
        \/ link' = [link EXCEPT ![loop.conn] = "open"] /\ AcquireExchange
    BY <1>8 DEF AcquireLoad, AcquireExchange
  <2>2. UNCHANGED <<up, down, waits, asked, gaveUp, mixed, handlerVars>>
    BY <1>8 DEF AcquireLoad, AcquireExchange
  <2>3. AcquireExchange => link[loop.conn] = "backlog"
    BY DEF AcquireExchange, PoolInv, LoopOk
  <2>4. CASE link' = link
    BY <1>1, <2>2, <2>4 DEF TalkInv, TalkTypes
  <2> QED
    BY <1>4, <2>1, <2>2, <2>3, <2>4
<1>6. ASSUME NEW c \in Conns, DropCall(c) PROVE TalkInv'
  <2>1. /\ waits' = [waits EXCEPT ![c] = {}] /\ gaveUp' = gaveUp \cup {c}
        /\ UNCHANGED <<link, up, down, asked, mixed, txs, txCounter, ends, stored>>
    BY <1>6 DEF DropCall, handlerVars
  <2>2. waits' = [d \in Conns |-> waits'[d]] /\ \A d \in Conns \ {c} : waits'[d] = waits[d]
    BY <2>1 DEF TalkInv, TalkTypes
  <2>3. TalkTypes' /\ TxOk'
    BY <2>1, <2>2 DEF TalkInv, TalkTypes, TxOk
  <2>4. ASSUME NEW d \in Conns \ gaveUp' PROVE TalkOk(d)'
    <3>1. d \in Conns \ gaveUp /\ d # c
      BY <2>1
    <3>2. TalkOk(d)
      BY <3>1 DEF TalkInv
    <3> QED
      BY <2>1, <2>2, <3>1, <3>2, OthersTalk
  <2> QED
    BY <2>1, <2>3, <2>4 DEF TalkInv
<1>7. ASSUME NEW c \in Conns, ReadFails(c) PROVE TalkInv'
  <2>1. /\ down[c] = <<>> /\ link[c] \in {"ended", "gone", "leaked"} /\ waits' = [waits EXCEPT ![c] = {}]
        /\ UNCHANGED <<link, up, down, asked, gaveUp, mixed, txs, txCounter, ends, stored>>
    BY <1>7 DEF ReadFails, handlerVars
  <2>2. /\ waits' = [d \in Conns |-> waits'[d]] /\ waits'[c] = {}
        /\ \A d \in Conns \ {c} : waits'[d] = waits[d]
    BY <2>1 DEF TalkInv, TalkTypes
  <2>3. TalkTypes' /\ TxOk'
    BY <2>1, <2>2 DEF TalkInv, TalkTypes, TxOk
  <2>4. ASSUME NEW d \in Conns \ gaveUp, d # c PROVE TalkOk(d)'
    BY <2>1, <2>2, <2>4, OthersTalk DEF TalkInv
  <2>5. TalkOk(c)'
    BY <2>1, <2>2 DEF TalkOk, Resting
  <2> QED
    BY <2>1, <2>3, <2>4, <2>5 DEF TalkInv
<1> QED
  BY <1>2, <1>3, <1>5, <1>6, <1>7, <1>8, ServeKept, SendKept, ReadKept
     DEF WireNext, AdmissionSteps, TalkSteps

(* A client that never abandons a call takes each answer for the request it
   made, however the connections' tasks interleave and whichever of them the
   server rejects or ends; a transaction ends once; and nothing a client sends
   in the other framing is stored.                                         *)
THEOREM AnswersArePaired == WireSpec => []AnswersPaired
<1>1. WireSpec => []PoolInv
  BY PoolStarts, PoolKept, PTL DEF WireSpec
<1>2. WireSpec => []TalkInv
  BY <1>1, TalkStarts, TalkKept, PTL DEF WireSpec
<1>3. TalkInv => AnswersPaired
  BY DEF TalkInv, TxOk, AnswersPaired
<1> QED
  BY <1>2, <1>3, PTL

-------------------------------------------------------------------------------
(* The replica set: elections. *)

VoteRequest == [type : {"RequestVote"}, term : Nat, from : Replicas, lastIndex : Nat, lastTerm : Nat]
VoteAnswer == [type : {"VoteResponse"}, term : Nat, granted : BOOLEAN, from : Replicas, to : Replicas]
AppendRequest == [type : {"AppendEntries"}, term : Nat, from : Replicas, prev : Nat, prevTerm : Nat,
                  entries : Seq(Nat)]
AppendAnswer == [type : {"AppendResponse"}, term : Nat, to : Replicas, from : Replicas]

ReplicaMsgs == VoteRequest \cup VoteAnswer \cup AppendRequest \cup AppendAnswer

CallTypes ==
    {NotCalled} \cup [pc : {"term", "vote", "role", "read", "push"}, at : Replicas, term : Nat]

HandlingTypes == handling \in [Callers -> CallTypes]

ReplicaTypes ==
    /\ term \in [Replicas -> Nat] /\ voted \in [Replicas -> Replicas \cup {Nobody}]
    /\ role \in [Replicas -> {"follower", "candidate", "leader"}]
    /\ log \in [Replicas -> Seq(Nat)]
    /\ msgs \in SUBSET ReplicaMsgs /\ HandlingTypes
    /\ ballots \in SUBSET (Replicas \X Nat \X Replicas) /\ leaders \in SUBSET (Nat \X Replicas)

(* A replica whose term never went back and whose vote was never cleared
   remembers the vote of its term.                                         *)
Wavering == regressed \cup erased

VoteRemembered ==
    \A b \in ballots : b[1] \notin Wavering =>
        b[2] <= term[b[1]] /\ (b[2] = term[b[1]] => voted[b[1]] = b[3])

OneVote == \A b, c \in ballots : b[1] \notin Wavering /\ b[1] = c[1] /\ b[2] = c[2] => b[3] = c[3]

GrantsCast ==
    \A m \in msgs : m.type = "VoteResponse" /\ m.granted => <<m.from, m.term, m.to>> \in ballots

RequestsCast ==
    \A m \in msgs : m.type = "RequestVote" => <<m.from, m.term, m.from>> \in ballots

ElectedBy(l) ==
    \E Q \in SUBSET Replicas : Majority(Q) /\ \A q \in Q : <<q, l[1], l[2]>> \in ballots

LeadersElected == \A l \in leaders : ElectedBy(l)

(* A replica leads a term once: it stands again only in a later one. *)
LeadsOnce ==
    /\ \A l \in leaders : l[2] \notin regressed => l[1] <= term[l[2]]
    /\ \A r \in Replicas \ regressed : role[r] = "candidate" => <<term[r], r>> \notin leaders

VoteInv ==
    /\ ReplicaTypes /\ VoteRemembered /\ OneVote /\ GrantsCast /\ RequestsCast
    /\ LeadersElected /\ LeadsOnce

LEMMA VotesStart == ReplicaInit => VoteInv
  BY DEF ReplicaInit, VoteInv, ReplicaTypes, VoteRemembered, OneVote, GrantsCast, RequestsCast,
         LeadersElected, LeadsOnce, HandlingTypes, CallTypes, Wavering

(* Two majorities share a voter, and it voted once. *)
LEMMA OneLeader ==
    ASSUME ReplicaTypes, OneVote, LeadersElected, regressed = {}, erased = {},
           NEW l \in leaders, NEW k \in leaders, l[1] = k[1]
    PROVE  l[2] = k[2]
<1>1. PICK Q \in SUBSET Replicas : Majority(Q) /\ \A q \in Q : <<q, l[1], l[2]>> \in ballots
  BY DEF LeadersElected, ElectedBy
<1>2. PICK P \in SUBSET Replicas : Majority(P) /\ \A q \in P : <<q, k[1], k[2]>> \in ballots
  BY DEF LeadersElected, ElectedBy
<1>3. IsFiniteSet(P) /\ IsFiniteSet(Q) /\ IsFiniteSet(Replicas)
  BY FS_Subset, ReplicaConstants
<1>4. Cardinality(P) \in Nat /\ Cardinality(Q) \in Nat /\ Cardinality(Replicas) \in Nat
  BY <1>3, FS_CardinalityType
<1>5. Cardinality(Q) + Cardinality(P) > Cardinality(Replicas)
  BY <1>1, <1>2, <1>4 DEF Majority
<1>6. PICK q \in Replicas : q \in P /\ q \in Q
  BY <1>3, <1>5, FS_MajoritiesIntersect
<1>7. <<q, l[1], l[2]>> \in ballots /\ <<q, l[1], k[2]>> \in ballots
  BY <1>1, <1>2, <1>6
<1> QED
  BY <1>7 DEF OneVote, Wavering

LeadersUnique == regressed = {} /\ erased = {} => \A l, k \in leaders : l[1] = k[1] => l[2] = k[2]

LEMMA LeadersAreUnique == VoteInv => LeadersUnique
  BY OneLeader DEF VoteInv, LeadersUnique

(* A vote of replica r in its new term: the votes given before stay the only
   ones of their terms.                                                    *)
LEMMA VoteCast ==
    ASSUME VoteInv, NEW r \in Replicas, NEW t \in Nat, NEW c \in Replicas, t >= term[r],
           t = term[r] => voted[r] \in {Nobody, c},
           term' = [term EXCEPT ![r] = t], voted' = [voted EXCEPT ![r] = c],
           ballots' = ballots \cup {<<r, t, c>>}, Wavering' = Wavering
    PROVE  VoteRemembered' /\ OneVote'
<1>1. term'[r] = t /\ voted'[r] = c /\ term[r] \in Nat
      /\ \A q \in Replicas \ {r} : term'[q] = term[q] /\ voted'[q] = voted[q]
  BY DEF VoteInv, ReplicaTypes
<1>2. ASSUME NEW b \in ballots, b[1] = r, r \notin Wavering
      PROVE  b[2] <= t /\ (b[2] = t => b[3] = c)
  <2>1. b[1] \in Replicas /\ b[2] \in Nat /\ b[3] \in Replicas
    BY DEF VoteInv, ReplicaTypes
  <2>2. b[2] <= term[r] /\ (b[2] = term[r] => voted[r] = b[3])
    BY <1>2 DEF VoteInv, VoteRemembered
  <2>3. b[2] = t => t = term[r]
    BY <1>1, <2>1, <2>2
  <2> QED
    BY <1>1, <2>1, <2>2, <2>3, ReplicaConstants
<1>3. \A b \in ballots : b[1] \in Replicas /\ b[2] \in Nat
  BY DEF VoteInv, ReplicaTypes
<1>4. <<r, t, c>>[1] = r /\ <<r, t, c>>[2] = t /\ <<r, t, c>>[3] = c
  OBVIOUS
<1>5. ASSUME NEW b \in ballots', b[1] \notin Wavering
      PROVE  b[2] <= term'[b[1]] /\ (b[2] = term'[b[1]] => voted'[b[1]] = b[3])
  <2>1. CASE b = <<r, t, c>>
    BY <1>1, <1>4, <2>1
  <2>2. CASE b \in ballots /\ b[1] = r
    BY <1>1, <1>2, <1>5, <2>2
  <2>3. CASE b \in ballots /\ b[1] # r
    BY <1>1, <1>3, <1>5, <2>3 DEF VoteInv, VoteRemembered
  <2> QED
    BY <2>1, <2>2, <2>3
<1>6. ASSUME NEW b \in ballots', NEW d \in ballots', b[1] \notin Wavering, b[1] = d[1], b[2] = d[2]
      PROVE  b[3] = d[3]
  <2>1. CASE b \in ballots /\ d \in ballots
    BY <1>6, <2>1 DEF VoteInv, OneVote
  <2>2. CASE b = <<r, t, c>> \/ d = <<r, t, c>>
    BY <1>2, <1>4, <1>6, <2>2
  <2> QED
    BY <2>1, <2>2
<1> QED
  BY <1>5, <1>6 DEF VoteRemembered, OneVote

(* A grant is a message like the others. *)
LEMMA BallotsGrow ==
    ASSUME VoteInv, ballots \subseteq ballots', leaders' = leaders
    PROVE  LeadersElected'
<1> SUFFICES ASSUME NEW l \in leaders PROVE ElectedBy(l)'
  BY DEF LeadersElected
<1>1. PICK Q \in SUBSET Replicas : Majority(Q) /\ \A q \in Q : <<q, l[1], l[2]>> \in ballots
  BY DEF VoteInv, LeadersElected, ElectedBy
<1>2. \A q \in Q : <<q, l[1], l[2]>> \in ballots'
  BY <1>1
<1> QED
  BY <1>1, <1>2 DEF ElectedBy, Majority

LEMMA ElectionKept ==
    ASSUME VoteInv, NEW r \in Replicas, StartElection(r)
    PROVE  VoteInv'
<1>1. /\ role[r] # "leader" /\ term' = [term EXCEPT ![r] = term[r] + 1]
      /\ role' = [role EXCEPT ![r] = "candidate"] /\ voted' = [voted EXCEPT ![r] = r]
      /\ ballots' = ballots \cup {<<r, term[r] + 1, r>>}
      /\ UNCHANGED <<log, handling, leaders, regressed, erased>> /\ Wavering' = Wavering
  BY DEF StartElection, exceptions, Wavering
<1>2. term[r] \in Nat /\ term[r] + 1 \in Nat
  BY DEF VoteInv, ReplicaTypes
<1>3. /\ term'[r] = term[r] + 1 /\ role'[r] = "candidate"
      /\ \A q \in Replicas \ {r} : term'[q] = term[q] /\ role'[q] = role[q]
  BY <1>1 DEF VoteInv, ReplicaTypes
<1>4. PICK m : msgs' = msgs \cup {m} /\ m \in VoteRequest /\ m.from = r /\ m.term = term[r] + 1
  <2>1. log[r] \in Seq(Nat)
    BY DEF VoteInv, ReplicaTypes
  <2>2. Len(log[r]) \in Nat /\ LastTerm(log[r]) \in Nat
    BY <2>1 DEF LastTerm
  <2> QED
    <3> DEFINE m == [type |-> "RequestVote", term |-> term[r] + 1, from |-> r,
                     lastIndex |-> Len(log[r]), lastTerm |-> LastTerm(log[r])]
    <3>1. msgs' = msgs \cup {m}
      BY DEF StartElection, Send
    <3>2. m \in VoteRequest
      BY <1>2, <2>2 DEF VoteRequest
    <3> QED
      BY <3>1, <3>2
<1>5. ReplicaTypes'
  BY <1>1, <1>2, <1>4 DEF VoteInv, ReplicaTypes, ReplicaMsgs, HandlingTypes
<1>6. VoteRemembered' /\ OneVote'
  <2>1. term[r] + 1 >= term[r] /\ term[r] + 1 # term[r]
    BY <1>2
  <2> QED
    BY <1>1, <1>2, <2>1, VoteCast
<1>7. GrantsCast'
  <2>1. m.type = "RequestVote"
    BY <1>4 DEF VoteRequest
  <2> QED
    BY <1>1, <1>4, <2>1 DEF VoteInv, GrantsCast
<1>8. RequestsCast'
  BY <1>1, <1>4 DEF VoteInv, RequestsCast
<1>9. LeadersElected'
  BY <1>1, BallotsGrow
<1>11. LeadsOnce'
  <2>1. \A l \in leaders : l[1] \in Nat /\ l[2] \in Replicas
    BY DEF VoteInv, ReplicaTypes
  <2>2. r \notin regressed => <<term[r] + 1, r>> \notin leaders
    BY <1>2 DEF VoteInv, LeadsOnce
  <2>3. \A l \in leaders : l[2] \notin regressed => l[1] <= term'[l[2]]
    BY <1>2, <1>3, <2>1 DEF VoteInv, LeadsOnce
  <2>4. \A q \in Replicas \ regressed : role'[q] = "candidate" => <<term'[q], q>> \notin leaders
    BY <1>3, <2>2 DEF VoteInv, LeadsOnce
  <2> QED
    BY <1>1, <2>3, <2>4 DEF LeadsOnce
<1> QED
  BY <1>5, <1>6, <1>7, <1>8, <1>9, <1>11 DEF VoteInv

(* A replica that only learns a newer term, or a leader of its own. *)
LEMMA TermLearned ==
    ASSUME VoteInv, NEW r \in Replicas, NEW t \in Nat, NEW v,
           t >= term[r], t > term[r] => v = Nobody, t = term[r] => v = voted[r],
           NEW s, s = "follower" \/ (s = role[r] /\ t = term[r]),
           term' = [term EXCEPT ![r] = t], voted' = [voted EXCEPT ![r] = v],
           role' = [role EXCEPT ![r] = s],
           UNCHANGED <<ballots, leaders, regressed, erased>>
    PROVE  /\ VoteRemembered' /\ OneVote' /\ LeadersElected' /\ LeadsOnce'
           /\ term' \in [Replicas -> Nat] /\ voted' \in [Replicas -> Replicas \cup {Nobody}]
           /\ role' \in [Replicas -> {"follower", "candidate", "leader"}]
<1>1. /\ term'[r] = t /\ role'[r] = s /\ voted'[r] = v /\ term[r] \in Nat
      /\ \A q \in Replicas \ {r} : term'[q] = term[q] /\ role'[q] = role[q] /\ voted'[q] = voted[q]
  BY DEF VoteInv, ReplicaTypes
<1>2. \A b \in ballots : b[1] \in Replicas /\ b[2] \in Nat
  BY DEF VoteInv, ReplicaTypes
<1>3. \A l \in leaders : l[1] \in Nat /\ l[2] \in Replicas
  BY DEF VoteInv, ReplicaTypes
<1>w. Wavering' = Wavering
  BY DEF Wavering
<1>4. VoteRemembered'
  <2> SUFFICES ASSUME NEW b \in ballots, b[1] \notin Wavering
               PROVE  b[2] <= term'[b[1]] /\ (b[2] = term'[b[1]] => voted'[b[1]] = b[3])
    BY <1>w DEF VoteRemembered
  <2>1. b[2] <= term[b[1]] /\ (b[2] = term[b[1]] => voted[b[1]] = b[3])
    BY DEF VoteInv, VoteRemembered
  <2> QED
    BY <1>1, <1>2, <2>1
<1>5. OneVote' /\ LeadersElected'
  BY <1>w, BallotsGrow DEF VoteInv, OneVote
<1>8. LeadsOnce'
  <2>1. \A l \in leaders : l[2] \notin regressed => l[1] <= term'[l[2]]
    BY <1>1, <1>3 DEF VoteInv, LeadsOnce
  <2>2. \A q \in Replicas \ regressed : role'[q] = "candidate" => <<term'[q], q>> \notin leaders
    BY <1>1 DEF VoteInv, LeadsOnce
  <2> QED
    BY <2>1, <2>2 DEF LeadsOnce
<1>9. v \in Replicas \cup {Nobody} /\ s \in {"follower", "candidate", "leader"}
  <2>1. voted[r] \in Replicas \cup {Nobody} /\ role[r] \in {"follower", "candidate", "leader"}
    BY DEF VoteInv, ReplicaTypes
  <2> QED
    BY <1>1, <2>1
<1>10. /\ term' \in [Replicas -> Nat] /\ voted' \in [Replicas -> Replicas \cup {Nobody}]
       /\ role' \in [Replicas -> {"follower", "candidate", "leader"}]
  BY <1>9 DEF VoteInv, ReplicaTypes
<1> QED
  BY <1>4, <1>5, <1>8, <1>10

LEMMA RequestVoteKept ==
    ASSUME VoteInv, NEW r \in Replicas, NEW m \in msgs, HandleRequestVote(r, m)
    PROVE  VoteInv'
<1> DEFINE now == IF m.term > term[r] THEN m.term ELSE term[r]
           free == IF m.term > term[r] THEN Nobody ELSE voted[r]
           fresh == \/ m.lastTerm > LastTerm(log[r])
                    \/ m.lastTerm = LastTerm(log[r]) /\ m.lastIndex >= Len(log[r])
           ok == m.term >= now /\ free \in {Nobody, m.from} /\ fresh
           state == IF m.term > term[r] THEN "follower" ELSE role[r]
           reply == [type |-> "VoteResponse", term |-> now, granted |-> ok, from |-> r, to |-> m.from]
<1>1. /\ m.type = "RequestVote"
      /\ term' = [term EXCEPT ![r] = now] /\ role' = [role EXCEPT ![r] = state]
      /\ voted' = [voted EXCEPT ![r] = IF ok THEN m.from ELSE free]
      /\ ballots' = IF ok THEN ballots \cup {<<r, now, m.from>>} ELSE ballots
      /\ msgs' = msgs \cup {reply}
      /\ UNCHANGED <<log, handling, leaders, regressed, erased>> /\ Wavering' = Wavering
  BY DEF HandleRequestVote, Send, exceptions, Wavering
<1>2. m \in VoteRequest
  BY <1>1 DEF VoteInv, ReplicaTypes, ReplicaMsgs, VoteAnswer, AppendRequest, AppendAnswer
<1>3. m.from \in Replicas /\ m.term \in Nat /\ term[r] \in Nat
  BY <1>2 DEF VoteRequest, VoteInv, ReplicaTypes
<1> HIDE DEF fresh
<1>4. now \in Nat /\ now >= term[r] /\ ok \in BOOLEAN
  BY <1>3
<1>5. reply \in VoteAnswer /\ reply.from = r /\ reply.to = m.from /\ reply.term = now /\ reply.granted = ok
  BY <1>3, <1>4 DEF VoteAnswer
<1>6. /\ now > term[r] => free = Nobody /\ state = "follower"
      /\ now = term[r] => free = voted[r] /\ state = role[r]
  BY <1>3
<1> HIDE DEF now, free, state, reply
<1>9. reply.type = "VoteResponse"
  BY <1>5 DEF VoteAnswer
<1>7. CASE ~ok
  <2>1. voted' = [voted EXCEPT ![r] = free] /\ ballots' = ballots
    BY <1>1, <1>7
  <2>2. state = "follower" \/ (state = role[r] /\ now = term[r])
    BY <1>3, <1>4, <1>6
  <2>3. /\ VoteRemembered' /\ OneVote' /\ LeadersElected' /\ LeadsOnce'
        /\ term' \in [Replicas -> Nat] /\ voted' \in [Replicas -> Replicas \cup {Nobody}]
        /\ role' \in [Replicas -> {"follower", "candidate", "leader"}]
    BY <1>1, <1>4, <1>6, <2>1, <2>2, TermLearned
  <2>4. ReplicaTypes'
    BY <1>1, <1>5, <2>1, <2>3 DEF VoteInv, ReplicaTypes, ReplicaMsgs, HandlingTypes
  <2>5. GrantsCast' /\ RequestsCast'
    BY <1>1, <1>5, <1>7, <1>9, <2>1 DEF VoteInv, GrantsCast, RequestsCast
  <2> QED
    BY <2>3, <2>4, <2>5 DEF VoteInv
<1>8. CASE ok
  <2>1. voted' = [voted EXCEPT ![r] = m.from] /\ ballots' = ballots \cup {<<r, now, m.from>>}
    BY <1>1, <1>8
  <2>2. now = term[r] => voted[r] \in {Nobody, m.from}
    BY <1>6, <1>8
  <2>3. VoteRemembered' /\ OneVote'
    BY <1>1, <1>3, <1>4, <2>1, <2>2, VoteCast
  <2>4. state \in {"follower", "candidate", "leader"}
    <3>1. role[r] \in {"follower", "candidate", "leader"}
      BY DEF VoteInv, ReplicaTypes
    <3> QED
      BY <3>1 DEF state
  <2>5. ReplicaTypes'
    BY <1>1, <1>3, <1>4, <1>5, <2>1, <2>4 DEF VoteInv, ReplicaTypes, ReplicaMsgs, HandlingTypes
  <2>6. GrantsCast' /\ RequestsCast'
    BY <1>1, <1>5, <1>9, <2>1 DEF VoteInv, GrantsCast, RequestsCast
  <2>7. /\ term'[r] = now /\ role'[r] = state
        /\ \A q \in Replicas \ {r} : term'[q] = term[q] /\ role'[q] = role[q]
    BY <1>1 DEF VoteInv, ReplicaTypes
  <2>8. state = "follower" \/ (state = role[r] /\ now = term[r])
    BY <1>3, <1>4, <1>6
  <2>10. LeadersElected'
    BY <1>1, <2>1, BallotsGrow
  <2>12. LeadsOnce'
    <3>1. \A l \in leaders : l[1] \in Nat /\ l[2] \in Replicas
      BY DEF VoteInv, ReplicaTypes
    <3>2. \A l \in leaders : l[2] \notin regressed => l[1] <= term'[l[2]]
      BY <1>3, <1>4, <2>7, <3>1 DEF VoteInv, LeadsOnce
    <3>3. \A q \in Replicas \ regressed : role'[q] = "candidate" => <<term'[q], q>> \notin leaders
      BY <2>7, <2>8 DEF VoteInv, LeadsOnce
    <3> QED
      BY <1>1, <3>2, <3>3 DEF LeadsOnce
  <2> QED
    BY <2>3, <2>5, <2>6, <2>10, <2>12 DEF VoteInv
<1> QED
  BY <1>7, <1>8

(* What handle_append_entries pushes after the entries it skips. *)
Skipped(L, E, prev) == {i \in 1 .. Len(E) : prev + i <= Len(L)}

Pushed(L, E, prev) == L \o SubSeq(E, Cardinality(Skipped(L, E, prev)) + 1, Len(E))

LEMMA UpTo ==
    ASSUME NEW n \in Nat
    PROVE  Cardinality(1 .. n) = n
  BY FS_Interval

LEMMA PushedIs ==
    ASSUME NEW L \in Seq(Nat), NEW E \in Seq(Nat), NEW prev \in 0 .. Len(L)
    PROVE  /\ Pushed(L, E, prev) \in Seq(Nat)
           /\ Len(L) >= prev + Len(E) => Pushed(L, E, prev) = L
           /\ Len(L) < prev + Len(E) =>
                /\ Len(Pushed(L, E, prev)) = prev + Len(E)
                /\ \A i \in 1 .. Len(L) : Pushed(L, E, prev)[i] = L[i]
                /\ \A i \in Len(L) + 1 .. prev + Len(E) : Pushed(L, E, prev)[i] = E[i - prev]
<1>1. Len(L) \in Nat /\ Len(E) \in Nat
  OBVIOUS
<1>2. CASE Len(L) >= prev + Len(E)
  <2>1. Skipped(L, E, prev) = 1 .. Len(E)
    BY <1>1, <1>2 DEF Skipped
  <2>2. Cardinality(1 .. Len(E)) = Len(E)
    BY <1>1, UpTo
  <2>3. Pushed(L, E, prev) = L \o SubSeq(E, Len(E) + 1, Len(E))
    BY <2>1, <2>2 DEF Pushed
  <2>4. SubSeq(E, Len(E) + 1, Len(E)) = <<>>
    BY <1>1
  <2>5. L \o <<>> = L
    OBVIOUS
  <2> QED
    BY <1>1, <1>2, <2>3, <2>4, <2>5
<1>3. CASE Len(L) < prev + Len(E)
  <2> DEFINE k == Len(L) - prev
             S == SubSeq(E, k + 1, Len(E))
  <2>1. k \in 0 .. Len(E) - 1 /\ Skipped(L, E, prev) = 1 .. k
    BY <1>1, <1>3 DEF Skipped
  <2>2. Cardinality(1 .. k) = k
    BY <1>1, <2>1, UpTo
  <2>3. Pushed(L, E, prev) = L \o S
    BY <2>1, <2>2 DEF Pushed
  <2>4. S \in Seq(Nat) /\ Len(S) = Len(E) - k /\ \A j \in 1 .. Len(E) - k : S[j] = E[k + j]
    <3>1. k \in Int /\ k + 1 \in 1 .. Len(E) /\ Len(E) \in Nat
      BY <1>1, <2>1
    <3>2. \A i \in k + 1 .. Len(E) : E[i] \in Nat
      BY <1>1, <3>1
    <3> HIDE DEF k
    <3>3. /\ S \in Seq(Nat) /\ Len(S) = IF k + 1 <= Len(E) THEN Len(E) - (k + 1) + 1 ELSE 0
          /\ \A j \in 1 .. Len(E) - (k + 1) + 1 : S[j] = E[k + 1 + j - 1]
      BY <3>1, <3>2, SubSeqProperties
    <3> HIDE DEF S
    <3>4. Len(E) - (k + 1) + 1 = Len(E) - k /\ k + 1 <= Len(E)
      BY <3>1
    <3>5. \A j \in 1 .. Len(E) - k : k + 1 + j - 1 = k + j
      BY <3>1
    <3> QED
      BY <3>3, <3>4, <3>5
  <2>5. Len(L \o S) = prev + Len(E) /\ L \o S \in Seq(Nat)
    <3>1. L \o S \in Seq(Nat) /\ Len(L \o S) = Len(L) + Len(S)
      BY <2>4, ConcatProperties
    <3>2. Len(L) + Len(S) = prev + Len(E)
      <4> HIDE DEF S
      <4> QED
        BY <1>1, <2>4
    <3> QED
      BY <3>1, <3>2
  <2>6. \A i \in 1 .. Len(L) : (L \o S)[i] = L[i]
    BY <1>1, <2>4
  <2>7. ASSUME NEW i \in Len(L) + 1 .. prev + Len(E) PROVE (L \o S)[i] = E[i - prev]
    <3>1. i - Len(L) \in 1 .. Len(S) /\ k + (i - Len(L)) = i - prev
      BY <1>1, <2>4
    <3>2. i \in Len(L) + 1 .. Len(L) + Len(S)
      BY <1>1, <2>4
    <3>3. (L \o S)[i] = S[i - Len(L)]
      <4> HIDE DEF S
      <4> QED
        BY <1>1, <2>4, <3>2
    <3> QED
      BY <2>4, <3>1, <3>3
  <2> QED
    BY <1>3, <2>3, <2>5, <2>6, <2>7
<1> QED
  BY <1>1, <1>2, <1>3

(* What a message of a leader says about the leader's log. *)
LEMMA AppendMsgTyped ==
    ASSUME ReplicaTypes, NEW m \in msgs, m.type = "AppendEntries"
    PROVE  /\ m \in AppendRequest /\ m.term \in Nat /\ m.prev \in Nat /\ m.prevTerm \in Nat
           /\ m.entries \in Seq(Nat) /\ m.from \in Replicas
<1>1. m \in AppendRequest
  BY DEF ReplicaTypes, ReplicaMsgs, VoteRequest, VoteAnswer, AppendAnswer
<1> QED
  BY <1>1 DEF AppendRequest

(* The three ways handle_append_entries leaves the log. *)
LEMMA HandledLog ==
    ASSUME ReplicaTypes, NEW r \in Replicas, NEW m \in msgs, HandleAppendEntries(r, m)
    PROVE  /\ \E K \in Seq(Nat) : log' = [log EXCEPT ![r] = K]
           /\ \/ /\ m.prev \in 1 .. Len(log[r])
                 /\ log' = [log EXCEPT ![r] = SubSeq(log[r], 1, m.prev - 1)]
              \/ log' = [log EXCEPT ![r] = log[r]]
              \/ /\ m.prev \in 0 .. Len(log[r]) /\ (m.prev > 0 => log[r][m.prev] = m.prevTerm)
                 /\ log' = [log EXCEPT ![r] = Pushed(log[r], m.entries, m.prev)]
                 /\ skewed' = {} => \A i \in Skipped(log[r], m.entries, m.prev) :
                                       log[r][m.prev + i] = m.entries[i]
<1>1. m.type = "AppendEntries"
  BY DEF HandleAppendEntries
<1>2. m.prev \in Nat /\ m.prevTerm \in Nat /\ m.entries \in Seq(Nat) /\ log[r] \in Seq(Nat)
      /\ Len(log[r]) \in Nat
  BY <1>1, AppendMsgTyped DEF ReplicaTypes
<1> DEFINE conflict == m.prev > 0 /\ m.prev <= Len(log[r]) /\ log[r][m.prev] # m.prevTerm
           gap == m.prev > Len(log[r])
<1>3. /\ conflict => log' = [log EXCEPT ![r] = SubSeq(log[r], 1, m.prev - 1)]
      /\ ~conflict /\ gap => log' = [log EXCEPT ![r] = log[r]]
      /\ ~conflict /\ ~gap => log' = [log EXCEPT ![r] = Pushed(log[r], m.entries, m.prev)]
  <2>1. log' = [log EXCEPT ![r] =
                   IF conflict THEN SubSeq(log[r], 1, m.prev - 1)
                   ELSE IF gap THEN log[r] ELSE Pushed(log[r], m.entries, m.prev)]
    BY DEF HandleAppendEntries, Pushed, Skipped
  <2> HIDE DEF conflict, gap
  <2> QED
    BY <2>1
<1>4. skewed' = IF ~conflict /\ ~gap /\ \E i \in Skipped(log[r], m.entries, m.prev) :
                                           log[r][m.prev + i] # m.entries[i]
                THEN skewed \cup {r} ELSE skewed
  BY DEF HandleAppendEntries, Skipped
<1>5. CASE conflict
  <2>1. m.prev \in 1 .. Len(log[r]) /\ m.prev - 1 \in 0 .. Len(log[r])
    BY <1>2, <1>5
  <2>2. \A i \in 1 .. m.prev - 1 : log[r][i] \in Nat
    BY <1>2, <2>1
  <2>3. SubSeq(log[r], 1, m.prev - 1) \in Seq(Nat)
    BY <2>1, <2>2, SubSeqProperties
  <2> QED
    BY <1>3, <1>5, <2>1, <2>3
<1>6. CASE ~conflict /\ gap
  BY <1>2, <1>3, <1>6
<1>7. CASE ~conflict /\ ~gap
  <2>1. m.prev \in 0 .. Len(log[r]) /\ (m.prev > 0 => log[r][m.prev] = m.prevTerm)
    BY <1>2, <1>7
  <2>2. Pushed(log[r], m.entries, m.prev) \in Seq(Nat)
    BY <1>2, <2>1, PushedIs
  <2>3. skewed' = {} => \A i \in Skipped(log[r], m.entries, m.prev) : log[r][m.prev + i] = m.entries[i]
    <3> HIDE DEF conflict, gap
    <3> QED
      BY <1>4, <1>7
  <2> QED
    BY <1>3, <1>7, <2>1, <2>2, <2>3
<1> QED
  BY <1>5, <1>6, <1>7

(* Messages that are not votes. *)
LEMMA MsgsMove ==
    ASSUME VoteInv, UNCHANGED <<term, voted, role, ballots, leaders, regressed, erased>>,
           log' \in [Replicas -> Seq(Nat)], HandlingTypes',
           \A m \in msgs' : m \in msgs \/ m \in AppendRequest \cup AppendAnswer
    PROVE  VoteInv'
<1>1. ReplicaTypes'
  BY DEF VoteInv, ReplicaTypes, ReplicaMsgs
<1>2. \A m \in AppendRequest \cup AppendAnswer : m.type \notin {"VoteResponse", "RequestVote"}
  BY DEF AppendRequest, AppendAnswer
<1>3. GrantsCast' /\ RequestsCast'
  BY <1>2 DEF VoteInv, GrantsCast, RequestsCast
<1> QED
  BY <1>1, <1>3 DEF VoteInv, VoteRemembered, OneVote, LeadersElected, ElectedBy,
                    Majority, LeadsOnce, Wavering

LEMMA AppendEntriesKept ==
    ASSUME VoteInv, NEW r \in Replicas, NEW m \in msgs, HandleAppendEntries(r, m)
    PROVE  VoteInv'
<1> DEFINE v == IF m.term > term[r] THEN Nobody ELSE voted[r]
<1>1. /\ m.type = "AppendEntries" /\ m.term >= term[r]
      /\ term' = [term EXCEPT ![r] = m.term] /\ voted' = [voted EXCEPT ![r] = v]
      /\ role' = [role EXCEPT ![r] = "follower"]
      /\ UNCHANGED <<msgs, handling, ballots, leaders, regressed, erased>>
  BY DEF HandleAppendEntries
<1>2. m.term \in Nat /\ term[r] \in Nat
  BY <1>1, AppendMsgTyped DEF VoteInv, ReplicaTypes
<1>3. (m.term > term[r] => v = Nobody) /\ (m.term = term[r] => v = voted[r])
  BY <1>2
<1> HIDE DEF v
<1>4. /\ VoteRemembered' /\ OneVote' /\ LeadersElected' /\ LeadsOnce'
      /\ term' \in [Replicas -> Nat] /\ voted' \in [Replicas -> Replicas \cup {Nobody}]
      /\ role' \in [Replicas -> {"follower", "candidate", "leader"}]
  BY <1>1, <1>2, <1>3, TermLearned
<1>5. PICK K \in Seq(Nat) : log' = [log EXCEPT ![r] = K]
  BY HandledLog DEF VoteInv
<1>6. log' \in [Replicas -> Seq(Nat)]
  BY <1>5 DEF VoteInv, ReplicaTypes
<1>7. ReplicaTypes' /\ GrantsCast' /\ RequestsCast'
  BY <1>1, <1>4, <1>6 DEF VoteInv, ReplicaTypes, GrantsCast, RequestsCast, HandlingTypes
<1> QED
  BY <1>4, <1>7 DEF VoteInv

(* A call under way has a replica and a term. *)
LEMMA CallTyped ==
    ASSUME VoteInv, NEW h \in Callers, handling[h].pc # "idle"
    PROVE  /\ handling[h].at \in Replicas /\ handling[h].term \in Nat
           /\ handling[h].pc \in {"term", "vote", "role", "read", "push"}
  BY DEF VoteInv, ReplicaTypes, HandlingTypes, CallTypes, NotCalled

(* The next step of a call leaves a call. *)
LEMMA CallMoves ==
    ASSUME VoteInv, NEW h \in Callers, NEW c \in CallTypes, handling' = [handling EXCEPT ![h] = c]
    PROVE  HandlingTypes'
  BY DEF VoteInv, ReplicaTypes, HandlingTypes

CallRecords == [pc : {"term", "vote", "role", "read", "push"}, at : Replicas, term : Nat]

LEMMA CallIsRecord ==
    ASSUME VoteInv, NEW h \in Callers, handling[h].pc # "idle"
    PROVE  handling[h] \in CallRecords
  BY DEF VoteInv, ReplicaTypes, HandlingTypes, CallTypes, CallRecords, NotCalled

(* The late term: a newer one is learned, an older one puts the replica among
   the regressed ones, of which nothing is claimed.                        *)
LEMMA TermWritten ==
    ASSUME VoteInv, NEW h \in Callers, WriteTerm(h)
    PROVE  VoteInv'
<1>0. handling[h].pc = "term"
  BY DEF WriteTerm
<1>a. PICK r \in Replicas : r = handling[h].at
  BY <1>0, CallTyped
<1>b. PICK t \in Nat : t = handling[h].term
  BY <1>0, CallTyped
<1>1. /\ term' = [term EXCEPT ![r] = t]
      /\ handling' = [handling EXCEPT ![h] = [handling[h] EXCEPT !.pc = "vote"]]
      /\ UNCHANGED <<voted, role, log, msgs, ballots, leaders, erased>>
  BY <1>a, <1>b DEF WriteTerm
<1>2. HandlingTypes'
  <2>1. PICK c \in CallRecords : c = handling[h]
    BY <1>0, CallIsRecord
  <2>2. [c EXCEPT !.pc = "vote"] \in CallTypes
    BY DEF CallTypes, CallRecords
  <2>3. handling' = [handling EXCEPT ![h] = [c EXCEPT !.pc = "vote"]]
    BY <1>1, <2>1
  <2> QED
    BY <2>2, <2>3, CallMoves
<1>3. term[r] \in Nat /\ term'[r] = t /\ \A q \in Replicas \ {r} : term'[q] = term[q]
  BY <1>1 DEF VoteInv, ReplicaTypes
<1>4. regressed \subseteq regressed' /\ (r \notin regressed' => t > term[r])
  <2>1. regressed' = IF t <= term[r] THEN regressed \cup {r} ELSE regressed
    BY <1>a, <1>b DEF WriteTerm
  <2> QED
    BY <1>3, <2>1
<1>5. \A q : q \notin Wavering' => q \notin Wavering /\ (q = r => t > term[r])
  BY <1>1, <1>4 DEF Wavering
<1>6. ReplicaTypes' /\ GrantsCast' /\ RequestsCast'
  BY <1>1, <1>2 DEF VoteInv, ReplicaTypes, GrantsCast, RequestsCast
<1>7. VoteRemembered'
  <2> SUFFICES ASSUME NEW b \in ballots, b[1] \notin Wavering'
               PROVE  b[2] <= term'[b[1]] /\ (b[2] = term'[b[1]] => voted[b[1]] = b[3])
    BY <1>1 DEF VoteRemembered
  <2>1. b[1] \in Replicas /\ b[2] \in Nat /\ b[1] \notin Wavering /\ (b[1] = r => t > term[r])
    BY <1>5 DEF VoteInv, ReplicaTypes
  <2>2. b[2] <= term[b[1]] /\ (b[2] = term[b[1]] => voted[b[1]] = b[3])
    BY <2>1 DEF VoteInv, VoteRemembered
  <2> QED
    BY <1>3, <2>1, <2>2
<1>8. OneVote' /\ LeadersElected'
  BY <1>1, <1>5, BallotsGrow DEF VoteInv, OneVote
<1>9. LeadsOnce'
  <2>1. \A l \in leaders : l[1] \in Nat /\ l[2] \in Replicas
    BY DEF VoteInv, ReplicaTypes
  <2>2. \A l \in leaders : l[2] \notin regressed' => l[1] <= term'[l[2]]
    BY <1>3, <1>4, <2>1 DEF VoteInv, LeadsOnce
  <2>3. ASSUME NEW q \in Replicas \ regressed', role[q] = "candidate" PROVE <<term'[q], q>> \notin leaders
    <3>1. CASE q = r
      BY <1>3, <1>4, <2>1, <2>3, <3>1 DEF VoteInv, LeadsOnce
    <3>2. CASE q # r
      BY <1>3, <1>4, <2>3, <3>2 DEF VoteInv, LeadsOnce
    <3> QED
      BY <3>1, <3>2
  <2> QED
    BY <1>1, <2>2, <2>3 DEF LeadsOnce
<1> QED
  BY <1>6, <1>7, <1>8, <1>9 DEF VoteInv

(* The late vote: one given in the replica's term makes the replica erased. *)
LEMMA VoteWritten ==
    ASSUME VoteInv, NEW h \in Callers, WriteVote(h)
    PROVE  VoteInv'
<1>0. handling[h].pc = "vote"
  BY DEF WriteVote
<1>a. PICK r \in Replicas : r = handling[h].at
  BY <1>0, CallTyped
<1>1. /\ voted' = [voted EXCEPT ![r] = Nobody]
      /\ handling' = [handling EXCEPT ![h] = [handling[h] EXCEPT !.pc = "role"]]
      /\ erased' = IF <<r, term[r], voted[r]>> \in ballots THEN erased \cup {r} ELSE erased
      /\ UNCHANGED <<term, role, log, msgs, ballots, leaders, regressed>>
  BY <1>a DEF WriteVote
<1>2. HandlingTypes'
  <2>1. PICK c \in CallRecords : c = handling[h]
    BY <1>0, CallIsRecord
  <2>2. [c EXCEPT !.pc = "role"] \in CallTypes
    BY DEF CallTypes, CallRecords
  <2>3. handling' = [handling EXCEPT ![h] = [c EXCEPT !.pc = "role"]]
    BY <1>1, <2>1
  <2> QED
    BY <2>2, <2>3, CallMoves
<1>3. \A q \in Replicas \ {r} : voted'[q] = voted[q]
  BY <1>1 DEF VoteInv, ReplicaTypes
<1>4. \A q : q \notin Wavering' => q \notin Wavering /\ (q = r => <<r, term[r], voted[r]>> \notin ballots)
  BY <1>1 DEF Wavering
<1>5. ReplicaTypes' /\ GrantsCast' /\ RequestsCast'
  BY <1>1, <1>2 DEF VoteInv, ReplicaTypes, GrantsCast, RequestsCast
<1>6. VoteRemembered'
  <2> SUFFICES ASSUME NEW b \in ballots, b[1] \notin Wavering'
               PROVE  b[2] <= term[b[1]] /\ (b[2] = term[b[1]] => voted'[b[1]] = b[3])
    BY <1>1 DEF VoteRemembered
  <2>1. b = <<b[1], b[2], b[3]>> /\ b[1] \in Replicas
    BY DEF VoteInv, ReplicaTypes
  <2>2. b[2] <= term[b[1]] /\ (b[2] = term[b[1]] => voted[b[1]] = b[3])
    BY <1>4 DEF VoteInv, VoteRemembered
  <2>3. CASE b[1] = r
    BY <1>4, <2>1, <2>2, <2>3
  <2>4. CASE b[1] # r
    BY <1>3, <2>1, <2>2, <2>4
  <2> QED
    BY <2>3, <2>4
<1>7. OneVote' /\ LeadersElected' /\ LeadsOnce'
  BY <1>1, <1>4, BallotsGrow DEF VoteInv, OneVote, LeadsOnce
<1> QED
  BY <1>5, <1>6, <1>7 DEF VoteInv

LEMMA RoleWritten ==
    ASSUME VoteInv, NEW h \in Callers, WriteRole(h)
    PROVE  VoteInv'
<1>0. handling[h].pc = "role"
  BY DEF WriteRole
<1>a. PICK r \in Replicas : r = handling[h].at
  BY <1>0, CallTyped
<1>1. /\ role' = [role EXCEPT ![r] = "follower"] /\ handling' = [handling EXCEPT ![h] = NotCalled]
      /\ UNCHANGED <<term, voted, log, msgs, ballots, leaders, regressed, erased>>
  BY <1>a DEF WriteRole, replicaHistory, exceptions
<1>2. HandlingTypes'
  BY <1>1, CallMoves DEF CallTypes
<1>3. role'[r] = "follower" /\ \A q \in Replicas \ {r} : role'[q] = role[q]
  BY <1>1 DEF VoteInv, ReplicaTypes
<1>4. ReplicaTypes' /\ GrantsCast' /\ RequestsCast'
  BY <1>1, <1>2 DEF VoteInv, ReplicaTypes, GrantsCast, RequestsCast
<1>5. VoteRemembered' /\ OneVote' /\ LeadersElected'
  BY <1>1, BallotsGrow DEF VoteInv, VoteRemembered, OneVote, Wavering
<1>6. LeadsOnce'
  BY <1>1, <1>3 DEF VoteInv, LeadsOnce
<1> QED
  BY <1>4, <1>5, <1>6 DEF VoteInv

LEMMA LeaderKept ==
    ASSUME VoteInv, NEW r \in Replicas, BecomeLeader(r)
    PROVE  VoteInv'
<1> DEFINE Q == {r} \cup {m.from : m \in {n \in msgs : n.type = "VoteResponse" /\ n.to = r
                                              /\ n.term = term[r] /\ n.granted}}
<1>1. /\ role[r] = "candidate" /\ Majority(Q) /\ role' = [role EXCEPT ![r] = "leader"]
      /\ leaders' = leaders \cup {<<term[r], r>>}
      /\ UNCHANGED <<term, voted, log, msgs, handling, ballots, regressed, erased>>
      /\ \E m \in msgs : m.type = "RequestVote" /\ m.from = r /\ m.term = term[r]
  BY DEF BecomeLeader, exceptions
<1>2. term[r] \in Nat /\ role'[r] = "leader" /\ \A q \in Replicas \ {r} : role'[q] = role[q]
  BY <1>1 DEF VoteInv, ReplicaTypes
<1>3. \A m \in msgs : m.type = "VoteResponse" => m.from \in Replicas
  BY DEF VoteInv, ReplicaTypes, ReplicaMsgs, VoteRequest, VoteAnswer, AppendRequest, AppendAnswer
<1>4. Q \in SUBSET Replicas /\ \A q \in Q : <<q, term[r], r>> \in ballots
  BY <1>1, <1>3 DEF VoteInv, GrantsCast, RequestsCast
<1>5. <<term[r], r>>[1] = term[r] /\ <<term[r], r>>[2] = r
  OBVIOUS
<1>6. ElectedBy(<<term[r], r>>)
  BY <1>1, <1>4, <1>5 DEF ElectedBy
<1>7. LeadersElected'
  BY <1>1, <1>6 DEF VoteInv, LeadersElected, ElectedBy, Majority
<1>8. ReplicaTypes' /\ GrantsCast' /\ RequestsCast'
  BY <1>1, <1>2 DEF VoteInv, ReplicaTypes, GrantsCast, RequestsCast, HandlingTypes
<1>9. VoteRemembered' /\ OneVote'
  BY <1>1 DEF VoteInv, VoteRemembered, OneVote, Wavering
<1>10. LeadsOnce'
  <2>1. \A l \in leaders' : l[2] \notin regressed => l[1] <= term[l[2]]
    BY <1>1, <1>2, <1>5 DEF VoteInv, LeadsOnce
  <2>2. \A q \in Replicas \ regressed : role'[q] = "candidate" => <<term[q], q>> \notin leaders'
    BY <1>1, <1>2 DEF VoteInv, LeadsOnce
  <2> QED
    BY <1>1, <2>1, <2>2 DEF LeadsOnce
<1> QED
  BY <1>7, <1>8, <1>9, <1>10 DEF VoteInv

LEMMA VotesKept == VoteInv /\ [ReplicaNext]_replicaVars => VoteInv'
<1> SUFFICES ASSUME VoteInv, [ReplicaNext]_replicaVars PROVE VoteInv'
  OBVIOUS
<1>t. /\ term \in [Replicas -> Nat] /\ log \in [Replicas -> Seq(Nat)]
      /\ msgs \in SUBSET ReplicaMsgs /\ HandlingTypes
      /\ handling \in [Callers -> CallTypes]
  BY DEF VoteInv, ReplicaTypes, HandlingTypes
<1>1. CASE UNCHANGED replicaVars
  BY <1>1, <1>t, MsgsMove DEF replicaVars, replicaHistory, exceptions, HandlingTypes
<1>2. ASSUME NEW h \in Callers, NEW r \in Replicas, NEW m \in msgs, HandleResponse(h, r, m) PROVE VoteInv'
  <2>1. m.term \in Nat
    BY <1>t DEF ReplicaMsgs, VoteRequest, VoteAnswer, AppendRequest, AppendAnswer
  <2>2. [pc |-> "term", at |-> r, term |-> m.term] \in CallTypes
    BY <2>1 DEF CallTypes
  <2>3. HandlingTypes'
    BY <1>2, <2>2, CallMoves DEF HandleResponse
  <2> QED
    BY <1>2, <1>t, <2>3, MsgsMove DEF HandleResponse, replicaHistory, exceptions
<1>3. ASSUME NEW m \in Appends, LoseAppend(m) PROVE VoteInv'
  BY <1>3, <1>t, MsgsMove DEF LoseAppend, replicaHistory, exceptions, HandlingTypes
<1>4. ASSUME NEW h \in Callers, PushEntry(h) PROVE VoteInv'
  <2>0. handling[h].pc = "push"
    BY <1>4 DEF PushEntry
  <2>1. PICK r \in Replicas, t \in Nat : r = handling[h].at /\ t = handling[h].term
    BY <2>0, CallTyped
  <2>2. log' = [log EXCEPT ![r] = Append(log[r], t)] /\ handling' = [handling EXCEPT ![h] = NotCalled]
    BY <1>4, <2>1 DEF PushEntry
  <2>3. log[r] \in Seq(Nat)
    BY <1>t
  <2>4. Append(log[r], t) \in Seq(Nat)
    BY <2>3
  <2>5. log' \in [Replicas -> Seq(Nat)] /\ HandlingTypes'
    BY <1>t, <2>2, <2>4, CallMoves DEF CallTypes
  <2> QED
    BY <1>4, <1>t, <2>5, MsgsMove DEF PushEntry
<1>8. ASSUME NEW h \in Callers, NEW r \in Replicas, AppendCommand(h, r) PROVE VoteInv'
  <2>1. [pc |-> "read", at |-> r, term |-> 0] \in CallTypes
    BY DEF CallTypes
  <2>2. HandlingTypes'
    BY <1>8, <2>1, CallMoves DEF AppendCommand
  <2> QED
    BY <1>8, <1>t, <2>2, MsgsMove DEF AppendCommand, replicaHistory, exceptions
<1>9. ASSUME NEW h \in Callers, ReadTerm(h) PROVE VoteInv'
  <2>0. handling[h].pc = "read"
    BY <1>9 DEF ReadTerm
  <2>1. term[handling[h].at] \in Nat
    BY <1>t, <2>0, CallTyped
  <2>2. handling' = [handling EXCEPT ![h] = [handling[h] EXCEPT !.pc = "push", !.term = term[handling[h].at]]]
    BY <1>9, <1>t DEF ReadTerm
  <2>3. HandlingTypes'
    <3>1. PICK c \in CallRecords : c = handling[h]
      BY <2>0, CallIsRecord
    <3>2. PICK t \in Nat : t = term[handling[h].at]
      BY <2>1
    <3>3. [c EXCEPT !.pc = "push", !.term = t] \in CallTypes
      BY DEF CallTypes, CallRecords
    <3>4. handling' = [handling EXCEPT ![h] = [c EXCEPT !.pc = "push", !.term = t]]
      BY <2>2, <3>1, <3>2
    <3> QED
      BY <3>3, <3>4, CallMoves
  <2> QED
    BY <1>9, <1>t, <2>3, MsgsMove DEF ReadTerm, replicaHistory, exceptions
<1>5. ASSUME NEW r \in Replicas, CreateHeartbeat(r) PROVE VoteInv'
  <2> DEFINE m == [type |-> "AppendEntries", term |-> term[r], from |-> r,
                   prev |-> Len(log[r]), prevTerm |-> LastTerm(log[r]), entries |-> <<>>]
  <2>1. log[r] \in Seq(Nat) /\ term[r] \in Nat
    BY <1>t
  <2>2. Len(log[r]) \in Nat /\ LastTerm(log[r]) \in Nat /\ <<>> \in Seq(Nat)
    BY <2>1 DEF LastTerm
  <2>3. m \in AppendRequest
    BY <2>1, <2>2 DEF AppendRequest
  <2>4. msgs' = msgs \cup {m}
    BY <1>5 DEF CreateHeartbeat, Send
  <2> QED
    BY <1>5, <1>t, <2>3, <2>4, MsgsMove DEF CreateHeartbeat, replicaHistory, exceptions, HandlingTypes
<1>6. ASSUME NEW r \in Replicas, Replicate(r) PROVE VoteInv'
  <2>1. PICK prev \in 0 .. Len(log[r]) :
          Send([type |-> "AppendEntries", term |-> term[r], from |-> r,
                prev |-> prev, prevTerm |-> IF prev = 0 THEN 0 ELSE log[r][prev],
                entries |-> SubSeq(log[r], prev + 1, Len(log[r]))])
    BY <1>6 DEF Replicate
  <2> DEFINE m == [type |-> "AppendEntries", term |-> term[r], from |-> r,
                   prev |-> prev, prevTerm |-> IF prev = 0 THEN 0 ELSE log[r][prev],
                   entries |-> SubSeq(log[r], prev + 1, Len(log[r]))]
  <2>2. log[r] \in Seq(Nat) /\ term[r] \in Nat
    BY <1>t
  <2>3. SubSeq(log[r], prev + 1, Len(log[r])) \in Seq(Nat)
    BY <2>2, SubSeqProperties
  <2>4. prev \in Nat /\ (IF prev = 0 THEN 0 ELSE log[r][prev]) \in Nat
    BY <2>2
  <2>5. m \in AppendRequest
    BY <2>2, <2>3, <2>4 DEF AppendRequest
  <2>6. msgs' = msgs \cup {m}
    BY <2>1 DEF Send
  <2> QED
    BY <1>6, <1>t, <2>5, <2>6, MsgsMove DEF Replicate, replicaHistory, exceptions, HandlingTypes
<1>7. ASSUME NEW r \in Replicas, NEW m \in msgs, RejectAppendEntries(r, m) PROVE VoteInv'
  <2> DEFINE a == [type |-> "AppendResponse", term |-> term[r], to |-> m.from, from |-> r]
  <2>1. m.from \in Replicas /\ term[r] \in Nat
    BY <1>t, <1>7, AppendMsgTyped DEF RejectAppendEntries, VoteInv
  <2>2. a \in AppendAnswer
    BY <2>1 DEF AppendAnswer
  <2>3. msgs' = msgs \cup {a}
    BY <1>7 DEF RejectAppendEntries, Send
  <2> QED
    BY <1>7, <1>t, <2>2, <2>3, MsgsMove DEF RejectAppendEntries, replicaHistory, exceptions, HandlingTypes
<1> QED
  BY <1>1, <1>2, <1>3, <1>4, <1>5, <1>6, <1>7, <1>8, <1>9, ElectionKept, RequestVoteKept,
     AppendEntriesKept, TermWritten, VoteWritten, RoleWritten, LeaderKept DEF ReplicaNext, VoteSteps, LogSteps

-------------------------------------------------------------------------------
(* The replica set: logs.  As long as no term goes back, no vote is cleared, no
   replica keeps a different entry and none pushes what it does not lead, there is for each term one log, its leader's, of which all
   that was ever logged or sent in that term is a part.                    *)

(* Each entry of L stands where the log of its term has it, after the same
   entries.                                                                *)
Fits(H, L) ==
    \A i \in 1 .. Len(L) : i <= Len(H[L[i]]) /\ \A j \in 1 .. i : H[L[i]][j] = L[j]

(* What is sent is a part of a log that fits. *)
Segment(H, m) ==
    \E L \in Seq(Nat) :
        /\ Fits(H, L) /\ m.prev + Len(m.entries) <= Len(L)
        /\ m.prev > 0 => m.prevTerm = L[m.prev]
        /\ \A i \in 1 .. Len(m.entries) : m.entries[i] = L[m.prev + i]

(* A replica between the late write of its term and of its role is called a
   leader and leads nothing.                                               *)
Leads(r) == role[r] = "leader" /\ <<term[r], r>> \in leaders

HistoryOk(H) ==
    /\ H \in [Nat -> Seq(Nat)]
    /\ \A t \in Nat : Fits(H, H[t])
    /\ \A t \in Nat : H[t] # <<>> => \E q \in Replicas : <<t, q>> \in leaders
    /\ \A r \in Replicas : Fits(H, log[r])
    /\ \A r \in Replicas : Leads(r) => log[r] = H[term[r]]
    /\ \A m \in msgs : m.type = "AppendEntries" => Segment(H, m)

Undisturbed == regressed = {} /\ erased = {} /\ skewed = {} /\ usurped = {}

HistoryInv == Undisturbed => \E H : HistoryOk(H)

LEMMA HistoryStarts == ReplicaInit => HistoryInv
<1> SUFFICES ASSUME ReplicaInit PROVE \E H : HistoryOk(H)
  BY DEF HistoryInv
<1> DEFINE H == [t \in Nat |-> <<>>]
<1>1. H \in [Nat -> Seq(Nat)] /\ \A t \in Nat : H[t] = <<>>
  OBVIOUS
<1>2. \A L : L = <<>> => Fits(H, L)
  BY DEF Fits
<1> HIDE DEF H
<1>3. HistoryOk(H)
  BY <1>1, <1>2 DEF HistoryOk, ReplicaInit, Leads
<1> QED
  BY <1>3

(* A log with the same term at the same place agrees up to it. *)
LEMMA FitsAgree ==
    ASSUME NEW H, NEW L, NEW K, Fits(H, L), Fits(H, K),
           NEW i, i \in 1 .. Len(L), i \in 1 .. Len(K), L[i] = K[i]
    PROVE  \A j \in 1 .. i : L[j] = K[j]
  BY DEF Fits

LEMMA FitsPrefix ==
    ASSUME NEW H, NEW L \in Seq(Nat), NEW K \in Seq(Nat), Fits(H, L), Len(K) <= Len(L),
           \A i \in 1 .. Len(K) : K[i] = L[i]
    PROVE  Fits(H, K)
<1> SUFFICES ASSUME NEW i \in 1 .. Len(K)
             PROVE  i <= Len(H[K[i]]) /\ \A j \in 1 .. i : H[K[i]][j] = K[j]
  BY DEF Fits
<1>1. Len(K) \in Nat /\ Len(L) \in Nat
  OBVIOUS
<1>2. i \in 1 .. Len(L) /\ \A j \in 1 .. i : j \in 1 .. Len(K)
  BY <1>1
<1>3. K[i] = L[i] /\ \A j \in 1 .. i : K[j] = L[j]
  BY <1>2
<1> QED
  BY <1>2, <1>3 DEF Fits

Histories == [Nat -> Seq(Nat)]

Grows(H, G) ==
    \A t \in Nat : Len(H[t]) <= Len(G[t]) /\ \A i \in 1 .. Len(H[t]) : G[t][i] = H[t][i]

(* A longer history fits what fitted before. *)
LEMMA FitsGrown ==
    ASSUME NEW H \in Histories, NEW G \in Histories,
           Grows(H, G), NEW L \in Seq(Nat), Fits(H, L)
    PROVE  Fits(G, L)
<1> SUFFICES ASSUME NEW i \in 1 .. Len(L)
             PROVE  i <= Len(G[L[i]]) /\ \A j \in 1 .. i : G[L[i]][j] = L[j]
  BY DEF Fits
<1>1. L[i] \in Nat /\ i \in Nat
  OBVIOUS
<1>4. H[L[i]] \in Seq(Nat) /\ G[L[i]] \in Seq(Nat)
  BY <1>1 DEF Histories
<1>5. Len(H[L[i]]) \in Nat /\ Len(G[L[i]]) \in Nat
  BY <1>4
<1>2. i <= Len(H[L[i]]) /\ \A j \in 1 .. i : H[L[i]][j] = L[j]
  BY DEF Fits
<1>3. Len(H[L[i]]) <= Len(G[L[i]]) /\ \A j \in 1 .. Len(H[L[i]]) : G[L[i]][j] = H[L[i]][j]
  BY <1>1 DEF Grows
<1> HIDE DEF Fits
<1>6. i <= Len(G[L[i]])
  BY <1>1, <1>2, <1>3, <1>5
<1>7. \A j \in 1 .. i : j \in 1 .. Len(H[L[i]])
  BY <1>1, <1>2, <1>5
<1> QED
  BY <1>2, <1>3, <1>6, <1>7

LEMMA GrowsOne ==
    ASSUME NEW H \in Histories, NEW t \in Nat, NEW K \in Seq(Nat),
           Len(H[t]) <= Len(K), \A i \in 1 .. Len(H[t]) : K[i] = H[t][i]
    PROVE  [H EXCEPT ![t] = K] \in Histories /\ Grows(H, [H EXCEPT ![t] = K])
<1> DEFINE G == [H EXCEPT ![t] = K]
<1>1. G \in [Nat -> Seq(Nat)] /\ G[t] = K /\ \A s \in Nat \ {t} : G[s] = H[s]
  BY DEF Histories
<1>2. ASSUME NEW s \in Nat, s # t PROVE Len(H[s]) <= Len(G[s])
  BY <1>1, <1>2 DEF Histories
<1> QED
  BY <1>1, <1>2 DEF Grows, Histories

(* A new history in which one term's log is longer. *)
LEMMA HistoryGrown ==
    ASSUME VoteInv, VoteInv', LeadersUnique', regressed' = {}, erased' = {}, NEW H, HistoryOk(H),
           NEW t \in Nat, NEW K \in Seq(Nat), NEW r \in Replicas,
           Len(H[t]) <= Len(K), \A i \in 1 .. Len(H[t]) : K[i] = H[t][i],
           <<t, r>> \in leaders', term[r] = t, term' = term,
           leaders' = leaders \cup {<<t, r>>}, msgs' = msgs,
           Fits([H EXCEPT ![t] = K], K), log' = [log EXCEPT ![r] = K],
           \A q \in Replicas \ {r} : role'[q] = role[q]
    PROVE  HistoryOk([H EXCEPT ![t] = K])'
<1> DEFINE G == [H EXCEPT ![t] = K]
<1>1. H \in [Nat -> Seq(Nat)] /\ G \in [Nat -> Seq(Nat)] /\ G[t] = K
      /\ \A s \in Nat \ {t} : G[s] = H[s]
  BY DEF HistoryOk
<1>2. Grows(H, G)
  BY <1>1, GrowsOne DEF Histories
<1>3. \A L \in Seq(Nat) : Fits(H, L) => Fits(G, L)
  <2> HIDE DEF G
  <2> QED
    BY <1>1, <1>2, FitsGrown DEF Histories
<1>4. Fits(G, K)
  OBVIOUS
<1>5. log \in [Replicas -> Seq(Nat)]
  BY DEF VoteInv, ReplicaTypes
<1>6. log'[r] = K /\ \A q \in Replicas \ {r} : log'[q] = log[q]
  BY <1>5
<1> HIDE DEF G
<1>7. \A s \in Nat : Fits(G, G[s])
  BY <1>1, <1>3, <1>4 DEF HistoryOk
<1>8. \A s \in Nat : G[s] # <<>> => \E q \in Replicas : <<s, q>> \in leaders'
  BY <1>1 DEF HistoryOk
<1>9. \A q \in Replicas : Fits(G, log'[q])
  BY <1>3, <1>4, <1>5, <1>6 DEF HistoryOk
<1>10. \A q \in Replicas : Leads(q)' => log'[q] = G[term'[q]]
  <2> SUFFICES ASSUME NEW q \in Replicas, Leads(q)', q # r PROVE log'[q] = G[term'[q]]
    BY <1>1, <1>6
  <2>1. role'[q] = "leader" /\ <<term[q], q>> \in leaders' /\ role'[q] = role[q]
    BY DEF Leads
  <2>2. <<term[q], q>> \in leaders /\ term[q] \in Nat
    BY <2>1 DEF VoteInv, ReplicaTypes
  <2>3. log'[q] = log[q] /\ log[q] = H[term[q]]
    BY <1>6, <2>1, <2>2 DEF HistoryOk, Leads
  <2>4. term[q] # t
    BY <2>1 DEF LeadersUnique
  <2> QED
    BY <1>1, <2>2, <2>3, <2>4
<1>11. ASSUME NEW m \in msgs, m.type = "AppendEntries" PROVE Segment(G, m)'
  <2>1. Segment(H, m)
    BY <1>11 DEF HistoryOk
  <2> QED
    BY <1>3, <2>1 DEF Segment
<1>12. HistoryOk(G)'
  BY <1>1, <1>7, <1>8, <1>9, <1>10, <1>11 DEF HistoryOk
<1> QED
  BY <1>12 DEF G

(* The same history fits if leaders keep their logs and send parts of them. *)
LEMMA HistoryKeeps ==
    ASSUME NEW H, HistoryOk(H), leaders \subseteq leaders',
           \A r \in Replicas : Fits(H, log'[r]),
           \A r \in Replicas : Leads(r)' => Leads(r) /\ log'[r] = log[r] /\ term'[r] = term[r],
           \A m \in msgs' : m.type = "AppendEntries" => m \in msgs \/ Segment(H, m)
    PROVE  HistoryOk(H)'
<1>1. \A t \in Nat : H[t] # <<>> => \E q \in Replicas : <<t, q>> \in leaders'
  BY DEF HistoryOk
<1>2. \A r \in Replicas : Leads(r)' => log'[r] = H[term'[r]]
  BY DEF HistoryOk
<1>3. ASSUME NEW m \in msgs', m.type = "AppendEntries" PROVE Segment(H, m)'
  <2>1. Segment(H, m)
    BY <1>3 DEF HistoryOk
  <2> QED
    BY <2>1 DEF Segment
<1> QED
  BY <1>1, <1>2, <1>3 DEF HistoryOk

LEMMA HistoryElects ==
    ASSUME VoteInv, VoteInv', LeadersUnique', regressed' = {}, erased' = {}, NEW H, HistoryOk(H),
           NEW r \in Replicas, BecomeLeader(r)
    PROVE  \E G : HistoryOk(G)'
<1> DEFINE t == term[r]
           G == [H EXCEPT ![t] = log[r]]
<1>1. /\ role[r] = "candidate" /\ role' = [role EXCEPT ![r] = "leader"]
      /\ leaders' = leaders \cup {<<t, r>>}
      /\ UNCHANGED <<term, log, msgs, regressed>>
  BY DEF BecomeLeader, exceptions
<1>2. t \in Nat /\ log[r] \in Seq(Nat) /\ log' = [log EXCEPT ![r] = log[r]]
      /\ \A q \in Replicas \ {r} : role'[q] = role[q]
  BY <1>1 DEF VoteInv, ReplicaTypes
<1>3. <<t, r>> \notin leaders
  BY <1>1 DEF VoteInv, LeadsOnce
<1>4. \A q \in Replicas : <<t, q>> \notin leaders
  <2> SUFFICES ASSUME NEW q \in Replicas, <<t, q>> \in leaders PROVE FALSE
    OBVIOUS
  <2>1. <<t, q>> \in leaders' /\ <<t, r>> \in leaders'
    BY <1>1
  <2>2. q = r
    BY <2>1 DEF LeadersUnique
  <2> QED
    BY <1>3, <2>2
<1>5. H[t] = <<>> /\ H \in [Nat -> Seq(Nat)]
  BY <1>2, <1>4 DEF HistoryOk
<1>6. Len(H[t]) <= Len(log[r]) /\ \A i \in 1 .. Len(H[t]) : log[r][i] = H[t][i]
  BY <1>2, <1>5
<1>7. Grows(H, G) /\ G \in Histories /\ H \in Histories
  <2>1. H \in Histories
    BY <1>5 DEF Histories
  <2> QED
    BY <1>2, <1>6, <2>1, GrowsOne
<1>8. Fits(H, log[r])
  BY DEF HistoryOk
<1>9. Fits(G, log[r])
  <2> HIDE DEF G
  <2> QED
    BY <1>2, <1>7, <1>8, FitsGrown
<1>10. <<t, r>> \in leaders' /\ leaders' = leaders \cup {<<t, r>>}
  BY <1>1
<1>11. HistoryOk(G)'
  BY <1>1, <1>2, <1>6, <1>9, <1>10, HistoryGrown
<1> QED
  BY <1>11

LEMMA HistoryAppends ==
    ASSUME VoteInv, VoteInv', LeadersUnique', regressed' = {}, erased' = {}, usurped' = {},
           NEW H, HistoryOk(H), NEW h \in Callers, PushEntry(h)
    PROVE  \E G : HistoryOk(G)'
<1>0. handling[h].pc = "push"
  BY DEF PushEntry
<1>a. PICK r \in Replicas, t \in Nat : r = handling[h].at /\ t = handling[h].term
  BY <1>0, CallTyped
<1>b. PICK K : K = Append(log[r], t)
  OBVIOUS
<1> DEFINE G == [H EXCEPT ![t] = K]
<1>1. /\ role[r] = "leader" /\ term[r] = t /\ <<t, r>> \in leaders
      /\ log' = [log EXCEPT ![r] = K] /\ UNCHANGED <<term, role, msgs, leaders, regressed>>
  BY <1>a, <1>b DEF PushEntry
<1>2. t \in Nat /\ log[r] \in Seq(Nat) /\ <<t, r>> \in leaders
  BY <1>1 DEF VoteInv, ReplicaTypes
<1>3. H[t] = log[r] /\ H \in Histories /\ Fits(H, log[r])
  BY <1>1 DEF HistoryOk, Histories, Leads
<1>4. K \in Seq(Nat) /\ Len(K) = Len(log[r]) + 1 /\ K[Len(log[r]) + 1] = t
      /\ \A i \in 1 .. Len(log[r]) : K[i] = log[r][i]
  BY <1>2, <1>b
<1>5. Len(H[t]) <= Len(K) /\ \A i \in 1 .. Len(H[t]) : K[i] = H[t][i]
  <2>1. PICK L : L = log[r]
    OBVIOUS
  <2>2. Len(L) \in Nat /\ Len(K) = Len(L) + 1 /\ \A i \in 1 .. Len(L) : K[i] = L[i]
    BY <1>2, <1>4, <2>1
  <2>3. PICK n : n = Len(L)
    OBVIOUS
  <2>4. n <= n + 1
    BY <2>2, <2>3
  <2> QED
    BY <1>3, <2>1, <2>2, <2>3, <2>4
<1>6. G \in [Nat -> Seq(Nat)] /\ G[t] = K /\ \A s \in Nat \ {t} : G[s] = H[s]
  BY <1>2, <1>3, <1>4 DEF Histories
<1>7. Grows(H, G) /\ G \in Histories
  BY <1>2, <1>3, <1>4, <1>5, GrowsOne
<1> HIDE DEF G
<1>8. Fits(G, log[r])
  BY <1>2, <1>3, <1>7, FitsGrown
<1>9. Fits(G, K)
  <2> SUFFICES ASSUME NEW i \in 1 .. Len(K)
               PROVE  i <= Len(G[K[i]]) /\ \A j \in 1 .. i : G[K[i]][j] = K[j]
    BY DEF Fits
  <2>1. Len(log[r]) \in Nat
    BY <1>2
  <2>2. CASE i = Len(log[r]) + 1
    <3>1. K[i] = t /\ G[K[i]] = K
      BY <1>4, <1>6, <2>2
    <3> QED
      BY <1>4, <3>1, <2>1
  <2>3. CASE i \in 1 .. Len(log[r])
    <3>1. K[i] = log[r][i] /\ \A j \in 1 .. i : K[j] = log[r][j]
      BY <1>4, <2>1, <2>3
    <3>2. i <= Len(G[log[r][i]]) /\ \A j \in 1 .. i : G[log[r][i]][j] = log[r][j]
      BY <1>8, <2>3 DEF Fits
    <3> QED
      BY <3>1, <3>2
  <2> QED
    BY <1>4, <2>1, <2>2, <2>3
<1>10. HistoryOk([H EXCEPT ![t] = K])'
  <2>1. leaders' = leaders \cup {<<t, r>>} /\ <<t, r>> \in leaders' /\ term[r] = t /\ term' = term
        /\ msgs' = msgs /\ \A q \in Replicas \ {r} : role'[q] = role[q]
    BY <1>1, <1>2, <1>a
  <2>2. Fits([H EXCEPT ![t] = K], K)
    BY <1>9 DEF G
  <2> QED
    BY <1>1, <1>2, <1>4, <1>5, <2>1, <2>2, HistoryGrown
<1> QED
  BY <1>10

(* A successful append leaves a part of the leader's log, or the log as it was. *)
LEMMA HistoryFollows ==
    ASSUME VoteInv, skewed' = {}, NEW H, HistoryOk(H),
           NEW r \in Replicas, NEW m \in msgs, HandleAppendEntries(r, m)
    PROVE  HistoryOk(H)'
<1>1. /\ m.type = "AppendEntries" /\ role' = [role EXCEPT ![r] = "follower"]
      /\ term' = [term EXCEPT ![r] = m.term]
      /\ UNCHANGED <<msgs, leaders>>
  BY DEF HandleAppendEntries
<1>2. /\ m.term \in Nat /\ m.prev \in Nat /\ m.prevTerm \in Nat /\ m.entries \in Seq(Nat)
      /\ log[r] \in Seq(Nat) /\ Segment(H, m)
      /\ log \in [Replicas -> Seq(Nat)]
  BY <1>1, AppendMsgTyped DEF VoteInv, ReplicaTypes, HistoryOk
<1>p. m.prev \in Nat
  BY <1>2
<1> DEFINE L == log[r]
           E == m.entries
<1>a. PICK T :
          /\ T \in Seq(Nat) /\ Fits(H, T) /\ m.prev + Len(E) <= Len(T)
          /\ m.prev > 0 => m.prevTerm = T[m.prev]
          /\ \A i \in 1 .. Len(E) : E[i] = T[m.prev + i]
  BY <1>2 DEF Segment
<1>3. L \in Seq(Nat) /\ T \in Seq(Nat) /\ E \in Seq(Nat) /\ Fits(H, L) /\ Fits(H, T)
  BY <1>2, <1>a DEF HistoryOk
<1>4. Len(L) \in Nat /\ Len(T) \in Nat /\ Len(E) \in Nat
  BY <1>3
<1>5. /\ m.prev + Len(E) <= Len(T) /\ (m.prev > 0 => m.prevTerm = T[m.prev])
      /\ \A i \in 1 .. Len(E) : E[i] = T[m.prev + i]
  BY <1>a
<1> HIDE DEF L, E
<1>6. ASSUME NEW K, Fits(H, K), log' = [log EXCEPT ![r] = K] PROVE HistoryOk(H)'
  <2>1. log'[r] = K /\ \A q \in Replicas \ {r} : log'[q] = log[q] /\ role'[q] = role[q] /\ term'[q] = term[q]
    BY <1>1, <1>2, <1>6 DEF VoteInv, ReplicaTypes
  <2>2. \A q \in Replicas : Fits(H, log'[q])
    BY <1>6, <2>1 DEF HistoryOk
  <2>3. role'[r] = "follower"
    BY <1>1 DEF VoteInv, ReplicaTypes
  <2>4. \A q \in Replicas : Leads(q)' => Leads(q) /\ log'[q] = log[q] /\ term'[q] = term[q]
    <3>1. leaders' = leaders
      BY <1>1
    <3> QED
      BY <2>1, <2>3, <3>1 DEF Leads
  <2> QED
    BY <1>1, <2>2, <2>4, HistoryKeeps
<1>7. CASE m.prev \in 1 .. Len(log[r]) /\ log' = [log EXCEPT ![r] = SubSeq(log[r], 1, m.prev - 1)]
  <2> DEFINE K == SubSeq(L, 1, m.prev - 1)
  <2>1. m.prev \in 1 .. Len(L) /\ m.prev - 1 \in 0 .. Len(L)
    BY <1>4, <1>7 DEF L
  <2>2. \A i \in 1 .. m.prev - 1 : L[i] \in Nat
    <3>1. L \in Seq(Nat)
      BY <1>3
    <3>2. \A i \in 1 .. m.prev - 1 : i \in 1 .. Len(L)
      BY <1>4, <2>1
    <3> QED
      BY <3>1, <3>2
  <2>3. /\ K \in Seq(Nat) /\ Len(K) = IF 1 <= m.prev - 1 THEN m.prev - 1 - 1 + 1 ELSE 0
        /\ \A i \in 1 .. m.prev - 1 - 1 + 1 : K[i] = L[1 + i - 1]
    BY <2>1, <2>2, SubSeqProperties
  <2> HIDE DEF K
  <2>4. Len(K) = m.prev - 1 /\ \A i \in 1 .. Len(K) : K[i] = L[i]
    BY <2>1, <2>3
  <2>5. Fits(H, K)
    BY <1>3, <1>4, <2>1, <2>3, <2>4, FitsPrefix
  <2> QED
    BY <1>6, <1>7, <2>5 DEF K, L
<1>8. CASE log' = [log EXCEPT ![r] = log[r]]
  BY <1>3, <1>6, <1>8 DEF L
<1>9. CASE /\ m.prev \in 0 .. Len(log[r]) /\ (m.prev > 0 => log[r][m.prev] = m.prevTerm)
           /\ log' = [log EXCEPT ![r] = Pushed(log[r], m.entries, m.prev)]
           /\ \A i \in Skipped(log[r], m.entries, m.prev) : log[r][m.prev + i] = m.entries[i]
  <2> DEFINE K == Pushed(L, E, m.prev)
  <2>1. /\ m.prev \in 0 .. Len(L) /\ (m.prev > 0 => L[m.prev] = m.prevTerm)
        /\ \A i \in 1 .. Len(E) : m.prev + i <= Len(L) => L[m.prev + i] = E[i]
    BY <1>9 DEF L, E, Skipped
  <2>2. /\ K \in Seq(Nat) /\ (Len(L) >= m.prev + Len(E) => K = L)
        /\ Len(L) < m.prev + Len(E) =>
              /\ Len(K) = m.prev + Len(E)
              /\ \A i \in 1 .. Len(L) : K[i] = L[i]
              /\ \A i \in Len(L) + 1 .. m.prev + Len(E) : K[i] = E[i - m.prev]
    BY <1>3, <2>1, PushedIs
  <2> HIDE DEF K
  <2>3. \A i \in 1 .. m.prev : L[i] = T[i]
    <3>1. CASE m.prev = 0
      BY <3>1
    <3>2. CASE m.prev > 0
      <4>1. m.prev \in 1 .. Len(L) /\ m.prev \in 1 .. Len(T) /\ L[m.prev] = T[m.prev]
        BY <1>2, <1>4, <1>5, <2>1, <3>2
      <4>2. Fits(H, L) /\ Fits(H, T)
        BY <1>3
      <4> QED
        BY <4>1, <4>2, FitsAgree
    <3> QED
      BY <1>2, <3>1, <3>2
  <2>4. CASE Len(L) < m.prev + Len(E)
    <3>1. ASSUME NEW i \in 1 .. Len(K) PROVE K[i] = T[i]
      <4>1. CASE i \in 1 .. m.prev
        BY <1>2, <1>4, <2>1, <2>2, <2>3, <2>4, <4>1
      <4>2. CASE i \in m.prev + 1 .. Len(L)
        <5>1. i - m.prev \in 1 .. Len(E) /\ m.prev + (i - m.prev) = i /\ i \in 1 .. Len(L)
          BY <1>p, <1>4, <2>4, <4>2
        <5>2. L[i] = E[i - m.prev] /\ E[i - m.prev] = T[i]
          BY <1>4, <1>5, <2>1, <5>1
        <5> QED
          BY <2>2, <2>4, <5>1, <5>2
      <4>3. CASE i \in Len(L) + 1 .. m.prev + Len(E)
        <5>1. i - m.prev \in 1 .. Len(E) /\ m.prev + (i - m.prev) = i
          <6>1. m.prev \in 0 .. Len(L)
            BY <2>1
          <6>2. Len(L) \in Nat /\ Len(E) \in Nat
            BY <1>4
          <6>3. PICK k \in Int : k = Len(L)
            BY <6>2
          <6> QED
            BY <1>p, <4>3, <6>1, <6>2, <6>3
        <5> QED
          BY <1>5, <2>2, <2>4, <4>3, <5>1
      <4> QED
        BY <1>2, <1>4, <2>1, <2>2, <2>4, <4>1, <4>2, <4>3
    <3>2. Fits(H, K)
      BY <1>3, <1>5, <2>2, <2>4, <3>1, FitsPrefix
    <3> QED
      BY <1>6, <1>9, <3>2 DEF K, L, E
  <2>5. CASE Len(L) >= m.prev + Len(E)
    <3>1. Fits(H, K)
      BY <1>3, <2>2, <2>5
    <3> QED
      BY <1>6, <1>9, <3>1 DEF K, L, E
  <2> QED
    BY <1>2, <1>4, <2>4, <2>5
<1> QED
  <2>1. ReplicaTypes
    BY DEF VoteInv
  <2> QED
    BY <1>7, <1>8, <1>9, <2>1, HandledLog

LEMMA HistoryKept ==
    VoteInv /\ VoteInv' /\ LeadersUnique' /\ HistoryInv /\ [ReplicaNext]_replicaVars => HistoryInv'
<1> SUFFICES ASSUME VoteInv, VoteInv', LeadersUnique', HistoryInv, [ReplicaNext]_replicaVars,
                    Undisturbed'
             PROVE  \E H : HistoryOk(H)'
  BY DEF HistoryInv
<1>1. Undisturbed /\ regressed' = {} /\ erased' = {} /\ skewed' = {} /\ usurped' = {}
  <2> DEFINE Grown == /\ regressed \subseteq regressed' /\ erased \subseteq erased'
                      /\ skewed \subseteq skewed' /\ usurped \subseteq usurped'
  <2>1. ASSUME NEW r \in Replicas, StartElection(r) \/ BecomeLeader(r) PROVE Grown
    BY <2>1 DEF StartElection, BecomeLeader, exceptions
  <2>2. ASSUME NEW r \in Replicas, NEW m \in msgs, HandleRequestVote(r, m) PROVE Grown
    BY <2>2 DEF HandleRequestVote, exceptions
  <2>3. ASSUME NEW h \in Callers, NEW r \in Replicas, NEW m \in msgs, HandleResponse(h, r, m) PROVE Grown
    BY <2>3 DEF HandleResponse, replicaHistory, exceptions
  <2>4. ASSUME NEW h \in Callers, WriteTerm(h) PROVE Grown
    BY <2>4 DEF WriteTerm
  <2>5. ASSUME NEW h \in Callers, WriteVote(h) PROVE Grown
    BY <2>5 DEF WriteVote
  <2>6. ASSUME NEW h \in Callers, WriteRole(h) \/ ReadTerm(h) PROVE Grown
    BY <2>6 DEF WriteRole, ReadTerm, replicaHistory, exceptions
  <2>7. ASSUME NEW h \in Callers, PushEntry(h) PROVE Grown
    BY <2>7 DEF PushEntry
  <2>8. ASSUME NEW h \in Callers, NEW r \in Replicas, AppendCommand(h, r) PROVE Grown
    BY <2>8 DEF AppendCommand, replicaHistory, exceptions
  <2>9. ASSUME NEW m \in Appends, LoseAppend(m) PROVE Grown
    BY <2>9 DEF LoseAppend, replicaHistory, exceptions
  <2>10. ASSUME NEW r \in Replicas, CreateHeartbeat(r) \/ Replicate(r) PROVE Grown
    BY <2>10 DEF CreateHeartbeat, Replicate, replicaHistory, exceptions
  <2>11. ASSUME NEW r \in Replicas, NEW m \in msgs, HandleAppendEntries(r, m) PROVE Grown
    BY <2>11 DEF HandleAppendEntries
  <2>12. ASSUME NEW r \in Replicas, NEW m \in msgs, RejectAppendEntries(r, m) PROVE Grown
    BY <2>12 DEF RejectAppendEntries, replicaHistory, exceptions
  <2>13. ASSUME UNCHANGED replicaVars PROVE Grown
    BY <2>13 DEF replicaVars, replicaHistory, exceptions
  <2>14. Grown
    BY <2>1, <2>2, <2>3, <2>4, <2>5, <2>6, <2>7, <2>8, <2>9, <2>10, <2>11, <2>12, <2>13
       DEF ReplicaNext, VoteSteps, LogSteps
  <2> QED
    BY <2>14 DEF Undisturbed
<1>2. PICK H : HistoryOk(H)
  BY <1>1 DEF HistoryInv
<1>3. \A r \in Replicas : Fits(H, log[r])
  BY <1>2 DEF HistoryOk
<1>4. ASSUME log' = log, leaders' = leaders,
             \A r \in Replicas : Leads(r)' => role[r] = "leader" /\ term'[r] = term[r],
             \A m \in msgs' : m.type = "AppendEntries" => m \in msgs
      PROVE  HistoryOk(H)'
  <2>1. \A r \in Replicas : Leads(r)' => Leads(r) /\ log'[r] = log[r] /\ term'[r] = term[r]
    BY <1>4 DEF Leads
  <2> QED
    BY <1>2, <1>3, <1>4, <2>1, HistoryKeeps
<1>5. CASE UNCHANGED replicaVars
  BY <1>4, <1>5 DEF replicaVars, replicaHistory, Leads
<1>6. ASSUME NEW r \in Replicas, StartElection(r) PROVE HistoryOk(H)'
  <2>1. \A m \in msgs' : m.type = "AppendEntries" => m \in msgs
    BY <1>6 DEF StartElection, Send
  <2>2. \A q \in Replicas : Leads(q)' => role[q] = "leader" /\ term'[q] = term[q]
    BY <1>6 DEF StartElection, VoteInv, ReplicaTypes, Leads
  <2> QED
    BY <1>4, <1>6, <2>1, <2>2 DEF StartElection
<1>7. ASSUME NEW r \in Replicas, NEW m \in msgs, HandleRequestVote(r, m) PROVE HistoryOk(H)'
  <2>1. \A n \in msgs' : n.type = "AppendEntries" => n \in msgs
    BY <1>7 DEF HandleRequestVote, Send
  <2>2. /\ term' = [term EXCEPT ![r] = IF m.term > term[r] THEN m.term ELSE term[r]]
        /\ role' = [role EXCEPT ![r] = IF m.term > term[r] THEN "follower" ELSE role[r]]
    BY <1>7 DEF HandleRequestVote
  <2>3. \A q \in Replicas : Leads(q)' => role[q] = "leader" /\ term'[q] = term[q]
    BY <2>2 DEF VoteInv, ReplicaTypes, Leads
  <2> QED
    BY <1>4, <1>7, <2>1, <2>3 DEF HandleRequestVote
<1>8. ASSUME NEW h \in Callers, WriteTerm(h) PROVE HistoryOk(H)'
  <2>0. handling[h].pc = "term"
    BY <1>8 DEF WriteTerm
  <2>1. PICK r \in Replicas, t \in Nat : r = handling[h].at /\ t = handling[h].term
    BY <2>0, CallTyped
  <2>2. /\ term' = [term EXCEPT ![r] = t] /\ UNCHANGED <<role, log, msgs, leaders>>
        /\ regressed' = IF t <= term[r] THEN regressed \cup {r} ELSE regressed
    BY <1>8, <2>1 DEF WriteTerm
  <2>6. term[r] \in Nat /\ term'[r] = t /\ \A q \in Replicas \ {r} : term'[q] = term[q]
    BY <2>2 DEF VoteInv, ReplicaTypes
  <2>7. ~(t <= term[r])
    BY <1>1, <2>2
  <2>3. t > term[r]
    BY <2>6, <2>7
  <2>4. <<t, r>> \notin leaders
    <3>1. <<t, r>> \in leaders => t <= term[r]
      BY <1>1 DEF VoteInv, LeadsOnce, Undisturbed
    <3> QED
      BY <2>6, <2>7, <3>1
  <2>5. \A q \in Replicas : Leads(q)' => role[q] = "leader" /\ term'[q] = term[q]
    BY <2>2, <2>4, <2>6 DEF Leads
  <2> QED
    BY <1>4, <2>2, <2>5
<1>9. ASSUME NEW h \in Callers, WriteVote(h) PROVE HistoryOk(H)'
  BY <1>4, <1>9 DEF WriteVote, Leads
<1>10. ASSUME NEW h \in Callers, WriteRole(h) PROVE HistoryOk(H)'
  <2>1. handling[h].at \in Replicas
    BY <1>10, CallTyped DEF WriteRole
  <2>2. \A q \in Replicas : Leads(q)' => role[q] = "leader" /\ term'[q] = term[q]
    BY <1>10, <2>1 DEF WriteRole, VoteInv, ReplicaTypes, Leads
  <2> QED
    BY <1>4, <1>10, <2>2 DEF WriteRole, replicaHistory
<1>19. ASSUME NEW h \in Callers, NEW r \in Replicas, NEW m \in msgs, HandleResponse(h, r, m) PROVE HistoryOk(H)'
  BY <1>4, <1>19 DEF HandleResponse, replicaHistory, Leads
<1>20. ASSUME NEW h \in Callers, NEW r \in Replicas, AppendCommand(h, r) PROVE HistoryOk(H)'
  BY <1>4, <1>20 DEF AppendCommand, replicaHistory, Leads
<1>21. ASSUME NEW h \in Callers, ReadTerm(h) PROVE HistoryOk(H)'
  BY <1>4, <1>21 DEF ReadTerm, replicaHistory, Leads
<1>22. ASSUME NEW m \in Appends, LoseAppend(m) PROVE HistoryOk(H)'
  BY <1>4, <1>22 DEF LoseAppend, replicaHistory, Leads
<1>11. ASSUME NEW r \in Replicas, NEW m \in msgs, RejectAppendEntries(r, m) PROVE HistoryOk(H)'
  <2>1. \A n \in msgs' : n.type = "AppendEntries" => n \in msgs
    BY <1>11 DEF RejectAppendEntries, Send
  <2> QED
    BY <1>4, <1>11, <2>1 DEF RejectAppendEntries, replicaHistory, Leads
<1>12. ASSUME NEW m, Segment(H, m), msgs' = msgs \cup {m}, UNCHANGED <<term, role, log, leaders>>
       PROVE  HistoryOk(H)'
  <2>1. \A n \in msgs' : n.type = "AppendEntries" => n \in msgs \/ Segment(H, n)
    BY <1>12
  <2>2. \A r \in Replicas : Leads(r)' => Leads(r) /\ log'[r] = log[r] /\ term'[r] = term[r]
    BY <1>12 DEF Leads
  <2> QED
    BY <1>2, <1>3, <1>12, <2>1, <2>2, HistoryKeeps
<1>13. \A r \in Replicas : log[r] \in Seq(Nat) /\ Fits(H, log[r])
  BY <1>3 DEF VoteInv, ReplicaTypes
<1>14. ASSUME NEW r \in Replicas, CreateHeartbeat(r) PROVE HistoryOk(H)'
  <2>1. PICK m : m = [type |-> "AppendEntries", term |-> term[r], from |-> r,
                      prev |-> Len(log[r]), prevTerm |-> LastTerm(log[r]), entries |-> <<>>]
    OBVIOUS
  <2>2. msgs' = msgs \cup {m} /\ UNCHANGED <<term, role, log, leaders>>
    BY <1>14, <2>1 DEF CreateHeartbeat, Send, replicaHistory
  <2>3. log[r] \in Seq(Nat) /\ Fits(H, log[r])
    BY <1>13
  <2>4. /\ m.term = term[r] /\ m.from = r /\ m.prev = Len(log[r]) /\ m.prevTerm = LastTerm(log[r])
        /\ m.entries = <<>>
    BY <2>1
  <2>5. Len(log[r]) \in Nat /\ (Len(log[r]) > 0 => LastTerm(log[r]) = log[r][Len(log[r])])
    BY <2>3 DEF LastTerm
  <2>6. Segment(H, m)
    BY <2>3, <2>4, <2>5 DEF Segment
  <2> QED
    BY <1>12, <2>2, <2>6
<1>15. ASSUME NEW r \in Replicas, Replicate(r) PROVE HistoryOk(H)'
  <2>1. PICK prev \in 0 .. Len(log[r]) :
          /\ Send([type |-> "AppendEntries", term |-> term[r], from |-> r,
                   prev |-> prev, prevTerm |-> IF prev = 0 THEN 0 ELSE log[r][prev],
                   entries |-> SubSeq(log[r], prev + 1, Len(log[r]))])
    BY <1>15 DEF Replicate
  <2>2. PICK m : m = [type |-> "AppendEntries", term |-> term[r], from |-> r,
                      prev |-> prev, prevTerm |-> IF prev = 0 THEN 0 ELSE log[r][prev],
                      entries |-> SubSeq(log[r], prev + 1, Len(log[r]))]
    OBVIOUS
  <2>3. msgs' = msgs \cup {m} /\ UNCHANGED <<term, role, log, leaders>>
    BY <1>15, <2>1, <2>2 DEF Replicate, Send, replicaHistory
  <2>4. log[r] \in Seq(Nat) /\ Fits(H, log[r])
    BY <1>13
  <2>5. /\ m.term = term[r] /\ m.from = r /\ m.prev = prev
        /\ m.prevTerm = IF prev = 0 THEN 0 ELSE log[r][prev]
        /\ m.entries = SubSeq(log[r], prev + 1, Len(log[r]))
    BY <2>2
  <2>6. PICK L \in Seq(Nat) : L = log[r]
    BY <2>4
  <2>7. Len(L) \in Nat /\ prev \in 0 .. Len(L)
    BY <2>6
  <2>8. \A i \in prev + 1 .. Len(L) : L[i] \in Nat
    BY <2>7
  <2>9. /\ Len(SubSeq(L, prev + 1, Len(L))) = IF prev + 1 <= Len(L) THEN Len(L) - (prev + 1) + 1 ELSE 0
        /\ \A i \in 1 .. Len(L) - (prev + 1) + 1 : SubSeq(L, prev + 1, Len(L))[i] = L[prev + 1 + i - 1]
    BY <2>7, <2>8, SubSeqProperties
  <2>10. Len(m.entries) = Len(L) - prev /\ \A i \in 1 .. Len(L) - prev : m.entries[i] = L[prev + i]
    <3>1. m.entries = SubSeq(L, prev + 1, Len(L))
      BY <2>5, <2>6
    <3>2. \A i \in 1 .. Len(L) - prev : prev + 1 + i - 1 = prev + i /\ i \in 1 .. Len(L) - (prev + 1) + 1
      BY <2>7
    <3>3. Len(m.entries) = Len(L) - prev
      BY <2>7, <2>9, <3>1
    <3> QED
      BY <2>9, <3>1, <3>2, <3>3
  <2>11. m.prev + Len(m.entries) <= Len(L) /\ (m.prev > 0 => m.prevTerm = L[m.prev])
    BY <2>5, <2>6, <2>7, <2>10
  <2>12. Segment(H, m)
    BY <2>4, <2>5, <2>6, <2>10, <2>11 DEF Segment
  <2> QED
    BY <1>12, <2>3, <2>12
<1>16. ASSUME NEW r \in Replicas, BecomeLeader(r) PROVE \E G : HistoryOk(G)'
  BY <1>1, <1>2, <1>16, HistoryElects
<1>17. ASSUME NEW h \in Callers, PushEntry(h) PROVE \E G : HistoryOk(G)'
  BY <1>1, <1>2, <1>17, HistoryAppends
<1>18. ASSUME NEW r \in Replicas, NEW m \in msgs, HandleAppendEntries(r, m) PROVE HistoryOk(H)'
  BY <1>1, <1>2, <1>18, HistoryFollows
<1> QED
  BY <1>5, <1>6, <1>7, <1>8, <1>9, <1>10, <1>11, <1>14, <1>15, <1>16, <1>17, <1>18,
     <1>19, <1>20, <1>21, <1>22 DEF ReplicaNext, VoteSteps, LogSteps

LEMMA HistoryMatches == VoteInv /\ HistoryInv => LogsMatch
<1> SUFFICES ASSUME VoteInv, HistoryInv, Undisturbed,
                    NEW r \in Replicas, NEW q \in Replicas,
                    NEW i \in 1 .. Min({Len(log[r]), Len(log[q])}), log[r][i] = log[q][i]
             PROVE  SubSeq(log[r], 1, i) = SubSeq(log[q], 1, i)
  BY DEF LogsMatch, Undisturbed
<1>1. PICK H : HistoryOk(H)
  BY DEF HistoryInv
<1>2. log[r] \in Seq(Nat) /\ log[q] \in Seq(Nat) /\ Fits(H, log[r]) /\ Fits(H, log[q])
  BY <1>1 DEF HistoryOk, VoteInv, ReplicaTypes
<1>3. {Len(log[r]), Len(log[q])} \in SUBSET Nat
  BY <1>2
<1>4. Min({Len(log[r]), Len(log[q])}) <= Len(log[r]) /\ Min({Len(log[r]), Len(log[q])}) <= Len(log[q])
      /\ Min({Len(log[r]), Len(log[q])}) \in Nat
  BY <1>3, MinNat
<1>5. i \in 1 .. Len(log[r]) /\ i \in 1 .. Len(log[q])
  BY <1>3, <1>4
<1>6. \A j \in 1 .. i : log[r][j] = log[q][j]
  <2>1. Fits(H, log[r]) /\ Fits(H, log[q])
    BY <1>2
  <2> QED
    BY <1>5, <2>1, FitsAgree
<1>7. i \in Int /\ \A j \in 1 .. i : log[r][j] \in Nat /\ log[q][j] \in Nat
  <2>1. i \in Int /\ \A j \in 1 .. i : j \in 1 .. Len(log[r]) /\ j \in 1 .. Len(log[q])
    BY <1>2, <1>5
  <2>2. \A L \in Seq(Nat) : \A j \in 1 .. Len(L) : L[j] \in Nat
    OBVIOUS
  <2> QED
    BY <1>2, <2>1, <2>2
<1> DEFINE s == SubSeq(log[r], 1, i)
           t == SubSeq(log[q], 1, i)
<1>8. /\ s \in Seq(Nat) /\ t \in Seq(Nat) /\ Len(s) = i /\ Len(t) = i
      /\ \A j \in 1 .. i : s[j] = log[r][j] /\ t[j] = log[q][j]
  <2>1. ASSUME NEW L, \A j \in 1 .. i : L[j] \in Nat
        PROVE  /\ SubSeq(L, 1, i) \in Seq(Nat) /\ Len(SubSeq(L, 1, i)) = i
               /\ \A j \in 1 .. i : SubSeq(L, 1, i)[j] = L[j]
    <3>1. /\ SubSeq(L, 1, i) \in Seq(Nat) /\ Len(SubSeq(L, 1, i)) = IF 1 <= i THEN i - 1 + 1 ELSE 0
          /\ \A j \in 1 .. i - 1 + 1 : SubSeq(L, 1, i)[j] = L[1 + j - 1]
      BY <1>7, <2>1, SubSeqProperties
    <3> QED
      BY <1>5, <3>1
  <2> QED
    BY <1>7, <2>1
<1> HIDE DEF s, t
<1>9. s \in Seq(Nat) /\ t \in Seq(Nat) /\ Len(s) = Len(t) /\ \A j \in 1 .. Len(s) : s[j] = t[j]
  BY <1>6, <1>8
<1>10. s = t
  BY <1>9, SeqEqual
<1> QED
  BY <1>10 DEF s, t

(* In every order of elections, appends, late responses and lost, repeated or
   reordered messages, for any number of replicas and of calls at a time: unless
   a late write of a response handler took back a replica's term or cleared the
   vote of its term, a replica votes once per term and a term has one leader;
   and unless besides a replica kept an entry its leader had another one for, or
   append_command pushed an entry of a term its replica was not leading, two
   logs with the same term at a place agree up to it.  The four races are what
   the code does not exclude; the theorem says that there is no fifth.     *)
THEOREM RaftIsSafe == ReplicaSpec => []RaftSafety
<1>1. ReplicaSpec => []VoteInv
  BY VotesStart, VotesKept, PTL DEF ReplicaSpec
<1>2. VoteInv => LeadersUnique
  BY LeadersAreUnique
<1>3. ReplicaSpec => []HistoryInv
  BY <1>1, <1>2, HistoryStarts, HistoryKept, PTL DEF ReplicaSpec
<1>4. VoteInv /\ LeadersUnique /\ HistoryInv => RaftSafety
  BY HistoryMatches DEF VoteInv, OneVote, LeadersUnique, OneVotePerTerm, RaftSafety, Wavering
<1> QED
  BY <1>1, <1>2, <1>3, <1>4, PTL

-------------------------------------------------------------------------------
(* The replica set: locks.  All methods but create_heartbeat take the locks
   they hold together in one order.                                        *)

Rank == [term |-> 1, voted |-> 2, state |-> 3, leader |-> 4, log |-> 5, heartbeat |-> 6, commit |-> 7,
         applied |-> 8, next |-> 9, match |-> 10]

LockSteps == {"read", "write", "free"} \X DOMAIN Rank

(* A lock that is taken comes after every lock still held. *)
Ordered(s) ==
    \A k \in 0 .. Len(s) - 1 : s[k + 1][1] # "free" =>
        \A i \in 1 .. k : (s[i][1] # "free" /\ \A j \in i .. k : s[j] # Free(s[i][2]))
                             => Rank[s[i][2]] < Rank[s[k + 1][2]]

OrderedMethods == Methods \ {"create_heartbeat"}

LEMMA MethodsOrdered ==
    ASSUME NEW m \in OrderedMethods
    PROVE  Ordered(Steps(m))
<1>1. Ordered(AppendCommandLocks)
  BY DEF Ordered, AppendCommandLocks, R, W, Free, Rank
<1>2. Ordered(RequestVoteLocks)
  BY DEF Ordered, RequestVoteLocks, R, W, Free, Rank
<1>3. Ordered(AppendEntriesLocks)
  BY DEF Ordered, AppendEntriesLocks, R, W, Free, Rank
<1>4. Ordered(ResponseLocks)
  BY DEF Ordered, ResponseLocks, R, W, Free, Rank
<1>5. Ordered(StartElectionLocks)
  BY DEF Ordered, StartElectionLocks, R, W, Free, Rank
<1>6. Ordered(BecomeLeaderLocks)
  BY DEF Ordered, BecomeLeaderLocks, R, W, Free, Rank
<1>7. Ordered(UnappliedLocks)
  BY DEF Ordered, UnappliedLocks, R, W, Free, Rank
<1> QED
  BY <1>1, <1>2, <1>3, <1>4, <1>5, <1>6, <1>7 DEF OrderedMethods, Methods, Steps

LEMMA StepsTyped ==
    ASSUME NEW m \in Methods \cup {"none"}
    PROVE  Steps(m) \in Seq(LockSteps) /\ (m = "none" => Len(Steps(m)) = 0)
<1> USE DEF R, W, Free, LockSteps, Rank
<1>1. AppendCommandLocks \in Seq(LockSteps)
  BY DEF AppendCommandLocks
<1>2. RequestVoteLocks \in Seq(LockSteps)
  BY DEF RequestVoteLocks
<1>3. AppendEntriesLocks \in Seq(LockSteps)
  BY DEF AppendEntriesLocks
<1>4. ResponseLocks \in Seq(LockSteps)
  BY DEF ResponseLocks
<1>5. StartElectionLocks \in Seq(LockSteps)
  BY DEF StartElectionLocks
<1>6. BecomeLeaderLocks \in Seq(LockSteps)
  BY DEF BecomeLeaderLocks
<1>7. UnappliedLocks \in Seq(LockSteps)
  BY DEF UnappliedLocks
<1>8. CreateHeartbeatLocks \in Seq(LockSteps)
  BY DEF CreateHeartbeatLocks
<1> HIDE DEF R, W, Free, LockSteps, Rank
<1>9. Steps("none") = <<>>
  BY DEF Steps
<1>10. CASE m = "none"
  <2>1. <<>> \in Seq(LockSteps) /\ Len(<<>>) = 0
    OBVIOUS
  <2> QED
    BY <1>9, <1>10, <2>1
<1>11. CASE m \in Methods
  <2>1. m # "none"
    BY <1>11 DEF Methods
  <2> QED
    BY <1>1, <1>2, <1>3, <1>4, <1>5, <1>6, <1>7, <1>8, <1>11, <2>1 DEF Methods, Steps
<1> QED
  BY <1>10, <1>11

(* A queued writer is about to take the lock it queues for. *)
LockInv ==
    /\ method \in [Threads -> Methods \cup {"none"}]
    /\ step \in [Threads -> Nat] /\ \A t \in Threads : step[t] <= Len(Steps(method[t]))
    /\ waiting \in SUBSET (Threads \X DOMAIN Rank)
    /\ \A w \in waiting : step[w[1]] < Len(Steps(method[w[1]])) /\ NextStep(w[1]) = W(w[2])

LEMMA LocksStart == LocksInit => LockInv
<1> SUFFICES ASSUME LocksInit PROVE LockInv
  OBVIOUS
<1>1. Len(Steps("none")) = 0
  BY StepsTyped
<1> QED
  BY <1>1 DEF LocksInit, LockInv

LEMMA LocksKept == LockInv /\ [LocksNext]_lockVars => LockInv'
<1> SUFFICES ASSUME LockInv, [LocksNext]_lockVars PROVE LockInv'
  OBVIOUS
<1>1. CASE UNCHANGED lockVars
  BY <1>1 DEF lockVars, LockInv, NextStep
<1>2. \A m \in Methods \cup {"none"} : Len(Steps(m)) \in Nat /\ Len(Steps("none")) = 0
  BY StepsTyped
<1>3. ASSUME NEW t \in Threads,
             method' = method, step' = [step EXCEPT ![t] = @ + 1], step[t] < Len(Steps(method[t])),
             waiting' = waiting \ {<<t, NextStep(t)[2]>>}
      PROVE  LockInv'
  <2>1. step[t] \in Nat /\ Len(Steps(method[t])) \in Nat
    BY <1>2 DEF LockInv
  <2>2. step'[t] = step[t] + 1 /\ \A u \in Threads \ {t} : step'[u] = step[u]
    BY <1>3 DEF LockInv
  <2>3. step' \in [Threads -> Nat] /\ \A u \in Threads : step'[u] <= Len(Steps(method[u]))
    <3>1. step' \in [Threads -> Nat]
      BY <1>3, <2>1 DEF LockInv
    <3> QED
      BY <1>3, <2>1, <2>2, <3>1 DEF LockInv
  <2>4. ASSUME NEW w \in waiting' PROVE w \in waiting /\ w[1] \in Threads \ {t}
    <3>1. w \in waiting /\ w[1] \in Threads /\ w = <<w[1], w[2]>> /\ NextStep(w[1]) = W(w[2])
      BY <1>3 DEF LockInv
    <3>2. W(w[2])[2] = w[2]
      BY DEF W
    <3> QED
      BY <1>3, <3>1, <3>2
  <2>5. \A w \in waiting' : step'[w[1]] < Len(Steps(method[w[1]])) /\ NextStep(w[1])' = W(w[2])
    BY <1>3, <2>2, <2>4 DEF LockInv, NextStep
  <2> QED
    BY <1>3, <2>3, <2>5 DEF LockInv
<1>4. ASSUME NEW t \in Threads, NEW m \in Methods \cup {"none"},
             method' = [method EXCEPT ![t] = m], step' = [step EXCEPT ![t] = 0],
             step[t] = Len(Steps(method[t])), waiting' = waiting
      PROVE  LockInv'
  <2>1. /\ step'[t] = 0 /\ method'[t] = m
        /\ \A u \in Threads \ {t} : step'[u] = step[u] /\ method'[u] = method[u]
    BY <1>4 DEF LockInv
  <2>2. step' \in [Threads -> Nat] /\ method' \in [Threads -> Methods \cup {"none"}]
    BY <1>4 DEF LockInv
  <2>3. \A u \in Threads : step'[u] <= Len(Steps(method'[u]))
    BY <1>2, <2>1 DEF LockInv
  <2>4. \A w \in waiting : w[1] \in Threads \ {t}
    BY <1>2, <1>4 DEF LockInv
  <2>5. \A w \in waiting : step'[w[1]] < Len(Steps(method'[w[1]])) /\ NextStep(w[1])' = W(w[2])
    BY <2>1, <2>4 DEF LockInv, NextStep
  <2> QED
    BY <1>4, <2>2, <2>3, <2>5 DEF LockInv
<1>5. ASSUME NEW t \in Threads, Queue(t) PROVE LockInv'
  <2>1. /\ method' = method /\ step' = step /\ step[t] < Len(Steps(method[t]))
        /\ NextStep(t)[1] = "write" /\ waiting' = waiting \cup {<<t, NextStep(t)[2]>>}
    BY <1>5 DEF Queue
  <2>2. Steps(method[t]) \in Seq(LockSteps) /\ step[t] \in Nat
    BY StepsTyped DEF LockInv
  <2>3. NextStep(t) \in LockSteps
    BY <2>1, <2>2 DEF NextStep
  <2>4. NextStep(t)[2] \in DOMAIN Rank /\ NextStep(t) = W(NextStep(t)[2])
    BY <2>1, <2>3 DEF LockSteps, W
  <2> DEFINE n == <<t, NextStep(t)[2]>>
  <2>5. n[1] = t /\ n[2] = NextStep(t)[2]
    OBVIOUS
  <2>6. waiting' \in SUBSET (Threads \X DOMAIN Rank)
    BY <2>1, <2>4 DEF LockInv
  <2>7. \A w \in waiting' : step[w[1]] < Len(Steps(method[w[1]])) /\ NextStep(w[1]) = W(w[2])
    <3> HIDE DEF n
    <3>1. waiting' = waiting \cup {n}
      BY <2>1 DEF n
    <3> QED
      BY <2>1, <2>4, <2>5, <3>1 DEF LockInv
  <2> QED
    BY <2>1, <2>6, <2>7 DEF LockInv, NextStep
<1>6. ASSUME NEW t \in Threads, Call(t) PROVE LockInv'
  <2>1. step[t] = Len(Steps(method[t]))
    BY <1>2, <1>6 DEF Call, LockInv
  <2> QED
    BY <1>4, <1>6, <2>1 DEF Call
<1>7. ASSUME NEW t \in Threads, Return(t) PROVE LockInv'
  BY <1>4, <1>7 DEF Return
<1>8. ASSUME NEW t \in Threads, TakeLock(t) PROVE LockInv'
  BY <1>3, <1>8 DEF TakeLock
<1> QED
  BY <1>1, <1>5, <1>6, <1>7, <1>8 DEF LocksNext

Wants(t, lock) ==
    step[t] < Len(Steps(method[t])) /\ NextStep(t)[1] # "free" /\ NextStep(t)[2] = lock

(* A thread in an ordered method wants a lock after all it holds. *)
LEMMA WantsLater ==
    ASSUME LockInv, NEW u \in Threads, method[u] # "create_heartbeat",
           NEW lock \in DOMAIN Rank, Holds(u, "read", lock) \/ Holds(u, "write", lock),
           NEW next \in DOMAIN Rank, Wants(u, next)
    PROVE  Rank[lock] < Rank[next]
<1> DEFINE s == Steps(method[u])
           k == step[u]
<1>1. s \in Seq(LockSteps) /\ k \in Nat /\ k < Len(s) /\ Len(s) \in Nat
  BY StepsTyped DEF LockInv, Wants
<1>2. method[u] \in OrderedMethods
  BY <1>1, StepsTyped DEF LockInv, OrderedMethods
<1>3. Ordered(s)
  BY <1>2, MethodsOrdered
<1>4. s[k + 1][1] # "free" /\ s[k + 1][2] = next
  BY DEF Wants, NextStep
<1> HIDE DEF s, k
<1>5. \A j \in 1 .. k : Done(u)[j] = s[j]
  <2>1. \A j \in 1 .. k : s[j] \in LockSteps
    BY <1>1
  <2>2. \A j \in 1 .. k - 1 + 1 : SubSeq(s, 1, k)[j] = s[1 + j - 1]
    BY <1>1, <2>1, SubSeqProperties
  <2>3. Done(u) = SubSeq(s, 1, k)
    BY DEF Done, s, k
  <2> QED
    BY <1>1, <2>2, <2>3
<1>6. PICK i \in 1 .. k : /\ Done(u)[i] \in {<<"read", lock>>, <<"write", lock>>}
                          /\ \A j \in i .. k : Done(u)[j] # Free(lock)
  BY DEF Holds, k
<1>7. s[i] \in {<<"read", lock>>, <<"write", lock>>} /\ \A j \in i .. k : s[j] # Free(lock)
  BY <1>1, <1>5, <1>6
<1>8. s[i][1] # "free" /\ s[i][2] = lock
  BY <1>7
<1>9. k \in 0 .. Len(s) - 1
  BY <1>1
<1> QED
  BY <1>3, <1>4, <1>7, <1>8, <1>9 DEF Ordered

(* A thread that is blocked wants a lock. *)
LEMMA BlockedWants ==
    ASSUME LockInv, NEW t \in Threads, BlockedBy(t) # {}
    PROVE  \E lock \in DOMAIN Rank : Wants(t, lock)
<1>1. Steps(method[t]) \in Seq(LockSteps) /\ step[t] \in Nat /\ Len(Steps(method[t])) \in Nat
      /\ step[t] <= Len(Steps(method[t]))
  BY StepsTyped DEF LockInv
<1>2. step[t] # Len(Steps(method[t])) /\ NextStep(t)[1] # "free"
  BY DEF BlockedBy
<1>3. step[t] < Len(Steps(method[t]))
  BY <1>1, <1>2
<1>4. NextStep(t) \in LockSteps
  BY <1>1, <1>3 DEF NextStep
<1>5. NextStep(t)[2] \in DOMAIN Rank
  BY <1>4 DEF LockSteps
<1> QED
  BY <1>2, <1>3, <1>5 DEF Wants

(* Of the threads that wait for each other, one that wants a lock is blocked
   through a holder of that lock: directly, or as a reader behind a writer
   that waits for the holder.                                              *)
LEMMA BlockedByHolder ==
    ASSUME LockInv, NEW S \in SUBSET Threads, \A t \in S : BlockedBy(t) \cap S # {},
           NEW t \in S, NEW lock \in DOMAIN Rank, Wants(t, lock)
    PROVE  \E u \in S : Holds(u, "read", lock) \/ Holds(u, "write", lock)
<1>1. ASSUME NEW v \in S, Wants(v, lock), NextStep(v)[1] = "write"
      PROVE  \E u \in S : Holds(u, "read", lock) \/ Holds(u, "write", lock)
  <2>1. BlockedBy(v) \cap S # {}
    OBVIOUS
  <2>2. BlockedBy(v) \subseteq Holders(v, lock)
    BY <1>1 DEF BlockedBy, Wants
  <2> QED
    BY <2>1, <2>2 DEF Holders
<1>2. CASE NextStep(t)[1] = "write"
  BY <1>1, <1>2
<1>3. CASE NextStep(t)[1] # "write"
  <2>1. PICK u \in S : u \in BlockedBy(t)
    OBVIOUS
  <2>2. Holds(u, "write", lock) \/ <<u, lock>> \in waiting
    BY <1>3, <2>1 DEF BlockedBy, Wants
  <2>3. ASSUME <<u, lock>> \in waiting PROVE Wants(u, lock) /\ NextStep(u)[1] = "write"
    <3> DEFINE w == <<u, lock>>
    <3>1. step[w[1]] < Len(Steps(method[w[1]])) /\ NextStep(w[1]) = W(w[2])
      BY <2>3 DEF LockInv
    <3> QED
      BY <3>1 DEF Wants, W
  <2> QED
    BY <1>1, <2>2, <2>3
<1> QED
  BY <1>2, <1>3

LEMMA LocksImply == LockInv => OnlyHeartbeatDeadlocks
<1> SUFFICES ASSUME LockInv, NEW S \in SUBSET Threads, S # {},
                    \A t \in S : BlockedBy(t) \cap S # {},
                    \A t \in S : method[t] # "create_heartbeat"
             PROVE  FALSE
  BY DEF OnlyHeartbeatDeadlocks
<1> DEFINE Awaited == {lock \in DOMAIN Rank : \E t \in S : Wants(t, lock)}
           Ranks == {Rank[lock] : lock \in Awaited}
<1>1. \A t \in S : \E lock \in DOMAIN Rank : Wants(t, lock)
  <2> SUFFICES ASSUME NEW t \in S PROVE \E lock \in DOMAIN Rank : Wants(t, lock)
    OBVIOUS
  <2>1. t \in Threads /\ BlockedBy(t) # {}
    OBVIOUS
  <2> QED
    BY <2>1, BlockedWants
<1>2. \A lock \in DOMAIN Rank : Rank[lock] \in 0 .. 10
  BY DEF Rank
<1>3. Ranks \in SUBSET (0 .. 10) /\ Ranks # {}
  BY <1>1, <1>2
<1>4. Max(Ranks) \in Ranks /\ \A y \in Ranks : y <= Max(Ranks)
  <2> HIDE DEF Ranks
  <2>1. 10 \in Nat
    OBVIOUS
  <2> QED
    BY <1>3, <2>1, MaxNat
<1>5. PICK top \in Awaited : \A lock \in Awaited : Rank[lock] <= Rank[top]
  BY <1>4
<1>6. PICK t \in S : Wants(t, top)
  BY <1>5
<1>7. PICK u \in S : Holds(u, "read", top) \/ Holds(u, "write", top)
  BY <1>5, <1>6, BlockedByHolder
<1>8. PICK next \in DOMAIN Rank : Wants(u, next)
  BY <1>1
<1>9. Rank[top] < Rank[next]
  BY <1>5, <1>7, <1>8, WantsLater
<1>10. Rank[next] <= Rank[top]
  BY <1>5, <1>8
<1>11. Rank[top] \in Int /\ Rank[next] \in Int
  BY <1>2, <1>5, <1>8
<1> QED
  BY <1>9, <1>10, <1>11

(* For any number of threads in any methods: a deadlock always has a thread in
   create_heartbeat.  Of the others, the one that wants the last lock in the
   order waits for a holder that wants a later one.                        *)
THEOREM OtherMethodsDoNotDeadlock == LocksSpec => []OnlyHeartbeatDeadlocks
<1>1. LocksSpec => []LockInv
  BY LocksStart, LocksKept, PTL DEF LocksSpec
<1> QED
  BY <1>1, LocksImply, PTL

-------------------------------------------------------------------------------
(* The bucket.  A transfer is judged by the two sides as it finds them: as long
   as nobody else has touched them (calm), what it still has to move is all
   that keeps them apart.  For every site this is a statement about the call,
   the site's copies and the bucket's, so a step either leaves the three alone
   or ends the calm, and only the site's own steps need an argument.       *)

WalkCall(b, r) == [op |-> "sync", pc |-> "walk", calm |-> b, remote |-> r]
MoveCall(p, b, l, r, t) ==
    [op |-> "sync", pc |-> p, calm |-> b, local |-> l, remote |-> r, todo |-> t]
PushCall(b, t) == [op |-> "push", pc |-> "upload", calm |-> b, todo |-> t]
FetchCall(b, t) == [op |-> "fetch", pc |-> "download", calm |-> b, todo |-> t]

(* What a sync of the listings l and r uploads. *)
Uploads(l, r, readonly) == IF readonly THEN {} ELSE Newer(l, r)

Timed(l) == \A f \in DOMAIN l : l[f] \in Nat

(* Both sides hold the same contents of f. *)
Alike(here, there, f) ==
    f \in DOMAIN here /\ f \in DOMAIN there /\ here[f].ver = there[f].ver

Uploading(l, r, t, here, there, readonly) ==
    LET ups == Uploads(l, r, readonly) IN
    /\ Timed(l) /\ Timed(r)
    /\ DOMAIN l = DOMAIN here \cap DbFiles
    /\ t \subseteq ups /\ DOMAIN there = DOMAIN r \cup (ups \ t)
    /\ \A f \in ups \ t : Alike(here, there, f)

Downloading(l, r, t, here, there, readonly) ==
    LET ups == Uploads(l, r, readonly) IN
    /\ Timed(l) /\ Timed(r)
    /\ DOMAIN there = DOMAIN r \cup ups /\ t \subseteq Newer(r, l)
    /\ \A f \in ups \cup (Newer(r, l) \ t) : Alike(here, there, f)
    /\ DOMAIN here \cap DbFiles \subseteq DOMAIN l \cup Newer(r, l)

Fetching(t, here, there) ==
    t \subseteq DOMAIN there /\ \A f \in DOMAIN there \ t : Alike(here, there, f)

SiteOk(c, here, there, readonly) ==
    \/ c = NoTransfer
    \/ \E b \in BOOLEAN : \E r :
          /\ c = WalkCall(b, r) /\ DOMAIN r \subseteq DOMAIN there
          /\ b => r = Times(there)
    \/ \E b \in BOOLEAN : \E l, r, t :
          /\ c = MoveCall("upload", b, l, r, t)
          /\ DOMAIN r \subseteq DOMAIN there /\ t \subseteq DbFiles
          /\ b => Uploading(l, r, t, here, there, readonly)
    \/ \E b \in BOOLEAN : \E l, r, t :
          /\ c = MoveCall("download", b, l, r, t) /\ t \subseteq DOMAIN there
          /\ b => Downloading(l, r, t, here, there, readonly)
    \/ \E b \in BOOLEAN : \E t : c = PushCall(b, t) /\ t \subseteq DbFiles
    \/ \E b \in BOOLEAN : \E t :
          /\ c = FetchCall(b, t) /\ t \subseteq DOMAIN there
          /\ b => Fetching(t, here, there)

(* Copies have times, and a payload object in a directory came from the
   bucket, which loses none.                                               *)
CopiesOk ==
    /\ clock \in Nat
    /\ DOMAIN objects \subseteq DbFiles \cup Objects
    /\ \A f \in DOMAIN objects : objects[f].at \in Nat
    /\ files = [s \in Sites |-> files[s]] /\ transfer = [s \in Sites |-> transfer[s]]
    /\ \A s \in Sites :
          /\ DOMAIN files[s] \subseteq DbFiles \cup DOMAIN objects
          /\ \A f \in DOMAIN files[s] : files[s][f].at \in Nat

SyncInv ==
    /\ CopiesOk
    /\ \A s \in Sites : SiteOk(transfer[s], files[s], objects, s \in ReadonlySites)

LEMMA WrittenFacts ==
    ASSUME NEW m, NEW f, NEW v, NEW t
    PROVE  LET w == Written(m, f, Copy(v, t)) IN
           /\ DOMAIN w = DOMAIN m \cup {f}
           /\ w[f].ver = v /\ w[f].at = t
           /\ \A x \in DOMAIN m : x # f => w[x] = m[x]
BY DEF Written, Copy

(* Times are naturals where the copies' are. *)
LEMMA TimesFacts ==
    ASSUME NEW m, \A f \in DOMAIN m : m[f].at \in Nat
    PROVE  Timed(Times(m)) /\ DOMAIN Times(m) = DOMAIN m
BY DEF Timed, Times

(* The fields of the calls, and what a call is once its calm has ended. *)
LEMMA WalkShape ==
    ASSUME NEW b, NEW r, NEW v
    PROVE  /\ WalkCall(b, r).op = "sync"
           /\ WalkCall(b, r).pc = "walk"
           /\ WalkCall(b, r).calm = b
           /\ WalkCall(b, r).remote = r
           /\ [WalkCall(b, r) EXCEPT !.calm = v] = WalkCall(v, r)
BY DEF WalkCall

(* The same for the other calls. *)
LEMMA MoveShape ==
    ASSUME NEW p, NEW b, NEW l, NEW r, NEW t, NEW v
    PROVE  /\ MoveCall(p, b, l, r, t).op = "sync"
           /\ MoveCall(p, b, l, r, t).pc = p
           /\ MoveCall(p, b, l, r, t).calm = b
           /\ MoveCall(p, b, l, r, t).local = l
           /\ MoveCall(p, b, l, r, t).remote = r
           /\ MoveCall(p, b, l, r, t).todo = t
           /\ [MoveCall(p, b, l, r, t) EXCEPT !.calm = v] = MoveCall(p, v, l, r, t)
BY DEF MoveCall

LEMMA PushShape ==
    ASSUME NEW b, NEW t, NEW v
    PROVE  /\ PushCall(b, t).op = "push"
           /\ PushCall(b, t).pc = "upload"
           /\ PushCall(b, t).calm = b
           /\ PushCall(b, t).todo = t
           /\ [PushCall(b, t) EXCEPT !.calm = v] = PushCall(v, t)
BY DEF PushCall

LEMMA FetchShape ==
    ASSUME NEW b, NEW t, NEW v
    PROVE  /\ FetchCall(b, t).op = "fetch"
           /\ FetchCall(b, t).pc = "download"
           /\ FetchCall(b, t).calm = b
           /\ FetchCall(b, t).todo = t
           /\ [FetchCall(b, t) EXCEPT !.calm = v] = FetchCall(v, t)
BY DEF FetchCall

(* A call that is no longer calm stays one of the calls. *)
LEMMA Disturbed ==
    ASSUME NEW c, NEW here, NEW there, NEW ro, SiteOk(c, here, there, ro),
           c.op # "none", NEW here2, NEW there2, DOMAIN there \subseteq DOMAIN there2
    PROVE  SiteOk([c EXCEPT !.calm = FALSE], here2, there2, ro)
<1> DEFINE v == FALSE
           d == [c EXCEPT !.calm = v]
<1>0. c # NoTransfer /\ v \in BOOLEAN /\ ~v
  BY DEF NoTransfer
<1> HIDE DEF v
<1>1. ASSUME NEW b, NEW r, c = WalkCall(b, r) PROVE d = WalkCall(v, r)
  BY <1>1, WalkShape
<1>2. ASSUME NEW p, NEW b, NEW l, NEW r, NEW t, c = MoveCall(p, b, l, r, t)
      PROVE  d = MoveCall(p, v, l, r, t)
  BY <1>2, MoveShape
<1>3. ASSUME NEW b, NEW t, c = PushCall(b, t) PROVE d = PushCall(v, t)
  BY <1>3, PushShape
<1>4. ASSUME NEW b, NEW t, c = FetchCall(b, t) PROVE d = FetchCall(v, t)
  BY <1>4, FetchShape
<1> HIDE DEF d
<1>5. ASSUME NEW b, NEW r, c = WalkCall(b, r), DOMAIN r \subseteq DOMAIN there
      PROVE  SiteOk(d, here2, there2, ro)
  <2>1. DOMAIN r \subseteq DOMAIN there2
    BY <1>5
  <2> QED
    BY <1>0, <1>1, <1>5, <2>1 DEF SiteOk
<1>6. ASSUME NEW b, NEW l, NEW r, NEW t, c = MoveCall("upload", b, l, r, t),
             DOMAIN r \subseteq DOMAIN there, t \subseteq DbFiles
      PROVE  SiteOk(d, here2, there2, ro)
  <2>1. DOMAIN r \subseteq DOMAIN there2
    BY <1>6
  <2> QED
    BY <1>0, <1>2, <1>6, <2>1 DEF SiteOk
<1>7. ASSUME NEW b, NEW l, NEW r, NEW t, c = MoveCall("download", b, l, r, t),
             t \subseteq DOMAIN there
      PROVE  SiteOk(d, here2, there2, ro)
  <2>1. t \subseteq DOMAIN there2
    BY <1>7
  <2> QED
    BY <1>0, <1>2, <1>7, <2>1 DEF SiteOk
<1>8. ASSUME NEW b, NEW t, c = PushCall(b, t), t \subseteq DbFiles
      PROVE  SiteOk(d, here2, there2, ro)
  BY <1>0, <1>3, <1>8 DEF SiteOk
<1>9. ASSUME NEW b, NEW t, c = FetchCall(b, t), t \subseteq DOMAIN there
      PROVE  SiteOk(d, here2, there2, ro)
  <2>1. t \subseteq DOMAIN there2
    BY <1>9
  <2> QED
    BY <1>0, <1>4, <1>9, <2>1 DEF SiteOk
<1>10. SiteOk(d, here2, there2, ro)
  BY <1>0, <1>5, <1>6, <1>7, <1>8, <1>9 DEF SiteOk
<1> QED
  BY <1>10 DEF d, v

(* The sides of a site whose call is over say nothing. *)
LEMMA NoCallOk == \A here, there, ro : SiteOk(NoTransfer, here, there, ro)
BY DEF SiteOk

LEMMA SyncStart == SyncInit => SyncInv
<1> SUFFICES ASSUME SyncInit PROVE SyncInv
  OBVIOUS
<1>1. \A s \in Sites : DOMAIN files[s] = {ConfigFile} /\ files[s][ConfigFile].at = 0
  BY DEF SyncInit, Copy
<1>2. CopiesOk
  BY <1>1, SyncConstants DEF SyncInit, CopiesOk
<1> QED
  BY <1>2, NoCallOk DEF SyncInit, SyncInv

(* After a write by s to the bucket, the calls of the other sites. *)
LEMMA OthersOk ==
    ASSUME SyncInv, NEW others \in SUBSET Sites, NEW s \in Sites, NEW there,
           DOMAIN objects \subseteq DOMAIN there
    PROVE  /\ OthersDisturbed(others) = [x \in Sites |-> OthersDisturbed(others)[x]]
           /\ s \notin others => OthersDisturbed(others)[s] = transfer[s]
           /\ s \in others =>
                \A here : SiteOk(OthersDisturbed(others)[s], here, there, s \in ReadonlySites)
<1>1. OthersDisturbed(others)[s] =
          IF s \in others /\ transfer[s].op # "none"
          THEN [transfer[s] EXCEPT !.calm = FALSE] ELSE transfer[s]
  BY DEF OthersDisturbed
<1>2. SiteOk(transfer[s], files[s], objects, s \in ReadonlySites)
  BY DEF SyncInv
<1>3. transfer[s].op = "none" => transfer[s] = NoTransfer
  BY <1>2, WalkShape, MoveShape, PushShape, FetchShape DEF SiteOk
<1>4. OthersDisturbed(others) = [x \in Sites |-> OthersDisturbed(others)[x]]
  BY DEF OthersDisturbed
<1> QED
  BY <1>1, <1>2, <1>3, <1>4, Disturbed, NoCallOk

(* A step of the site's own that changes neither side. *)
LEMMA OwnStep ==
    ASSUME SyncInv, NEW s \in Sites, NEW c, transfer' = [transfer EXCEPT ![s] = c],
           UNCHANGED <<files, objects, clock>>,
           SiteOk(c, files[s], objects, s \in ReadonlySites)
    PROVE  SyncInv'
<1>1. transfer' = [x \in Sites |-> IF x = s THEN c ELSE transfer[x]]
  BY DEF SyncInv, CopiesOk
<1>2. CopiesOk'
  BY <1>1 DEF SyncInv, CopiesOk
<1>3. ASSUME NEW x \in Sites
      PROVE  SiteOk(transfer'[x], files'[x], objects', x \in ReadonlySites)
  BY <1>1 DEF SyncInv
<1> QED
  BY <1>2, <1>3 DEF SyncInv

(* A step that puts an object: every other site is disturbed. *)
LEMMA PutStep ==
    ASSUME SyncInv, NEW s \in Sites, NEW c, NEW f \in DbFiles \cup Objects, NEW v,
           transfer' = [OthersDisturbed(Sites \ {s}) EXCEPT ![s] = c],
           objects' = Written(objects, f, Copy(v, clock)), UNCHANGED <<files, clock>>,
           SiteOk(c, files[s], objects', s \in ReadonlySites)
    PROVE  SyncInv'
<1> DEFINE others == OthersDisturbed(Sites \ {s})
<1>0. DOMAIN objects \subseteq DOMAIN objects'
  BY DEF Written
<1>1. others = [x \in Sites |-> others[x]]
  BY <1>0, OthersOk
<1>2. \A x \in Sites : x # s => SiteOk(others[x], files[x], objects', x \in ReadonlySites)
  BY <1>0, OthersOk
<1> HIDE DEF others
<1>3. transfer' = [x \in Sites |-> IF x = s THEN c ELSE others[x]]
  BY <1>1 DEF others
<1>4. /\ DOMAIN objects' = DOMAIN objects \cup {f} /\ objects'[f].at = clock
      /\ \A x \in DOMAIN objects : x # f => objects'[x] = objects[x]
  BY DEF Written, Copy
<1>5. CopiesOk'
  <2>1. clock' \in Nat /\ DOMAIN objects' \subseteq DbFiles \cup Objects
    BY <1>4 DEF SyncInv, CopiesOk
  <2>2. \A x \in DOMAIN objects' : objects'[x].at \in Nat
    BY <1>4 DEF SyncInv, CopiesOk
  <2>3. \A x \in Sites : /\ DOMAIN files'[x] \subseteq DbFiles \cup DOMAIN objects'
                         /\ \A g \in DOMAIN files'[x] : files'[x][g].at \in Nat
    BY <1>4 DEF SyncInv, CopiesOk
  <2>4. files' = [x \in Sites |-> files'[x]] /\ transfer' = [x \in Sites |-> transfer'[x]]
    BY <1>3 DEF SyncInv, CopiesOk
  <2> QED
    BY <2>1, <2>2, <2>3, <2>4 DEF CopiesOk
<1>6. ASSUME NEW x \in Sites
      PROVE  SiteOk(transfer'[x], files'[x], objects', x \in ReadonlySites)
  BY <1>2, <1>3
<1> QED
  BY <1>5, <1>6 DEF SyncInv

(* A step that writes a file of the site. *)
LEMMA SaveStep ==
    ASSUME SyncInv, NEW s \in Sites, NEW c, NEW v,
           NEW f \in DbFiles \cup DOMAIN objects, NEW w, w = Written(files[s], f, Copy(v, clock)),
           transfer' = [transfer EXCEPT ![s] = c],
           files' = [files EXCEPT ![s] = w], UNCHANGED <<objects, clock>>,
           SiteOk(c, w, objects, s \in ReadonlySites)
    PROVE  SyncInv'
<1>1. /\ transfer' = [x \in Sites |-> IF x = s THEN c ELSE transfer[x]]
      /\ files' = [x \in Sites |-> IF x = s THEN w ELSE files[x]]
  BY DEF SyncInv, CopiesOk
<1>2. /\ DOMAIN w = DOMAIN files[s] \cup {f} /\ w[f].at = clock
      /\ \A x \in DOMAIN files[s] : x # f => w[x] = files[s][x]
  BY DEF Written, Copy
<1>3. CopiesOk'
  <2>1. \A x \in Sites : /\ DOMAIN files'[x] \subseteq DbFiles \cup DOMAIN objects'
                         /\ \A g \in DOMAIN files'[x] : files'[x][g].at \in Nat
    BY <1>1, <1>2 DEF SyncInv, CopiesOk
  <2>2. files' = [x \in Sites |-> files'[x]] /\ transfer' = [x \in Sites |-> transfer'[x]]
    BY <1>1
  <2> QED
    BY <2>1, <2>2 DEF SyncInv, CopiesOk
<1>4. ASSUME NEW x \in Sites
      PROVE  SiteOk(transfer'[x], files'[x], objects', x \in ReadonlySites)
  BY <1>1 DEF SyncInv
<1> QED
  BY <1>3, <1>4 DEF SyncInv

(* The listings start a call that is calm. *)
LEMMA ListSteps ==
    ASSUME SyncInv, NEW s \in Sites, ListRemote(s) \/ ListAll(s)
    PROVE  SyncInv'
<1>1. CASE ListRemote(s)
  <2> DEFINE c == WalkCall(TRUE, Times(objects))
  <2>1. transfer' = [transfer EXCEPT ![s] = c]
    BY <1>1, Zenon DEF ListRemote, WalkCall
  <2>2. DOMAIN Times(objects) \subseteq DOMAIN objects
    BY DEF Times
  <2>3. SiteOk(c, files[s], objects, s \in ReadonlySites)
    BY <2>2, Zenon DEF SiteOk
  <2> HIDE DEF c
  <2> QED
    BY <1>1, <2>1, <2>3, OwnStep DEF ListRemote
<1>2. CASE ListAll(s)
  <2> DEFINE c == FetchCall(TRUE, DOMAIN objects)
  <2>1. transfer' = [transfer EXCEPT ![s] = c]
    BY <1>2, Zenon DEF ListAll, FetchCall
  <2>2. Fetching(DOMAIN objects, files[s], objects) /\ DOMAIN objects \subseteq DOMAIN objects
    BY DEF Fetching
  <2>3. SiteOk(c, files[s], objects, s \in ReadonlySites)
    BY <2>2, Zenon DEF SiteOk
  <2> HIDE DEF c
  <2> QED
    BY <1>2, <2>1, <2>3, OwnStep DEF ListAll
<1> QED
  BY <1>1, <1>2

(* The local listing decides what is uploaded. *)
LEMMA LocalStep ==
    ASSUME SyncInv, NEW s \in Sites, ListLocal(s)
    PROVE  SyncInv'
<1> DEFINE ro == s \in ReadonlySites
           here == files[s]
           listed == [f \in DOMAIN here \cap DbFiles |-> here[f]]
           l == Times(listed)
<1>1. PICK b, r : /\ b \in BOOLEAN /\ transfer[s] = WalkCall(b, r)
                  /\ DOMAIN r \subseteq DOMAIN objects /\ (b => r = Times(objects))
  BY WalkShape, MoveShape, PushShape, FetchShape DEF SyncInv, SiteOk, ListLocal, NoTransfer
<1>2. transfer[s].calm = b /\ transfer[s].remote = r
  BY <1>1, WalkShape
<1> DEFINE t == Uploads(l, r, ro)
           c == MoveCall("upload", b, l, r, t)
<1>3. transfer' = [transfer EXCEPT ![s] = c] /\ UNCHANGED <<files, objects, clock>>
  BY <1>2 DEF ListLocal, MoveCall, Uploads
<1>4. Timed(l) /\ DOMAIN l = DOMAIN here \cap DbFiles
  <2>1. \A f \in DOMAIN listed : listed[f].at \in Nat
    BY DEF SyncInv, CopiesOk
  <2>2. DOMAIN listed = DOMAIN here \cap DbFiles
    OBVIOUS
  <2> HIDE DEF listed
  <2> QED
    BY <2>1, <2>2, TimesFacts
<1>5. b => Timed(r) /\ DOMAIN r = DOMAIN objects
  BY <1>1, TimesFacts DEF SyncInv, CopiesOk
<1> HIDE DEF l, t
<1>6. b => Uploading(l, r, t, here, objects, ro)
  BY <1>4, <1>5 DEF Uploading, t
<1>a. t \subseteq DbFiles
  BY <1>4 DEF t, Uploads, Newer
<1>7. SiteOk(c, here, objects, ro)
  BY <1>1, <1>6, <1>a DEF SiteOk
<1> HIDE DEF c, ro, here
<1> QED
  BY <1>3, <1>7, OwnStep DEF ro, here

(* When nothing is left to upload, the two sides differ by what is to be
   downloaded, by ties and by what a read-only site keeps to itself.       *)
LEMMA TurnStep ==
    ASSUME SyncInv, NEW s \in Sites, UploadsDone(s)
    PROVE  SyncInv'
<1> DEFINE ro == s \in ReadonlySites
           here == files[s]
<1>1. PICK b, l, r, t :
         /\ b \in BOOLEAN /\ transfer[s] = MoveCall("upload", b, l, r, t)
         /\ DOMAIN r \subseteq DOMAIN objects
         /\ b => Uploading(l, r, t, here, objects, ro)
  BY WalkShape, MoveShape, PushShape, FetchShape DEF SyncInv, SiteOk, UploadsDone, NoTransfer
<1>2. t = {} /\ transfer[s].remote = r /\ transfer[s].local = l
  BY <1>1, MoveShape DEF UploadsDone
<1> DEFINE n == Newer(r, l)
           c == MoveCall("download", b, l, r, n)
<1>3. transfer' = [transfer EXCEPT ![s] = [transfer[s] EXCEPT !.pc = "download", !.todo = n]]
  BY <1>2 DEF UploadsDone
<1> HIDE DEF n
<1>4. [transfer[s] EXCEPT !.pc = "download", !.todo = n] = c
  <2> DEFINE d == [transfer[s] EXCEPT !.pc = "download"]
  <2>1. d = MoveCall("download", b, l, r, t)
    BY <1>1 DEF MoveCall
  <2>2. [transfer[s] EXCEPT !.pc = "download", !.todo = n] = [d EXCEPT !.todo = n]
    OBVIOUS
  <2> HIDE DEF d
  <2> QED
    BY <2>1, <2>2 DEF MoveCall
<1>5. b => Downloading(l, r, n, here, objects, ro)
  BY <1>1, <1>2 DEF Uploading, Downloading, Uploads, n
<1>a. n \subseteq DOMAIN objects
  BY <1>1 DEF n, Newer
<1>6. SiteOk(c, here, objects, ro)
  BY <1>1, <1>5, <1>a DEF SiteOk
<1> HIDE DEF c, ro, here
<1> QED
  BY <1>3, <1>4, <1>6, OwnStep DEF ro, here, UploadsDone

(* A call that ends, well or not. *)
LEMMA EndStep ==
    ASSUME SyncInv, NEW s \in Sites, Returns(s) \/ RequestFails(s) \/ PushEnd(s)
    PROVE  SyncInv'
<1>1. CASE Returns(s) \/ RequestFails(s)
  BY <1>1, NoCallOk, OwnStep DEF Returns, RequestFails
<1>2. CASE PushEnd(s)
  <2> DEFINE w == Written(files[s], ConfigFile, Copy(edits + 1, clock))
  <2>1. /\ files' = [files EXCEPT ![s] = w] /\ UNCHANGED <<objects, clock>>
        /\ transfer' = [transfer EXCEPT ![s] = NoTransfer]
        /\ ConfigFile \in DbFiles \cup DOMAIN objects
    BY <1>2, SyncConstants DEF PushEnd
  <2>2. SiteOk(NoTransfer, w, objects, s \in ReadonlySites)
    BY NoCallOk
  <2> QED
    BY <2>1, <2>2, SaveStep
<1> QED
  BY <1>1, <1>2

(* An upload: f is alike on both sides after it. *)
LEMMA UploadStep ==
    ASSUME SyncInv, NEW s \in Sites, UploadOne(s)
    PROVE  SyncInv'
<1> DEFINE ro == s \in ReadonlySites
           here == files[s]
<1>1. PICK f : f \in transfer[s].todo /\ PutObject(s, f, here[f].ver)
  BY DEF UploadOne
<1> DEFINE d == [transfer[s] EXCEPT !.todo = @ \ {f}]
           v == here[f].ver
<1>2. OthersDisturbed(Sites \ {s})[s] = transfer[s] /\ s \in DOMAIN OthersDisturbed(Sites \ {s})
  BY OthersOk
<1>3. /\ transfer' = [OthersDisturbed(Sites \ {s}) EXCEPT ![s] = d]
      /\ objects' = Written(objects, f, Copy(v, clock)) /\ UNCHANGED <<files, clock>>
  BY <1>1, <1>2 DEF PutObject
<1>4. /\ DOMAIN objects' = DOMAIN objects \cup {f} /\ objects'[f].ver = v
      /\ \A x \in DOMAIN objects : x # f => objects'[x] = objects[x]
  BY <1>3 DEF Written, Copy
<1> HIDE DEF v
<1>5. ASSUME NEW b, NEW l, NEW r, NEW t, b \in BOOLEAN,
             transfer[s] = MoveCall("upload", b, l, r, t),
             DOMAIN r \subseteq DOMAIN objects, t \subseteq DbFiles,
             b => Uploading(l, r, t, here, objects, ro)
      PROVE  SiteOk(d, here, objects', ro)
  <2>1. d = MoveCall("upload", b, l, r, t \ {f})
    BY <1>5 DEF MoveCall
  <2>2. f \in t
    BY <1>1, <1>5, MoveShape
  <2> HIDE DEF d
  <2>3. ASSUME b PROVE Uploading(l, r, t \ {f}, here, objects', ro)
    <3> DEFINE ups == Uploads(l, r, ro)
    <3>1. /\ Timed(l) /\ Timed(r) /\ DOMAIN l = DOMAIN here \cap DbFiles
          /\ t \subseteq ups /\ DOMAIN objects = DOMAIN r \cup (ups \ t)
          /\ \A g \in ups \ t : Alike(here, objects, g)
      BY <1>5, <2>3 DEF Uploading
    <3>2. ups \subseteq DOMAIN l
      BY DEF Uploads, Newer
    <3> HIDE DEF ups
    <3>3. DOMAIN objects' = DOMAIN r \cup (ups \ (t \ {f}))
      BY <1>4, <2>2, <3>1
    <3>4. ASSUME NEW g \in ups \ (t \ {f}) PROVE Alike(here, objects', g)
      <4>1. CASE g = f
        BY <1>4, <3>1, <3>2, <4>1 DEF Alike, v
      <4>2. CASE g # f
        BY <1>4, <3>1, <3>4, <4>2 DEF Alike
      <4> QED
        BY <4>1, <4>2
    <3> QED
      BY <3>1, <3>3, <3>4 DEF Uploading, ups
  <2>4. DOMAIN r \subseteq DOMAIN objects' /\ t \ {f} \subseteq DbFiles
    BY <1>4, <1>5
  <2> QED
    BY <1>5, <2>1, <2>3, <2>4 DEF SiteOk
<1>6. ASSUME NEW b, NEW t, b \in BOOLEAN, transfer[s] = PushCall(b, t), t \subseteq DbFiles
      PROVE  SiteOk(d, here, objects', ro)
  <2>1. d = PushCall(b, t \ {f})
    BY <1>6 DEF PushCall
  <2> HIDE DEF d
  <2>2. t \ {f} \subseteq DbFiles
    BY <1>6
  <2> QED
    BY <1>6, <2>1, <2>2 DEF SiteOk
<1>7. SiteOk(transfer[s], here, objects, ro)
  BY DEF SyncInv
<1>8. \/ \E b, l, r, t : /\ b \in BOOLEAN /\ transfer[s] = MoveCall("upload", b, l, r, t)
                         /\ DOMAIN r \subseteq DOMAIN objects /\ t \subseteq DbFiles
                         /\ b => Uploading(l, r, t, here, objects, ro)
      \/ \E b, t : b \in BOOLEAN /\ transfer[s] = PushCall(b, t) /\ t \subseteq DbFiles
  BY <1>7, WalkShape, MoveShape, PushShape, FetchShape DEF SiteOk, UploadOne, NoTransfer
<1>9. f \in DbFiles \cup Objects
  BY <1>1, <1>8, MoveShape, PushShape
<1> HIDE DEF d
<1>10. SiteOk(d, here, objects', ro)
  BY <1>5, <1>6, <1>8
<1> QED
  BY <1>3, <1>9, <1>10, PutStep

(* The config object of a push. *)
LEMMA ConfigStep ==
    ASSUME SyncInv, NEW s \in Sites, PushConfig(s)
    PROVE  SyncInv'
<1> DEFINE c == PushCall(TRUE, DOMAIN files[s] \cap DbFiles)
           v == files[s][ConfigFile].ver
<1>1. transfer' = [OthersDisturbed(Sites \ {s}) EXCEPT ![s] = c]
  BY Zenon DEF PushConfig, PushCall
<1>2. objects' = Written(objects, ConfigFile, Copy(v, clock)) /\ UNCHANGED <<files, clock>>
  BY DEF PushConfig
<1>3. DOMAIN files[s] \cap DbFiles \subseteq DbFiles
  OBVIOUS
<1>4. SiteOk(c, files[s], objects', s \in ReadonlySites)
  BY <1>3, Zenon DEF SiteOk
<1>5. ConfigFile \in DbFiles \cup Objects
  BY SyncConstants
<1> HIDE DEF c, v
<1> QED
  BY <1>1, <1>2, <1>4, <1>5, PutStep

(* A download: f is alike on both sides after it. *)
LEMMA DownloadStep ==
    ASSUME SyncInv, NEW s \in Sites, DownloadOne(s)
    PROVE  SyncInv'
<1> DEFINE ro == s \in ReadonlySites
           here == files[s]
<1>1. PICK f : /\ f \in transfer[s].todo
               /\ files' = [files EXCEPT ![s] = Written(@, f, Copy(objects[f].ver, clock))]
               /\ transfer' = [transfer EXCEPT ![s].todo = @ \ {f}]
  BY DEF DownloadOne
<1> DEFINE d == [transfer[s] EXCEPT !.todo = @ \ {f}]
           v == objects[f].ver
           w == Written(here, f, Copy(v, clock))
<1>2. /\ transfer' = [transfer EXCEPT ![s] = d] /\ files' = [files EXCEPT ![s] = w]
      /\ UNCHANGED <<objects, clock>>
  BY <1>1 DEF DownloadOne, SyncInv, CopiesOk
<1>3. /\ DOMAIN w = DOMAIN here \cup {f} /\ w[f].ver = v
      /\ \A x \in DOMAIN here : x # f => w[x] = here[x]
  BY DEF Written, Copy
<1> HIDE DEF w
<1>a. ASSUME NEW g, g = f \/ Alike(here, objects, g), f \in DOMAIN objects
      PROVE  Alike(w, objects, g)
  BY <1>3, <1>a DEF Alike
<1>4. ASSUME NEW b, NEW l, NEW r, NEW t, b \in BOOLEAN,
             transfer[s] = MoveCall("download", b, l, r, t), t \subseteq DOMAIN objects,
             b => Downloading(l, r, t, here, objects, ro)
      PROVE  SiteOk(d, w, objects, ro)
  <2>1. d = MoveCall("download", b, l, r, t \ {f})
    BY <1>4 DEF MoveCall
  <2>2. f \in t /\ f \in DOMAIN objects
    BY <1>1, <1>4, MoveShape
  <2> HIDE DEF d
  <2>3. ASSUME b PROVE Downloading(l, r, t \ {f}, w, objects, ro)
    <3> DEFINE ups == Uploads(l, r, ro)
               n == Newer(r, l)
    <3>1. /\ Timed(l) /\ Timed(r) /\ DOMAIN objects = DOMAIN r \cup ups /\ t \subseteq n
          /\ \A g \in ups \cup (n \ t) : Alike(here, objects, g)
          /\ DOMAIN here \cap DbFiles \subseteq DOMAIN l \cup n
      BY <1>4, <2>3 DEF Downloading
    <3> HIDE DEF ups, n
    <3>2. \A g \in ups \cup (n \ (t \ {f})) : Alike(w, objects, g)
      BY <1>a, <2>2, <3>1
    <3>3. DOMAIN w \cap DbFiles \subseteq DOMAIN l \cup n /\ t \ {f} \subseteq n
      BY <1>3, <2>2, <3>1
    <3> QED
      BY <3>1, <3>2, <3>3 DEF Downloading, ups, n
  <2>4. t \ {f} \subseteq DOMAIN objects
    BY <1>4
  <2> QED
    BY <1>4, <2>1, <2>3, <2>4 DEF SiteOk
<1>5. ASSUME NEW b, NEW t, b \in BOOLEAN, transfer[s] = FetchCall(b, t),
             t \subseteq DOMAIN objects, b => Fetching(t, here, objects)
      PROVE  SiteOk(d, w, objects, ro)
  <2>1. d = FetchCall(b, t \ {f})
    BY <1>5 DEF FetchCall
  <2>2. f \in t /\ f \in DOMAIN objects
    BY <1>1, <1>5, FetchShape
  <2> HIDE DEF d
  <2>3. t \ {f} \subseteq DOMAIN objects
    BY <1>5
  <2>4. b => Fetching(t \ {f}, w, objects)
    BY <1>5, <1>a, <2>2, <2>3 DEF Fetching
  <2> QED
    BY <1>5, <2>1, <2>3, <2>4 DEF SiteOk
<1>6. SiteOk(transfer[s], here, objects, ro)
  BY DEF SyncInv
<1>7. \/ \E b, l, r, t : /\ b \in BOOLEAN /\ transfer[s] = MoveCall("download", b, l, r, t)
                         /\ t \subseteq DOMAIN objects
                         /\ b => Downloading(l, r, t, here, objects, ro)
      \/ \E b, t : /\ b \in BOOLEAN /\ transfer[s] = FetchCall(b, t)
                   /\ t \subseteq DOMAIN objects
                   /\ b => Fetching(t, here, objects)
  BY <1>6, WalkShape, MoveShape, PushShape, FetchShape DEF SiteOk, DownloadOne, NoTransfer
<1>8. f \in DbFiles \cup DOMAIN objects
  BY <1>1, <1>7, MoveShape, FetchShape
<1> HIDE DEF d
<1>9. SiteOk(d, w, objects, ro)
  BY <1>4, <1>5, <1>7
<1> QED
  BY <1>2, <1>8, <1>9, SaveStep DEF w

(* An edit on either side ends the calm of the calls it concerns. *)
LEMMA EditSteps ==
    ASSUME SyncInv, (\E s \in Sites : EditFile(s)) \/ WriteObject
    PROVE  SyncInv'
<1>1. ASSUME NEW s \in Sites, EditFile(s) PROVE SyncInv'
  <2>1. PICK f \in DbFiles :
           /\ files' = [files EXCEPT ![s] = Written(@, f, Copy(edits + 1, clock))]
           /\ transfer' = OthersDisturbed({s}) /\ UNCHANGED <<objects, clock>>
    BY <1>1 DEF EditFile
  <2> DEFINE c == OthersDisturbed({s})[s]
             w == Written(files[s], f, Copy(edits + 1, clock))
  <2>2. files' = [files EXCEPT ![s] = w]
    BY <2>1 DEF SyncInv, CopiesOk
  <2>3. SiteOk(c, w, objects, s \in ReadonlySites)
    BY OthersOk
  <2>4. \A x \in Sites : x # s => OthersDisturbed({s})[x] = transfer[x]
    BY DEF OthersDisturbed
  <2>5. OthersDisturbed({s}) = [x \in Sites |-> OthersDisturbed({s})[x]]
    BY DEF OthersDisturbed
  <2> HIDE DEF c, w
  <2>6. transfer' = [transfer EXCEPT ![s] = c]
    <3>1. transfer' = [x \in Sites |-> IF x = s THEN c ELSE transfer[x]]
      BY <2>1, <2>4, <2>5 DEF c
    <3>2. transfer = [x \in Sites |-> transfer[x]]
      BY DEF SyncInv, CopiesOk
    <3> QED
      BY <3>1, <3>2
  <2> QED
    BY <2>1, <2>2, <2>3, <2>6, SaveStep DEF w
<1>2. CASE WriteObject
  <2>1. PICK f \in Objects :
           /\ objects' = Written(objects, f, Copy(edits + 1, clock))
           /\ transfer' = OthersDisturbed(Sites) /\ UNCHANGED <<files, clock>>
    BY <1>2 DEF WriteObject
  <2>2. /\ DOMAIN objects' = DOMAIN objects \cup {f} /\ objects'[f].at = clock
        /\ \A x \in DOMAIN objects : x # f => objects'[x] = objects[x]
    BY <2>1 DEF Written, Copy
  <2>3. ASSUME NEW s \in Sites
        PROVE  SiteOk(transfer'[s], files'[s], objects', s \in ReadonlySites)
    BY <2>1, <2>2, OthersOk
  <2>4. transfer' = [s \in Sites |-> transfer'[s]]
    BY <2>1 DEF OthersDisturbed
  <2>5. CopiesOk'
    <3>1. clock' \in Nat /\ DOMAIN objects' \subseteq DbFiles \cup Objects
      BY <2>1, <2>2 DEF SyncInv, CopiesOk
    <3>2. \A x \in DOMAIN objects' : objects'[x].at \in Nat
      BY <2>2 DEF SyncInv, CopiesOk
    <3>3. \A x \in Sites : /\ DOMAIN files'[x] \subseteq DbFiles \cup DOMAIN objects'
                           /\ \A g \in DOMAIN files'[x] : files'[x][g].at \in Nat
      BY <2>1, <2>2 DEF SyncInv, CopiesOk
    <3> QED
      BY <2>1, <2>4, <3>1, <3>2, <3>3 DEF SyncInv, CopiesOk
  <2> QED
    BY <2>3, <2>5 DEF SyncInv
<1> QED
  BY <1>1, <1>2

LEMMA SyncStep == SyncInv /\ [SyncNext]_syncVars => SyncInv'
<1> SUFFICES ASSUME SyncInv, [SyncNext]_syncVars PROVE SyncInv'
  OBVIOUS
<1>1. CASE UNCHANGED <<files, objects, transfer>> /\ clock' \in Nat
  BY <1>1 DEF SyncInv, CopiesOk
<1>2. CASE TimePasses
  <2>1. clock' \in Nat
    BY <1>2 DEF TimePasses, SyncInv, CopiesOk
  <2> QED
    BY <1>1, <1>2, <2>1 DEF TimePasses
<1>3. CASE UNCHANGED syncVars
  BY <1>1, <1>3 DEF syncVars, SyncInv, CopiesOk
<1> QED
  BY <1>2, <1>3, ListSteps, LocalStep, TurnStep, EndStep, UploadStep, ConfigStep,
     DownloadStep, EditSteps DEF SyncNext

(* The invariant at the end of a call is what the property says. *)
LEMMA SyncEnds == SyncInv => SyncConverges
<1> SUFFICES ASSUME SyncInv, NEW s \in Sites, Finished(s), transfer[s].calm,
                    NEW f \in DbFiles \cup Objects
             PROVE  LET c == transfer[s] IN
                    \/ Contents(files[s], f) = Contents(objects, f)
                    \/ c.op = "fetch" /\ f \notin DOMAIN objects
                    \/ /\ c.op = "sync"
                       /\ \/ f \in DOMAIN c.local \cap DOMAIN c.remote /\ c.local[f] = c.remote[f]
                          \/ s \in ReadonlySites /\ f \in Newer(c.local, c.remote)
  BY DEF SyncConverges
<1> DEFINE ro == s \in ReadonlySites
           here == files[s]
           c == transfer[s]
<1>1. SiteOk(c, here, objects, ro) /\ DOMAIN here \subseteq DbFiles \cup DOMAIN objects
  BY DEF SyncInv, CopiesOk
<1>2. \/ \E b, l, r : /\ c = MoveCall("download", b, l, r, {})
                        /\ Downloading(l, r, {}, here, objects, ro)
      \/ \E b : c = FetchCall(b, {}) /\ Fetching({}, here, objects)
  <2>1. /\ c # NoTransfer /\ c.op # "none" /\ c.pc = "download" /\ c.todo = {} /\ c.calm
    BY DEF Finished, NoTransfer
  <2>2. \/ \E b, l, r, t : /\ b \in BOOLEAN /\ c = MoveCall("download", b, l, r, t)
                           /\ b => Downloading(l, r, t, here, objects, ro)
        \/ \E b, t : /\ b \in BOOLEAN /\ c = FetchCall(b, t)
                     /\ b => Fetching(t, here, objects)
    BY <1>1, <2>1, WalkShape, MoveShape, PushShape, FetchShape DEF SiteOk
  <2> HIDE DEF c
  <2>3. ASSUME NEW b, NEW l, NEW r, NEW t, b \in BOOLEAN, c = MoveCall("download", b, l, r, t),
               b => Downloading(l, r, t, here, objects, ro)
        PROVE  c = MoveCall("download", b, l, r, {}) /\ Downloading(l, r, {}, here, objects, ro)
    <3>1. c.calm = b /\ c.todo = t
      BY <2>3, MoveShape
    <3>2. b /\ t = {}
      BY <2>1, <2>3, <3>1
    <3> QED
      BY <2>3, <3>2
  <2>4. ASSUME NEW b, NEW t, b \in BOOLEAN, c = FetchCall(b, t), b => Fetching(t, here, objects)
        PROVE  c = FetchCall(b, {}) /\ Fetching({}, here, objects)
    <3>1. c.calm = b /\ c.todo = t
      BY <2>4, FetchShape
    <3>2. b /\ t = {}
      BY <2>1, <2>4, <3>1
    <3> QED
      BY <2>4, <3>2
  <2> QED
    BY <2>2, <2>3, <2>4
<1>3. Alike(here, objects, f) => Contents(here, f) = Contents(objects, f)
  BY DEF Alike, Contents
<1>4. ASSUME NEW b, c = FetchCall(b, {}), Fetching({}, here, objects)
      PROVE  \/ Contents(here, f) = Contents(objects, f)
             \/ c.op = "fetch" /\ f \notin DOMAIN objects
  <2>1. c.op = "fetch"
    BY <1>4, FetchShape
  <2> QED
    BY <1>3, <1>4, <2>1 DEF Fetching
<1>5. ASSUME NEW b, NEW l, NEW r, c = MoveCall("download", b, l, r, {}),
             Downloading(l, r, {}, here, objects, ro)
      PROVE  \/ Contents(here, f) = Contents(objects, f)
             \/ /\ c.op = "sync"
                /\ \/ f \in DOMAIN c.local \cap DOMAIN c.remote /\ c.local[f] = c.remote[f]
                   \/ ro /\ f \in Newer(c.local, c.remote)
  <2>1. c.op = "sync" /\ c.local = l /\ c.remote = r
    BY <1>5, MoveShape
  <2> HIDE DEF c, here, ro
  <2>2. CASE f \in Uploads(l, r, ro) \cup Newer(r, l)
    BY <1>3, <1>5, <2>2 DEF Downloading
  <2>3. CASE f \notin Uploads(l, r, ro) \cup Newer(r, l)
    <3>1. CASE f \in DOMAIN l /\ f \in DOMAIN r
      <4>1. l[f] \in Nat /\ r[f] \in Nat
        BY <1>5, <3>1 DEF Downloading, Timed
      <4>2. ~(r[f] > l[f]) /\ (ro \/ ~(l[f] > r[f]))
        BY <2>3, <3>1 DEF Uploads, Newer
      <4>3. l[f] = r[f] \/ (ro /\ l[f] > r[f])
        BY <4>1, <4>2
      <4> QED
        BY <2>1, <3>1, <4>3 DEF Newer
    <3>2. CASE f \in DOMAIN l /\ f \notin DOMAIN r
      BY <2>1, <2>3, <3>2 DEF Uploads, Newer
    <3>3. CASE f \notin DOMAIN l /\ f \in DOMAIN r
      BY <2>3, <3>3 DEF Newer
    <3>4. CASE f \notin DOMAIN l /\ f \notin DOMAIN r
      <4>1. f \notin DOMAIN objects
        BY <1>5, <2>3, <3>4 DEF Downloading
      <4>2. f \notin DOMAIN here
        BY <1>1, <1>5, <2>3, <3>4, <4>1 DEF Downloading
      <4> QED
        BY <4>1, <4>2 DEF Contents
    <3> QED
      BY <3>1, <3>2, <3>3, <3>4
  <2> QED
    BY <2>2, <2>3
<1> QED
  BY <1>2, <1>4, <1>5

(* A transfer nobody disturbs leaves the directory and the bucket alike, with
   any number of sites, files and objects and whatever the clock shows.    *)
THEOREM SyncsConverge == SyncSpec => []SyncConverges
<1>1. SyncInit => SyncInv
  BY SyncStart
<1>2. SyncInv /\ [SyncNext]_syncVars => SyncInv'
  BY SyncStep
<1>3. SyncInv => SyncConverges
  BY SyncEnds
<1> QED
  BY <1>1, <1>2, <1>3, PTL DEF SyncSpec

-------------------------------------------------------------------------------
(* Streams. *)

(* A message is an error or a batch. *)
StreamMsgs == {Batch(b) : b \in Batches} \cup {StreamError}

Good(m) == ~m.err /\ m.items # <<>>

(* The items of the first k messages of s. *)
Flat(s, k) == FlattenSeq([i \in 1 .. k |-> s[i].items])

LEMMA FlatIs ==
    ASSUME NEW s, NEW k \in Nat, \A i \in 1 .. k : s[i].items \in Seq(Items)
    PROVE  /\ Flat(s, k) \in Seq(Items)
           /\ Flat(s, 0) = <<>>
           /\ k # 0 => Flat(s, k) = Cat(Flat(s, k - 1), s[k].items)
<1> DEFINE t(j) == [i \in 1 .. j |-> s[i].items]
<1>1. PICK g : Joins(Items, t(k), k, g)
  <2>1. \A i \in 1 .. k : t(k)[i] \in Seq(Items)
    OBVIOUS
  <2> HIDE DEF t
  <2> QED
    BY <2>1, JoinsExist
<1>2. ASSUME NEW j \in 0 .. k PROVE Flat(s, j) = g[j]
  <2> DEFINE h == [i \in 0 .. j |-> g[i]]
  <2>1. t(j) \in [1 .. j -> Seq(Items)] /\ j \in Nat
    OBVIOUS
  <2>2. h \in [0 .. j -> Seq(Items)] /\ h[0] = <<>>
    BY <1>1 DEF Joins
  <2>3. ASSUME NEW i \in 1 .. j PROVE h[i] = Cat(h[i - 1], t(j)[i])
    <3>1. i \in 1 .. k /\ i - 1 \in 0 .. j /\ i \in 0 .. j
      OBVIOUS
    <3>2. g[i] = Cat(g[i - 1], t(k)[i])
      BY <1>1, <3>1 DEF Joins
    <3>3. t(k)[i] = t(j)[i]
      BY <3>1
    <3> QED
      BY <3>1, <3>2, <3>3
  <2>4. Joins(Items, t(j), j, h)
    <3> HIDE DEF t, h
    <3> QED
      BY <2>2, <2>3 DEF Joins
  <2>5. FlattenSeq(t(j)) = h[j]
    <3> HIDE DEF t, h
    <3> QED
      BY <2>1, <2>4, FlattenIs
  <2>6. h[j] = g[j]
    OBVIOUS
  <2> QED
    BY <2>5, <2>6 DEF Flat
<1>3. g[k] \in Seq(Items) /\ g[0] = <<>>
  BY <1>1 DEF Joins
<1>4. ASSUME k # 0 PROVE g[k] = Cat(g[k - 1], s[k].items)
  <2>1. k \in 1 .. k /\ t(k)[k] = s[k].items
    BY <1>4
  <2> QED
    BY <1>1, <2>1 DEF Joins
<1>5. Flat(s, k) = g[k] /\ Flat(s, 0) = g[0] /\ (k # 0 => Flat(s, k - 1) = g[k - 1])
  BY <1>2
<1> HIDE DEF t
<1> QED
  BY <1>3, <1>4, <1>5

LEMMA FlatSame ==
    ASSUME NEW s, NEW t, NEW k \in Nat, \A i \in 1 .. k : s[i].items = t[i].items
    PROVE  Flat(s, k) = Flat(t, k)
<1>1. [i \in 1 .. k |-> s[i].items] = [i \in 1 .. k |-> t[i].items]
  OBVIOUS
<1> QED
  BY <1>1 DEF Flat

(* Whoever takes more messages has what the others have first. *)
LEMMA FlatGrows ==
    ASSUME NEW s, NEW k \in Nat, NEW m \in Nat, k <= m, \A i \in 1 .. m : s[i].items \in Seq(Items)
    PROVE  \E r \in Seq(Items) : Flat(s, m) = Cat(Flat(s, k), r)
<1> DEFINE S == {d \in Nat : k + d <= m => \E r \in Seq(Items) : Flat(s, k + d) = Cat(Flat(s, k), r)}
<1>0. Flat(s, k) \in Seq(Items)
  BY FlatIs
<1>1. 0 \in S
  <2>1. Flat(s, k) = Cat(Flat(s, k), <<>>) /\ <<>> \in Seq(Items) /\ k + 0 = k
    BY <1>0, ConcatEmptySeq, EmptySeq DEF Cat
  <2> QED
    BY <2>1
<1>2. ASSUME NEW d \in Nat, d \in S PROVE d + 1 \in S
  <2> SUFFICES ASSUME k + (d + 1) <= m PROVE \E r \in Seq(Items) : Flat(s, k + (d + 1)) = Cat(Flat(s, k), r)
    OBVIOUS
  <2>1. PICK r \in Seq(Items) : Flat(s, k + d) = Cat(Flat(s, k), r)
    BY <1>2
  <2>2. k + (d + 1) \in Nat /\ k + (d + 1) # 0 /\ (k + (d + 1)) - 1 = k + d
    OBVIOUS
  <2>3. s[k + (d + 1)].items \in Seq(Items)
    BY <2>2
  <2>4. Flat(s, k + (d + 1)) = Cat(Flat(s, k + d), s[k + (d + 1)].items)
    <3>1. \A i \in 1 .. k + (d + 1) : s[i].items \in Seq(Items)
      OBVIOUS
    <3> QED
      BY <2>2, <3>1, FlatIs
  <2>5. Flat(s, k + (d + 1)) = Cat(Flat(s, k), Cat(r, s[k + (d + 1)].items))
    <3> DEFINE v == s[k + (d + 1)].items  a == Flat(s, k)
    <3>1. v \in Seq(Items) /\ a \in Seq(Items)
      BY <1>0, <2>3
    <3>2. Cat(Cat(a, r), v) = Cat(a, Cat(r, v))
      <4> HIDE DEF v, a
      <4> QED
        BY <3>1, ConcatAssociative DEF Cat
    <3> QED
      BY <2>1, <2>4, <3>2
  <2>6. Cat(r, s[k + (d + 1)].items) \in Seq(Items)
    BY <2>3, CatType
  <2> QED
    BY <2>5, <2>6
<1>3. \A d \in Nat : d \in S
  <2> HIDE DEF S
  <2> QED
    BY <1>1, <1>2, Inductive
<1>4. PICK d \in Nat : m = k + d
  <2>1. m - k \in Nat /\ m = k + (m - k)
    OBVIOUS
  <2> QED
    BY <2>1
<1>5. d \in S
  BY <1>3
<1> QED
  BY <1>4, <1>5

-------------------------------------------------------------------------------
(* The stream. *)

Taken == Len(sent) - Len(chan)

(* The stream between two tasks: the channel holds the messages sent and not
   taken; collect has the items of the taken ones, all of them batches with
   items while it runs; it ends on the first that is not, or on the end of a
   closed stream.                                                          *)
StreamType ==
    /\ sent \in Seq(StreamMsgs) /\ chan \in Seq(StreamMsgs)
    /\ got \in Seq(Items) /\ current \in Seq(Items)
    /\ outcome \in {"running", "ok", "err"}
    /\ closed \in BOOLEAN /\ dropped \in BOOLEAN
    /\ Len(chan) <= Len(sent)
    /\ \A i \in 1 .. Len(chan) : chan[i] = sent[Taken + i]
    /\ outcome # "running" => dropped /\ current = <<>>

(* The first k messages are batches with items, and collect got those. *)
GotFirst(k) ==
    /\ k \in 0 .. Len(sent)
    /\ \A i \in 1 .. k : Good(sent[i])
    /\ got \o current = Flat(sent, k)

StreamInv ==
    /\ StreamType
    /\ outcome = "running" => GotFirst(Taken)
    /\ outcome = "ok" =>
          \/ closed /\ GotFirst(Len(sent))
          \/ \E k \in 1 .. Len(sent) :
                GotFirst(k - 1) /\ ~sent[k].err /\ sent[k].items = <<>>
    /\ outcome = "err" => \E k \in 1 .. Len(sent) : GotFirst(k - 1) /\ sent[k].err

LEMMA MsgIs ==
    ASSUME NEW m \in StreamMsgs
    PROVE  /\ m.err \in BOOLEAN
           /\ ~m.err => m.items \in Seq(Items)
<1>1. CASE m = StreamError
  BY <1>1 DEF StreamError
<1>2. ASSUME NEW b \in Batches, m = Batch(b) PROVE m.err = FALSE /\ m.items \in Seq(Items)
  BY <1>2, StreamConstants DEF Batch
<1> QED
  BY <1>1, <1>2 DEF StreamMsgs

LEMMA GoodItems ==
    ASSUME NEW s \in Seq(StreamMsgs), NEW i \in 1 .. Len(s), ~s[i].err
    PROVE  s[i].items \in Seq(Items)
<1>1. s[i] \in StreamMsgs
  BY ElementOfSeq
<1> QED
  BY <1>1, MsgIs

LEMMA StreamStarts == StreamInit => StreamInv
<1> SUFFICES ASSUME StreamInit PROVE StreamInv
  OBVIOUS
<1>1. Len(sent) = 0 /\ Len(chan) = 0 /\ Taken = 0
  BY DEF StreamInit, Taken
<1>2. got \o current = <<>>
  BY ConcatEmptySeq, EmptySeq DEF StreamInit
<1>3. Flat(sent, 0) = <<>>
  BY FlatIs
<1>4. GotFirst(0)
  BY <1>1, <1>2, <1>3 DEF GotFirst
<1>5. StreamType
  <2>1. sent \in Seq(StreamMsgs) /\ chan \in Seq(StreamMsgs) /\ got \in Seq(Items) /\ current \in Seq(Items)
    BY EmptySeq DEF StreamInit
  <2>2. \A i \in 1 .. Len(chan) : chan[i] = sent[Taken + i]
    BY <1>1
  <2>3. outcome = "running" /\ closed = FALSE /\ dropped = FALSE
    BY DEF StreamInit
  <2>4. Len(chan) <= Len(sent)
    BY <1>1
  <2> QED
    BY <2>1, <2>2, <2>3, <2>4 DEF StreamType
<1> QED
  BY <1>1, <1>4, <1>5 DEF StreamInit, StreamInv

(* A longer stream keeps its beginning. *)
LEMMA GotKept ==
    ASSUME StreamType, NEW m \in StreamMsgs, sent' = Append(sent, m), got' = got, current' = current,
           NEW k, GotFirst(k)
    PROVE  GotFirst(k)' /\ Len(sent') = Len(sent) + 1
<1>1. Len(sent') = Len(sent) + 1 /\ \A i \in 1 .. Len(sent) : sent'[i] = sent[i]
  BY AppendProperties DEF StreamType
<1>2. k \in Nat /\ k <= Len(sent) /\ Len(sent) \in Nat
  BY LenProperties DEF GotFirst, StreamType
<1>3. \A i \in 1 .. k : sent'[i] = sent[i]
  BY <1>1, <1>2
<1>4. Flat(sent', k) = Flat(sent, k)
  BY <1>2, <1>3, FlatSame
<1> QED
  BY <1>1, <1>2, <1>3, <1>4 DEF GotFirst

LEMMA SendStep == StreamInv /\ StreamSend => StreamInv'
<1> SUFFICES ASSUME StreamInv, StreamSend PROVE StreamInv'
  OBVIOUS
<1>1. PICK m \in StreamMsgs : chan' = Append(chan, m) /\ sent' = Append(sent, m)
  BY DEF StreamSend, StreamMsgs
<1>2. /\ closed' = closed /\ dropped' = dropped /\ current' = current /\ got' = got
      /\ outcome' = outcome /\ ~dropped /\ ~closed
  BY DEF StreamSend
<1>3. outcome = "running" /\ StreamType /\ GotFirst(Taken)
  BY <1>2 DEF StreamInv, StreamType
<1>4. /\ sent' \in Seq(StreamMsgs) /\ Len(sent') = Len(sent) + 1 /\ sent'[Len(sent) + 1] = m
      /\ \A i \in 1 .. Len(sent) : sent'[i] = sent[i]
  BY <1>1, <1>3, AppendProperties DEF StreamType
<1>5. /\ chan' \in Seq(StreamMsgs) /\ Len(chan') = Len(chan) + 1 /\ chan'[Len(chan) + 1] = m
      /\ \A i \in 1 .. Len(chan) : chan'[i] = chan[i]
  BY <1>1, <1>3, AppendProperties DEF StreamType
<1>6. Len(sent) \in Nat /\ Len(chan) \in Nat /\ Len(chan) <= Len(sent)
  BY <1>3, LenProperties DEF StreamType
<1>7. Taken' = Taken
  BY <1>4, <1>5, <1>6 DEF Taken
<1>8. GotFirst(Taken)'
  <2>1. PICK k : k = Taken
    OBVIOUS
  <2>2. GotFirst(k)'
    BY <1>1, <1>2, <1>3, <2>1, GotKept
  <2> QED
    BY <1>7, <2>1, <2>2 DEF GotFirst
<1>9. \A i \in 1 .. Len(chan') : chan'[i] = sent'[Taken' + i]
  <2> SUFFICES ASSUME NEW i \in 1 .. Len(chan') PROVE chan'[i] = sent'[Taken' + i]
    OBVIOUS
  <2>1. CASE i <= Len(chan)
    <3>1. i \in 1 .. Len(chan) /\ Taken + i \in 1 .. Len(sent)
      BY <1>5, <1>6, <2>1 DEF Taken
    <3> QED
      BY <1>3, <1>4, <1>5, <1>7, <3>1 DEF StreamType
  <2>2. CASE i = Len(chan) + 1
    <3>1. Taken + i = Len(sent) + 1
      BY <1>6, <2>2 DEF Taken
    <3> QED
      BY <1>4, <1>5, <1>7, <2>2, <3>1
  <2> QED
    BY <1>5, <1>6, <2>1, <2>2
<1>10. StreamType'
  BY <1>2, <1>3, <1>4, <1>5, <1>6, <1>9 DEF StreamType
<1> QED
  BY <1>2, <1>3, <1>8, <1>10 DEF StreamInv

LEMMA TakeCurrentStep == StreamInv /\ TakeCurrent => StreamInv'
<1> SUFFICES ASSUME StreamInv, TakeCurrent PROVE StreamInv'
  OBVIOUS
<1>1. /\ outcome = "running" /\ current # <<>> /\ got' = Append(got, Head(current))
      /\ current' = Tail(current) /\ chan' = chan /\ closed' = closed /\ dropped' = dropped
      /\ outcome' = outcome /\ sent' = sent
  BY DEF TakeCurrent
<1>2. StreamType /\ GotFirst(Taken)
  BY <1>1 DEF StreamInv
<1>3. got' \in Seq(Items) /\ current' \in Seq(Items) /\ got' \o current' = got \o current
  <2>1. PICK g \in Seq(Items), c \in Seq(Items) : g = got /\ c = current /\ c # <<>>
    BY <1>1, <1>2 DEF StreamType
  <2>2. Head(c) \in Items /\ Tail(c) \in Seq(Items) /\ c = <<Head(c)>> \o Tail(c)
    BY <2>1
  <2>3. Append(g, Head(c)) = g \o <<Head(c)>> /\ Append(g, Head(c)) \in Seq(Items)
        /\ <<Head(c)>> \in Seq(Items)
    BY <2>2, AppendIsConcat, AppendProperties
  <2>4. (g \o <<Head(c)>>) \o Tail(c) = g \o (<<Head(c)>> \o Tail(c))
    BY <2>2, <2>3, ConcatAssociative
  <2> QED
    BY <1>1, <2>1, <2>2, <2>3, <2>4
<1>4. StreamType'
  BY <1>1, <1>2, <1>3 DEF StreamType, Taken
<1>5. GotFirst(Taken)'
  BY <1>1, <1>2, <1>3 DEF GotFirst, Taken
<1> QED
  BY <1>1, <1>4, <1>5 DEF StreamInv

(* What a message taken from the channel is. *)
LEMMA HeadTaken ==
    ASSUME StreamType, chan # <<>>, chan' = Tail(chan), sent' = sent
    PROVE  /\ Taken \in Nat /\ Taken + 1 \in 1 .. Len(sent) /\ Len(sent) \in Nat
           /\ Head(chan) = sent[Taken + 1] /\ Taken' = Taken + 1
           /\ chan' \in Seq(StreamMsgs) /\ Len(chan') <= Len(sent')
           /\ \A i \in 1 .. Len(chan') : chan'[i] = sent'[Taken' + i]
<1>1. /\ Len(sent) \in Nat /\ Len(chan) \in Nat \ {0} /\ Len(chan) <= Len(sent)
      /\ \A i \in 1 .. Len(chan) : chan[i] = sent[Taken + i]
  BY LenProperties, EmptySeq DEF StreamType
<1>2. /\ chan' \in Seq(StreamMsgs) /\ Len(chan') = Len(chan) - 1
      /\ \A i \in 1 .. Len(chan') : chan'[i] = chan[i + 1]
  BY HeadTailProperties DEF StreamType
<1>3. Head(chan) = chan[1]
  BY DEF StreamType
<1>4. Taken \in Nat /\ Taken + 1 \in 1 .. Len(sent) /\ Taken' = Taken + 1
  BY <1>1, <1>2 DEF Taken
<1>5. Head(chan) = sent[Taken + 1]
  BY <1>1, <1>3
<1>6. ASSUME NEW i \in 1 .. Len(chan') PROVE chan'[i] = sent'[Taken' + i]
  <2>1. i + 1 \in 1 .. Len(chan) /\ Taken' + i = Taken + (i + 1)
    BY <1>1, <1>2, <1>4
  <2> QED
    BY <1>1, <1>2, <2>1
<1> QED
  BY <1>1, <1>2, <1>4, <1>5, <1>6

LEMMA TakeBatchStep == StreamInv /\ TakeBatch => StreamInv'
<1> SUFFICES ASSUME StreamInv, TakeBatch PROVE StreamInv'
  OBVIOUS
<1>1. /\ outcome = "running" /\ current = <<>> /\ chan # <<>> /\ ~Head(chan).err
      /\ chan' = Tail(chan) /\ closed' = closed /\ sent' = sent
  BY DEF TakeBatch
<1>2. StreamType /\ GotFirst(Taken)
  BY <1>1 DEF StreamInv
<1>3. PICK k \in Nat : k = Taken
  BY <1>1, <1>2, HeadTaken
<1>4. PICK b : b = sent[k + 1].items
  OBVIOUS
<1>5. /\ k + 1 \in 1 .. Len(sent) /\ Len(sent) \in Nat /\ Head(chan) = sent[k + 1]
      /\ Taken' = k + 1 /\ chan' \in Seq(StreamMsgs) /\ Len(chan') <= Len(sent')
      /\ \A i \in 1 .. Len(chan') : chan'[i] = sent'[Taken' + i]
  BY <1>1, <1>2, <1>3, HeadTaken
<1>6. b \in Seq(Items)
  <2>1. sent[k + 1] \in StreamMsgs
    BY <1>2, <1>5, ElementOfSeq DEF StreamType
  <2> QED
    BY <1>1, <1>4, <1>5, <2>1, MsgIs
<1>7. GotFirst(k) /\ got = Flat(sent, k) /\ got \in Seq(Items)
  <2>1. got \o current = got
    BY <1>1, <1>2, ConcatEmptySeq DEF StreamType
  <2> QED
    BY <1>2, <1>3, <2>1 DEF GotFirst, StreamType
<1>8. CASE b # <<>>
  <2>1. /\ got' = Append(got, Head(b)) /\ current' = Tail(b)
        /\ outcome' = outcome /\ dropped' = dropped
    BY <1>4, <1>5, <1>8 DEF TakeBatch
  <2>2. got' \in Seq(Items) /\ current' \in Seq(Items) /\ got' \o current' = got \o b
    <3>1. PICK g \in Seq(Items) : g = got
      BY <1>7
    <3>2. Head(b) \in Items /\ Tail(b) \in Seq(Items) /\ b = <<Head(b)>> \o Tail(b)
      BY <1>6, <1>8
    <3>3. Append(g, Head(b)) = g \o <<Head(b)>> /\ Append(g, Head(b)) \in Seq(Items)
          /\ <<Head(b)>> \in Seq(Items)
      BY <3>2, AppendIsConcat, AppendProperties
    <3>4. (g \o <<Head(b)>>) \o Tail(b) = g \o (<<Head(b)>> \o Tail(b))
      BY <3>2, <3>3, ConcatAssociative
    <3> QED
      BY <2>1, <3>1, <3>2, <3>3, <3>4
  <2>3. \A i \in 1 .. k + 1 : Good(sent[i])
    <3>1. Good(sent[k + 1])
      BY <1>1, <1>4, <1>5, <1>8 DEF Good
    <3>2. \A i \in 1 .. k : Good(sent[i])
      BY <1>7 DEF GotFirst
    <3> QED
      BY <3>1, <3>2
  <2>4. Flat(sent, k + 1) = Cat(Flat(sent, k), b)
    <3>1. \A i \in 1 .. k + 1 : sent[i].items \in Seq(Items)
      BY <1>2, <1>5, <2>3, GoodItems DEF StreamType, Good
    <3>2. k + 1 \in Nat /\ k + 1 # 0 /\ (k + 1) - 1 = k
      OBVIOUS
    <3> QED
      BY <1>4, <3>1, <3>2, FlatIs
  <2>5. got' \o current' = Flat(sent, k + 1)
    BY <1>7, <2>2, <2>4 DEF Cat
  <2>6. GotFirst(Taken)'
    BY <1>1, <1>5, <2>3, <2>5 DEF GotFirst
  <2>7. StreamType'
    BY <1>1, <1>2, <1>5, <2>1, <2>2 DEF StreamType
  <2> QED
    BY <1>1, <2>1, <2>6, <2>7 DEF StreamInv
<1>9. CASE b = <<>>
  <2>1. outcome' = "ok" /\ dropped' = TRUE /\ got' = got /\ current' = current
    BY <1>4, <1>5, <1>9 DEF TakeBatch, CollectReturns
  <2>2. GotFirst(k)'
    BY <1>1, <1>7, <2>1 DEF GotFirst
  <2>3. StreamType'
    BY <1>1, <1>2, <1>5, <2>1 DEF StreamType
  <2>4. \E j \in 1 .. Len(sent') : GotFirst(j - 1)' /\ ~sent'[j].err /\ sent'[j].items = <<>>
    <3>1. k + 1 \in 1 .. Len(sent') /\ (k + 1) - 1 = k
      BY <1>1, <1>5
    <3>2. ~sent'[k + 1].err /\ sent'[k + 1].items = <<>>
      BY <1>1, <1>4, <1>5, <1>9
    <3>3. GotFirst((k + 1) - 1)'
      BY <2>2, <3>1
    <3> QED
      BY <3>1, <3>2, <3>3
  <2> QED
    BY <2>1, <2>3, <2>4 DEF StreamInv
<1> QED
  BY <1>8, <1>9

LEMMA TakeErrorStep == StreamInv /\ TakeError => StreamInv'
<1> SUFFICES ASSUME StreamInv, TakeError PROVE StreamInv'
  OBVIOUS
<1>1. /\ outcome = "running" /\ current = <<>> /\ chan # <<>> /\ Head(chan).err
      /\ chan' = Tail(chan) /\ closed' = closed /\ sent' = sent /\ got' = got
      /\ current' = current /\ outcome' = "err" /\ dropped' = TRUE
  BY DEF TakeError, CollectReturns
<1>2. StreamType /\ GotFirst(Taken)
  BY <1>1 DEF StreamInv
<1>3. PICK k \in Nat : k = Taken
  BY <1>1, <1>2, HeadTaken
<1>4. /\ k + 1 \in 1 .. Len(sent) /\ Len(sent) \in Nat /\ Head(chan) = sent[k + 1]
      /\ chan' \in Seq(StreamMsgs) /\ Len(chan') <= Len(sent')
      /\ \A i \in 1 .. Len(chan') : chan'[i] = sent'[Taken' + i]
  BY <1>1, <1>2, <1>3, HeadTaken
<1>5. GotFirst(k)'
  BY <1>1, <1>2, <1>3 DEF GotFirst
<1>6. StreamType'
  BY <1>1, <1>2, <1>4 DEF StreamType
<1>7. \E j \in 1 .. Len(sent') : GotFirst(j - 1)' /\ sent'[j].err
  <2>1. k + 1 \in 1 .. Len(sent') /\ (k + 1) - 1 = k /\ sent'[k + 1].err
    BY <1>1, <1>4
  <2>2. GotFirst((k + 1) - 1)'
    BY <1>5, <2>1
  <2> QED
    BY <2>1, <2>2
<1> QED
  BY <1>1, <1>6, <1>7 DEF StreamInv

LEMMA TakeEndStep == StreamInv /\ TakeEnd => StreamInv'
<1> SUFFICES ASSUME StreamInv, TakeEnd PROVE StreamInv'
  OBVIOUS
<1>1. /\ outcome = "running" /\ current = <<>> /\ chan = <<>> /\ closed
      /\ chan' = chan /\ closed' = closed /\ sent' = sent /\ got' = got
      /\ current' = current /\ outcome' = "ok" /\ dropped' = TRUE
  BY DEF TakeEnd, CollectReturns
<1>2. StreamType /\ GotFirst(Taken)
  BY <1>1 DEF StreamInv
<1>3. Taken = Len(sent)
  <2>1. Len(sent) \in Nat /\ Len(chan) = 0
    BY <1>1, <1>2, LenProperties, EmptySeq DEF StreamType
  <2> QED
    BY <2>1 DEF Taken
<1>4. GotFirst(Len(sent))'
  BY <1>1, <1>2, <1>3 DEF GotFirst
<1>5. StreamType'
  BY <1>1, <1>2 DEF StreamType, Taken
<1> QED
  BY <1>1, <1>4, <1>5 DEF StreamInv

LEMMA StreamStep == StreamInv /\ [StreamNext]_streamVars => StreamInv'
<1> SUFFICES ASSUME StreamInv, [StreamNext]_streamVars PROVE StreamInv'
  OBVIOUS
<1>1. CASE SenderDrop
  BY <1>1 DEF SenderDrop, StreamInv, StreamType, GotFirst, Taken
<1>2. CASE UNCHANGED streamVars
  BY <1>2 DEF streamVars, StreamInv, StreamType, GotFirst, Taken
<1> QED
  BY <1>1, <1>2, SendStep, TakeCurrentStep, TakeBatchStep, TakeErrorStep, TakeEndStep
     DEF StreamNext, StreamTake

LEMMA WantedIs ==
    ASSUME StreamType, NEW k \in 0 .. Len(sent), \A i \in 1 .. k : Good(sent[i])
    PROVE  /\ \E r \in Seq(Items) : Wanted = Flat(sent, k) \o r
           /\ k = Len(sent) => Wanted = Flat(sent, k)
<1> DEFINE stops == {i \in DOMAIN sent : sent[i].err}
           Least(i) == i \in stops /\ \A j \in stops : i <= j
           upto == IF stops = {} THEN Len(sent)
                   ELSE (CHOOSE i \in stops : \A j \in stops : i <= j) - 1
<1>1. Len(sent) \in Nat /\ DOMAIN sent = 1 .. Len(sent) /\ k \in Nat
  BY LenProperties DEF StreamType
<1>2. stops \in SUBSET Nat /\ \A i \in 1 .. Len(sent) : i \in stops <=> sent[i].err
  BY <1>1
<1>3. Wanted = Flat(sent, upto)
  BY DEF Wanted, Flat
<1>4. stops # {} => upto + 1 \in stops /\ \A j \in stops : upto + 1 <= j
  <2> SUFFICES ASSUME stops # {} PROVE upto + 1 \in stops /\ \A j \in stops : upto + 1 <= j
    OBVIOUS
  <2>1. Min(stops) \in stops /\ \A j \in stops : Min(stops) <= j
    <3> HIDE DEF stops
    <3> QED
      BY <1>2, MinNat
  <2>2. PICK i : i = CHOOSE x \in stops : \A j \in stops : x <= j
    OBVIOUS
  <2>3. i \in stops /\ \A j \in stops : i <= j
    <3> HIDE DEF stops
    <3> QED
      BY <2>1, <2>2
  <2>4. upto = i - 1 /\ i \in Nat
    <3> HIDE DEF stops
    <3> QED
      BY <1>2, <2>2, <2>3
  <2>5. upto + 1 = i
    <3> HIDE DEF stops, upto
    <3> QED
      BY <2>4
  <2> HIDE DEF stops, upto
  <2> QED
    BY <2>3, <2>5
<1>5. upto \in Int /\ (stops = {} => upto = Len(sent)) /\ \A j \in stops : j \in 1 .. Len(sent)
  <2>1. CASE stops = {}
    BY <1>1, <2>1
  <2>2. CASE stops # {}
    <3>1. PICK i : i = CHOOSE x \in stops : \A j \in stops : x <= j
      OBVIOUS
    <3>2. Min(stops) \in stops /\ \A j \in stops : Min(stops) <= j
      <4> HIDE DEF stops
      <4> QED
        BY <1>2, <2>2, MinNat
    <3>3. i \in stops
      <4> HIDE DEF stops
      <4> QED
        BY <3>1, <3>2
    <3>4. i \in Nat /\ upto = i - 1
      <4> HIDE DEF stops
      <4> QED
        BY <1>2, <2>2, <3>1, <3>3
    <3>5. \A j \in stops : j \in 1 .. Len(sent)
      BY <1>1
    <3> HIDE DEF stops, upto
    <3> QED
      BY <2>2, <3>4, <3>5
  <2> QED
    BY <2>1, <2>2
<1> HIDE DEF stops, upto
<1>a. PICK n \in Nat : n = Len(sent)
  BY <1>1
<1>6. upto \in k .. n
  <2>1. CASE stops = {}
    BY <1>5, <1>a, <2>1
  <2>2. CASE stops # {}
    <3>1. upto + 1 \in 1 .. n /\ sent[upto + 1].err
      BY <1>2, <1>4, <1>5, <1>a, <2>2
    <3>2. upto + 1 \notin 1 .. k
      BY <3>1 DEF Good
    <3>3. k \in Nat /\ upto \in Int
      BY <1>1, <1>5
    <3> QED
      BY <3>1, <3>2, <3>3
  <2> QED
    BY <2>1, <2>2
<1>7. \A i \in 1 .. upto : ~sent[i].err
  <2> SUFFICES ASSUME NEW i \in 1 .. upto PROVE ~sent[i].err
    OBVIOUS
  <2>1. i \in 1 .. Len(sent) /\ i <= upto /\ i \in Int
    BY <1>6, <1>a
  <2>2. i \notin stops
    BY <1>4, <1>5, <2>1
  <2> QED
    BY <1>2, <2>1, <2>2
<1>8. \A i \in 1 .. upto : sent[i].items \in Seq(Items)
  BY <1>1, <1>6, <1>a, <1>7, GoodItems DEF StreamType
<1>9. \E r \in Seq(Items) : Flat(sent, upto) = Cat(Flat(sent, k), r)
  <2>1. upto \in Nat /\ k <= upto
    BY <1>1, <1>6
  <2> QED
    BY <1>1, <1>8, <2>1, FlatGrows
<1>10. k = Len(sent) => upto = k
  <2>1. k = n => upto = k
    BY <1>6
  <2> QED
    BY <1>a, <2>1
<1> QED
  BY <1>3, <1>9, <1>10 DEF Cat

(* A stream's invariant says what CollectExact says of it. *)
LEMMA StreamImplies == StreamInv => CollectExact
<1> SUFFICES ASSUME StreamInv PROVE CollectExact
  OBVIOUS
<1>1. StreamType /\ Len(sent) \in Nat /\ DOMAIN sent = 1 .. Len(sent)
  BY LenProperties DEF StreamInv, StreamType
<1>2. PICK k \in 0 .. Len(sent) :
         /\ GotFirst(k)
         /\ outcome = "ok" =>
               \/ k = Len(sent)
               \/ k + 1 <= Len(sent) /\ ~sent[k + 1].err /\ sent[k + 1].items = <<>>
  <2>1. CASE outcome = "running"
    BY <2>1 DEF StreamInv, GotFirst
  <2>2. CASE outcome = "err"
    <3>1. PICK j \in 1 .. Len(sent) : GotFirst(j - 1)
      BY <2>2 DEF StreamInv
    <3> QED
      BY <1>1, <2>2, <3>1
  <2>3. CASE outcome = "ok" /\ GotFirst(Len(sent))
    <3>1. Len(sent) \in 0 .. Len(sent)
      BY <1>1
    <3> QED
      BY <2>3, <3>1
  <2>4. ASSUME NEW j \in 1 .. Len(sent), GotFirst(j - 1), ~sent[j].err, sent[j].items = <<>>
        PROVE  \E i \in 0 .. Len(sent) :
                  GotFirst(i) /\ i + 1 <= Len(sent) /\ ~sent[i + 1].err /\ sent[i + 1].items = <<>>
    <3>1. j - 1 \in 0 .. Len(sent) /\ (j - 1) + 1 = j /\ j <= Len(sent)
      BY <1>1
    <3> QED
      BY <2>4, <3>1
  <2> QED
    BY <1>1, <2>1, <2>2, <2>3, <2>4 DEF StreamInv, StreamType
<1>3. got \o current = Flat(sent, k) /\ \A i \in 1 .. k : Good(sent[i])
  BY <1>2 DEF GotFirst
<1>4. IsPrefix(got \o current, Wanted)
  <2>1. PICK a \in Seq(Items) : a = got \o current
    BY <1>1, ConcatProperties DEF StreamType
  <2>2. PICK r \in Seq(Items) : Wanted = a \o r
    BY <1>1, <1>2, <1>3, <2>1, WantedIs
  <2>3. Len(a) \in Nat /\ Len(r) \in Nat /\ Len(a \o r) = Len(a) + Len(r)
    BY ConcatProperties, LenProperties
  <2>4. SubSeq(a \o r, 1, Len(a)) = SubSeq(a, 1, Len(a))
    <3>1. CASE Len(a) = 0
      BY <3>1, SubSeqEmpty
    <3>2. CASE Len(a) # 0
      <4>1. 1 \in 1 .. Len(a) /\ Len(a) \in 1 .. Len(a)
        BY <2>3, <3>2
      <4> QED
        BY <4>1, SubSeqOfConcat1
    <3> QED
      BY <3>1, <3>2
  <2> QED
    BY <2>1, <2>2, <2>3, <2>4 DEF IsPrefix
<1>5. ASSUME outcome = "ok", NoEmptyBatch
      PROVE  got = Wanted /\ \A i \in DOMAIN sent : ~sent[i].err
  <2>1. k = Len(sent)
    <3>1. ASSUME k + 1 <= Len(sent), ~sent[k + 1].err, sent[k + 1].items = <<>> PROVE FALSE
      <4>1. k + 1 \in DOMAIN sent
        BY <1>1, <3>1
      <4> QED
        BY <1>5, <3>1, <4>1 DEF NoEmptyBatch
    <3> QED
      BY <1>2, <1>5, <3>1
  <2>2. Wanted = Flat(sent, k)
    BY <1>1, <1>3, <2>1, WantedIs
  <2>3. got \o current = got
    BY <1>1, <1>5, ConcatEmptySeq DEF StreamType
  <2>4. \A i \in DOMAIN sent : ~sent[i].err
    BY <1>1, <1>3, <2>1 DEF Good
  <2> QED
    BY <1>3, <2>2, <2>3, <2>4
<1> QED
  BY <1>4, <1>5 DEF CollectExact, CollectsAll

(* A collect over a BatchedStream has at every moment the items sent first,
   each once and in order, and where no batch is empty it answers Ok with all
   of them and never hides an error, for any batches, channel size and pace of
   the two tasks.                                                          *)
THEOREM CollectIsExact == StreamSpec => []CollectExact
<1>1. StreamInv => CollectExact
  BY StreamImplies
<1> QED
  BY <1>1, StreamStarts, StreamStep, PTL DEF StreamSpec

-------------------------------------------------------------------------------
(* The consistent hash ring. *)

Points(k) == UNION {RingPoints[i] : i \in 0 .. k - 1}

(* The first of the points P at or after h on the ring. *)
First(P, h) ==
    LET after == {p \in P : p >= h} IN IF after # {} THEN Min(after) ELSE Min(P)

(* f comes no later than p for a walk that starts at h. *)
Before(h, f, p) == IF f >= h THEN p < h \/ f <= p ELSE p < h /\ f <= p

LEMMA ShardNumbers ==
    /\ MaxShards \in Nat \ {0} /\ NumBits \in Nat \ {0} /\ NumHashes \in Nat \ {0}
    /\ HashSpace \in Nat \ {0} /\ CounterMax \in Nat \ {0}
  BY Zenon, ShardConstants

LEMMA PointsAre ==
    ASSUME NEW k \in 1 .. MaxShards
    PROVE  /\ Points(k) \in SUBSET Nat
           /\ \A i \in 0 .. k - 1 : RingPoints[i] \subseteq Points(k)
           /\ \A p \in Points(k) : \E i \in 0 .. k - 1 : p \in RingPoints[i]
<1>1. \A i \in 0 .. k - 1 : i \in 0 .. MaxShards - 1 /\ RingPoints[i] \in SUBSET Nat
  <2>1. RingPoints \in [0 .. MaxShards - 1 -> SUBSET Nat]
    BY ShardConstants
  <2> QED
    BY <2>1, ShardNumbers
<1> QED
  BY <1>1 DEF Points

LEMMA FirstIs ==
    ASSUME NEW P \in SUBSET Nat, P # {}, NEW h \in Nat
    PROVE  First(P, h) \in P /\ \A p \in P : Before(h, First(P, h), p)
<1> DEFINE after == {p \in P : p >= h}
<1>1. CASE after # {}
  <2>1. First(P, h) = Min(after)
    BY <1>1 DEF First
  <2>2. after \in SUBSET Nat
    OBVIOUS
  <2>3. Min(after) \in after /\ \A p \in after : Min(after) <= p
    <3> HIDE DEF after
    <3> QED
      BY <1>1, <2>2, MinNat
  <2> QED
    BY <2>1, <2>3 DEF Before
<1>2. CASE after = {}
  <2>1. First(P, h) = Min(P)
    BY <1>2 DEF First
  <2>2. Min(P) \in P /\ \A p \in P : Min(P) <= p
    BY MinNat
  <2>3. \A p \in P : p < h
    BY <1>2
  <2> QED
    BY <2>1, <2>2, <2>3 DEF Before
<1> QED
  BY <1>1, <1>2

(* Adding points does not change which of the old ones comes first. *)
LEMMA FirstStays ==
    ASSUME NEW P \in SUBSET Nat, NEW Q \in SUBSET Nat, P \subseteq Q, NEW h \in Nat,
           Q # {}, First(Q, h) \in P
    PROVE  First(P, h) = First(Q, h)
<1>1. First(Q, h) \in Nat /\ First(P, h) \in P /\ First(P, h) \in Nat
  BY FirstIs
<1>2. Before(h, First(Q, h), First(P, h))
  BY <1>1, FirstIs
<1>3. Before(h, First(P, h), First(Q, h))
  BY FirstIs
<1> QED
  BY <1>1, <1>2, <1>3 DEF Before

(* The last shard to claim a point owns it. *)
LEMMA OwnerIs ==
    ASSUME NEW k \in 1 .. MaxShards, NEW p \in Points(k)
    PROVE  /\ RingOf(k)[p] \in 0 .. k - 1 /\ p \in RingPoints[RingOf(k)[p]]
           /\ \A i \in 0 .. k - 1 : p \in RingPoints[i] => i <= RingOf(k)[p]
<1> DEFINE claims == {i \in 0 .. k - 1 : p \in RingPoints[i]}
<1>1. RingOf(k)[p] = Max(claims)
  BY DEF RingOf, Points
<1>2. k - 1 \in Nat /\ claims \in SUBSET (0 .. k - 1) /\ claims # {}
  BY PointsAre
<1>3. Max(claims) \in claims /\ \A i \in claims : i <= Max(claims)
  <2> HIDE DEF claims
  <2> QED
    BY <1>2, MaxNat
<1> QED
  BY <1>1, <1>3

LEMMA GetShardIs ==
    ASSUME NEW k \in 1 .. MaxShards, NEW id \in ShardIds
    PROVE  /\ Points(k) = {} => GetShard(id, k) = 0
           /\ Points(k) # {} => GetShard(id, k) = RingOf(k)[First(Points(k), RingHash[id])]
           /\ GetShard(id, k) \in 0 .. k - 1
<1>1. DOMAIN RingOf(k) = Points(k)
  BY DEF RingOf, Points
<1>2. Points(k) = {} => GetShard(id, k) = 0
  BY <1>1 DEF GetShard, RingNode
<1>3. Points(k) # {} => GetShard(id, k) = RingOf(k)[First(Points(k), RingHash[id])]
  <2>1. PICK ring : ring = RingOf(k)
    OBVIOUS
  <2>2. Points(k) # {} => RingNode(ring, id) = ring[First(Points(k), RingHash[id])]
    BY <1>1, <2>1 DEF RingNode, First
  <2> QED
    BY <2>1, <2>2 DEF GetShard
<1>4. GetShard(id, k) \in 0 .. k - 1
  <2>1. CASE Points(k) = {}
    BY <1>2, <2>1
  <2>2. CASE Points(k) # {}
    <3>1. First(Points(k), RingHash[id]) \in Points(k)
      BY <2>2, PointsAre, FirstIs, ShardConstants
    <3> QED
      BY <1>3, <2>2, <3>1, OwnerIs
  <2> QED
    BY <2>1, <2>2
<1> QED
  BY <1>2, <1>3, <1>4

(* Consistent hashing. *)
LEMMA RingStable ==
    ASSUME NEW n \in 1 .. MaxShards, NEW k \in 1 .. MaxShards, NEW id \in ShardIds,
           GetShard(id, n) < k
    PROVE  GetShard(id, k) = GetShard(id, n) \/ GetShard(id, k) >= n
<1> DEFINE h == RingHash[id]  s == GetShard(id, n)  t == GetShard(id, k)
<1>0. h \in Nat /\ n \in Nat /\ k \in Nat
  BY ShardConstants
<1>1. s \in 0 .. n - 1 /\ t \in 0 .. k - 1
  BY GetShardIs
<1>2. Points(n) \in SUBSET Nat /\ Points(k) \in SUBSET Nat
  BY PointsAre
<1>3. k <= n => Points(k) \subseteq Points(n)
  BY PointsAre
<1>4. n <= k => Points(n) \subseteq Points(k)
  BY PointsAre
<1> HIDE DEF h, s, t
<1>5. CASE Points(k) = {}
  <2>1. t = 0
    BY <1>5, GetShardIs DEF t
  <2>2. CASE Points(n) = {}
    BY <2>1, <2>2, GetShardIs DEF s, t
  <2>3. CASE Points(n) # {}
    <3>1. First(Points(n), h) \in Points(n)
      BY <1>0, <1>2, <2>3, FirstIs
    <3>2. s = RingOf(n)[First(Points(n), h)]
      BY <2>3, GetShardIs DEF s, h
    <3>3. First(Points(n), h) \in RingPoints[s]
      BY <3>1, <3>2, OwnerIs
    <3>4. s \in 0 .. k - 1
      BY <1>0, <1>1 DEF s
    <3> QED
      BY <1>5, <3>3, <3>4, PointsAre
  <2> QED
    BY <2>2, <2>3
<1>6. CASE Points(k) # {}
  <2>1. PICK q \in Points(k) : q = First(Points(k), h)
    BY <1>0, <1>2, <1>6, FirstIs
  <2>2. t = RingOf(k)[q]
    BY <1>6, <2>1, GetShardIs DEF t, h
  <2>3. /\ q \in RingPoints[t]
        /\ \A i \in 0 .. k - 1 : q \in RingPoints[i] => i <= t
    BY <2>2, OwnerIs
  <2>4. CASE Points(n) = {}
    <3>1. ~(t < n)
      <4> SUFFICES ASSUME t < n PROVE FALSE
        OBVIOUS
      <4>1. t \in 0 .. n - 1
        BY <1>0, <1>1
      <4> QED
        BY <2>3, <2>4, <4>1, PointsAre
    <3> QED
      BY <1>0, <1>1, <3>1 DEF t
  <2>5. CASE Points(n) # {}
    <3>1. PICK p \in Points(n) : p = First(Points(n), h)
      BY <1>0, <1>2, <2>5, FirstIs
    <3>2. s = RingOf(n)[p]
      BY <2>5, <3>1, GetShardIs DEF s, h
    <3>3. /\ p \in RingPoints[s]
          /\ \A i \in 0 .. n - 1 : p \in RingPoints[i] => i <= s
      BY <3>2, OwnerIs
    <3>4. s \in 0 .. k - 1
      BY <1>0, <1>1 DEF s
    <3>5. p \in Points(k)
      BY <3>3, <3>4, PointsAre
    <3>6. CASE k <= n
      <4>1. q = p
        BY <1>0, <1>2, <1>3, <2>1, <2>5, <3>1, <3>5, <3>6, FirstStays
      <4>2. t \in 0 .. n - 1
        BY <1>0, <1>1, <3>6
      <4>3. t <= s /\ s <= t
        BY <2>3, <3>3, <3>4, <4>1, <4>2
      <4> QED
        BY <1>0, <1>1, <4>3 DEF s, t
    <3>7. CASE n < k /\ t < n
      <4>1. t \in 0 .. n - 1
        BY <1>0, <1>1, <3>7
      <4>2. q \in Points(n)
        BY <2>3, <4>1, PointsAre
      <4>3. q = p
        <5>1. Points(n) \subseteq Points(k)
          BY <1>0, <1>4, <3>7
        <5> QED
          BY <1>0, <1>2, <1>6, <2>1, <3>1, <4>2, <5>1, FirstStays
      <4>4. t <= s /\ s <= t
        BY <2>3, <3>3, <3>4, <4>1, <4>3
      <4> QED
        BY <1>0, <1>1, <4>4 DEF s, t
    <3> QED
      BY <1>0, <1>1, <3>6, <3>7 DEF s, t
  <2> QED
    BY <2>4, <2>5
<1> QED
  BY <1>5, <1>6

-------------------------------------------------------------------------------
(* The counting filter.  A counter is the number of hash functions that point
   to it, over all items and all their inserts still to be removed.        *)

Marks(its, b) ==
    {m \in ShardIds \X Nat \X (0 .. NumHashes - 1) :
        m[2] \in 1 .. its[m[1]] /\ BitIndex(m[1], m[3]) = b}

(* The marks of one insert. *)
OneInsert(id, k, b) ==
    {m \in {id} \X {k} \X (0 .. NumHashes - 1) : BitIndex(id, m[3]) = b}

LEMMA BitIndexType ==
    ASSUME NEW id \in ShardIds, NEW i \in 0 .. NumHashes - 1
    PROVE  BitIndex(id, i) \in 0 .. NumBits - 1
<1>1. SipHash[id] \in (0 .. HashSpace - 1) \X (0 .. HashSpace - 1)
  BY ShardConstants
<1>2. PICK h \in Int, d \in Int : SipHash[id] = <<h, d>>
  BY <1>1
<1>3. BitIndex(id, i) = ((h + i * d) % HashSpace) % NumBits
  BY <1>2 DEF BitIndex
<1>4. PICK x \in Int : x = h + i * d
  OBVIOUS
<1>5. x % HashSpace \in Int
  BY ShardNumbers
<1>6. \A y \in Int : y % NumBits \in 0 .. NumBits - 1
  BY ShardNumbers
<1> QED
  BY <1>3, <1>4, <1>5, <1>6

LEMMA HitsIs ==
    ASSUME NEW id \in ShardIds, NEW b
    PROVE  /\ Hits(id, b) \in Nat
           /\ b \notin BitsOf(id) => Hits(id, b) = 0
           /\ \A k : IsFiniteSet(OneInsert(id, k, b)) /\ Cardinality(OneInsert(id, k, b)) = Hits(id, b)
<1> DEFINE S == {i \in 0 .. NumHashes - 1 : BitIndex(id, i) = b}
<1>1. IsFiniteSet(S) /\ Hits(id, b) = Cardinality(S)
  <2>1. IsFiniteSet(0 .. NumHashes - 1)
    BY FS_Interval, ShardNumbers
  <2> QED
    BY <2>1, FS_Subset DEF Hits
<1>2. Cardinality(S) \in Nat
  BY <1>1, FS_CardinalityType
<1>3. ASSUME b \notin BitsOf(id) PROVE S = {}
  BY <1>3 DEF BitsOf
<1>4. ASSUME NEW k
      PROVE  IsFiniteSet(OneInsert(id, k, b)) /\ Cardinality(OneInsert(id, k, b)) = Cardinality(S)
  <2> DEFINE f == [i \in S |-> <<id, k, i>>]
  <2>1. f \in Bijection(S, OneInsert(id, k, b))
    <3>1. \A i \in S : f[i] \in OneInsert(id, k, b)
      BY DEF OneInsert
    <3>2. \A i, j \in S : f[i] = f[j] => i = j
      OBVIOUS
    <3>3. \A m \in OneInsert(id, k, b) : \E i \in S : f[i] = m
      BY DEF OneInsert
    <3>4. f \in [S -> OneInsert(id, k, b)]
      BY <3>1
    <3> HIDE DEF f, S
    <3> QED
      BY <3>2, <3>3, <3>4 DEF Bijection, Injection, Surjection, IsInjective
  <2> HIDE DEF S
  <2> QED
    BY <1>1, <2>1, FS_Bijection DEF ExistsBijection
<1>5. Cardinality({}) = 0
  BY FS_EmptySet
<1> QED
  BY <1>1, <1>2, <1>3, <1>4, <1>5

LEMMA MarksGrow ==
    ASSUME NEW its \in [ShardIds -> Nat], NEW id \in ShardIds, NEW b, IsFiniteSet(Marks(its, b))
    PROVE  LET new == [its EXCEPT ![id] = @ + 1] IN
           /\ new \in [ShardIds -> Nat]
           /\ IsFiniteSet(Marks(new, b))
           /\ Cardinality(Marks(new, b)) = Cardinality(Marks(its, b)) + Hits(id, b)
<1> DEFINE new == [its EXCEPT ![id] = @ + 1]  k == its[id] + 1  O == OneInsert(id, k, b)
<1>0. k \in Nat /\ new \in [ShardIds -> Nat] /\ k \in 1 .. k
  OBVIOUS
<1>1. Marks(new, b) = Marks(its, b) \cup O
  <2>1. ASSUME NEW m \in ShardIds \X Nat \X (0 .. NumHashes - 1)
        PROVE  m \in Marks(new, b) <=> m \in Marks(its, b) \cup O
    <3>1. PICK x \in ShardIds, j \in Nat, i \in 0 .. NumHashes - 1 : m = <<x, j, i>>
      OBVIOUS
    <3>2. m \in O <=> x = id /\ j = k /\ BitIndex(x, i) = b
      BY <3>1 DEF OneInsert
    <3>3. m \in Marks(its, b) <=> j \in 1 .. its[x] /\ BitIndex(x, i) = b
      BY <3>1 DEF Marks
    <3>4. m \in Marks(new, b) <=> j \in 1 .. new[x] /\ BitIndex(x, i) = b
      BY <3>1 DEF Marks
    <3>5. j \in 1 .. new[x] <=> j \in 1 .. its[x] \/ (x = id /\ j = k)
      OBVIOUS
    <3> HIDE DEF new, k, O
    <3> QED
      BY <3>2, <3>3, <3>4, <3>5
  <2>2. Marks(new, b) \subseteq ShardIds \X Nat \X (0 .. NumHashes - 1)
    BY DEF Marks
  <2>3. Marks(its, b) \subseteq ShardIds \X Nat \X (0 .. NumHashes - 1)
    BY DEF Marks
  <2>4. O \subseteq ShardIds \X Nat \X (0 .. NumHashes - 1)
    BY <1>0 DEF OneInsert
  <2> HIDE DEF new, k, O
  <2> QED
    BY <2>1, <2>2, <2>3, <2>4
<1>2. Marks(its, b) \cap O = {}
  <2> SUFFICES ASSUME NEW m \in Marks(its, b), m \in O PROVE FALSE
    OBVIOUS
  <2>1. m[1] = id /\ m[2] = k
    BY DEF OneInsert
  <2>2. m[2] \in 1 .. its[m[1]]
    BY DEF Marks
  <2> QED
    BY <2>1, <2>2
<1>3. IsFiniteSet(O) /\ Cardinality(O) = Hits(id, b) /\ Hits(id, b) \in Nat
  BY HitsIs
<1>4. Cardinality(Marks(its, b)) \in Nat
  BY FS_CardinalityType
<1> HIDE DEF new, k, O
<1>5. /\ IsFiniteSet(Marks(its, b) \cup O)
      /\ Cardinality(Marks(its, b) \cup O) =
            Cardinality(Marks(its, b)) + Cardinality(O) - Cardinality(Marks(its, b) \cap O)
  BY <1>3, FS_Union
<1>6. Cardinality(Marks(its, b) \cap O) = 0
  BY <1>2, FS_EmptySet
<1>7. Cardinality(Marks(new, b)) = Cardinality(Marks(its, b)) + Hits(id, b)
  BY <1>1, <1>3, <1>4, <1>5, <1>6
<1> QED
  BY <1>0, <1>1, <1>5, <1>7 DEF new

LEMMA MarksShrink ==
    ASSUME NEW its \in [ShardIds -> Nat], NEW id \in ShardIds, its[id] > 0,
           NEW b, IsFiniteSet(Marks(its, b))
    PROVE  LET new == [its EXCEPT ![id] = IF @ > 0 THEN @ - 1 ELSE 0] IN
           /\ new \in [ShardIds -> Nat]
           /\ IsFiniteSet(Marks(new, b))
           /\ Cardinality(Marks(new, b)) + Hits(id, b) = Cardinality(Marks(its, b))
<1> DEFINE new == [its EXCEPT ![id] = IF @ > 0 THEN @ - 1 ELSE 0]  back == [new EXCEPT ![id] = @ + 1]
<1>0. new \in [ShardIds -> Nat]
  OBVIOUS
<1>1. back = its
  <2>1. \A x \in ShardIds : back[x] = its[x]
    OBVIOUS
  <2>2. back \in [ShardIds -> Nat]
    BY <1>0
  <2> HIDE DEF back
  <2> QED
    BY <2>1, <2>2
<1>2. Marks(new, b) \subseteq Marks(its, b)
  <2> SUFFICES ASSUME NEW m \in Marks(new, b) PROVE m \in Marks(its, b)
    OBVIOUS
  <2>1. m \in ShardIds \X Nat \X (0 .. NumHashes - 1) /\ m[2] \in 1 .. new[m[1]]
        /\ BitIndex(m[1], m[3]) = b
    BY DEF Marks
  <2>2. m[1] \in ShardIds /\ m[2] \in Nat
    BY <2>1
  <2>3. m[2] \in 1 .. its[m[1]]
    BY <2>1, <2>2
  <2> QED
    BY <2>1, <2>3 DEF Marks
<1>3. IsFiniteSet(Marks(new, b))
  BY <1>2, FS_Subset
<1> HIDE DEF new
<1>4. Cardinality(Marks(back, b)) = Cardinality(Marks(new, b)) + Hits(id, b)
  BY <1>0, <1>3, MarksGrow
<1>5. Cardinality(Marks(its, b)) = Cardinality(Marks(new, b)) + Hits(id, b)
  <2> HIDE DEF back
  <2> QED
    BY <1>1, <1>4
<1> QED
  BY <1>0, <1>3, <1>5 DEF new

(* An item that is in the filter has a mark on each of its counters. *)
LEMMA MarksSeen ==
    ASSUME NEW its \in [ShardIds -> Nat], NEW id \in ShardIds, its[id] > 0,
           NEW b \in BitsOf(id), IsFiniteSet(Marks(its, b))
    PROVE  Cardinality(Marks(its, b)) \in Nat \ {0}
<1>1. PICK i \in 0 .. NumHashes - 1 : b = BitIndex(id, i)
  BY DEF BitsOf
<1>2. <<id, 1, i>> \in Marks(its, b)
  BY <1>1 DEF Marks
<1> QED
  BY <1>2, FS_EmptySet, FS_CardinalityType

(* What the two halves of Min and Max are. *)
LEMMA MinMaxPair ==
    ASSUME NEW x \in Int, NEW y \in Int
    PROVE  /\ Min({x, y}) = IF x <= y THEN x ELSE y
           /\ Max({x, y}) = IF x >= y THEN x ELSE y
<1>1. \E z \in {x, y} : \A w \in {x, y} : z <= w
  OBVIOUS
<1>2. \E z \in {x, y} : \A w \in {x, y} : z >= w
  OBVIOUS
<1>3. Min({x, y}) \in {x, y} /\ \A w \in {x, y} : Min({x, y}) <= w
  BY <1>1 DEF Min
<1>4. Max({x, y}) \in {x, y} /\ \A w \in {x, y} : Max({x, y}) >= w
  BY <1>2 DEF Max
<1> QED
  BY <1>3, <1>4

(* CountingBloomFilter: no counter has stuck or sunk, so each counts its marks. *)
CountersOK ==
    /\ counters \in [0 .. NumBits - 1 -> 0 .. CounterMax] /\ items \in [ShardIds -> Nat]
    /\ muddied \in BOOLEAN
    /\ ~muddied => \A b \in 0 .. NumBits - 1 :
          IsFiniteSet(Marks(items, b)) /\ counters[b] = Cardinality(Marks(items, b))

LEMMA CountingStep ==
    ASSUME CountersOK, CountingSteps
    PROVE  CountersOK'
<1>0. \A b \in 0 .. NumBits - 1 : counters[b] \in 0 .. CounterMax
  BY DEF CountersOK
<1>1. ASSUME CountInsert PROVE CountersOK'
  <2>1. PICK id \in ShardIds :
           /\ counters' = CountingInsert(id) /\ items' = [items EXCEPT ![id] = @ + 1]
           /\ muddied' = (muddied \/ \E b \in BitsOf(id) : counters[b] + Hits(id, b) > CounterMax)
    BY <1>1 DEF CountInsert
  <2>2. \A b \in 0 .. NumBits - 1 :
           /\ counters'[b] = Min({CounterMax, counters[b] + Hits(id, b)})
           /\ Hits(id, b) \in Nat
    BY <2>1, HitsIs DEF CountingInsert, CountersOK
  <2>3. ASSUME NEW b \in 0 .. NumBits - 1
        PROVE  /\ counters'[b] \in 0 .. CounterMax
               /\ counters[b] + Hits(id, b) <= CounterMax => counters'[b] = counters[b] + Hits(id, b)
    <3>1. PICK c \in 0 .. CounterMax, h \in Nat : c = counters[b] /\ h = Hits(id, b)
      BY <1>0, <2>2
    <3>2. counters'[b] = Min({CounterMax, c + h})
      BY <2>2, <3>1
    <3>3. counters'[b] \in 0 .. CounterMax /\ (c + h <= CounterMax => counters'[b] = c + h)
      <4> QED
        BY <3>2, MinMaxPair, ShardNumbers
    <3> QED
      BY <3>1, <3>3
  <2>4. counters' \in [0 .. NumBits - 1 -> 0 .. CounterMax]
    <3>1. counters' = [b \in 0 .. NumBits - 1 |-> counters'[b]]
      BY <2>1 DEF CountingInsert, CountersOK
    <3> QED
      BY <2>3, <3>1
  <2>5. items' \in [ShardIds -> Nat] /\ muddied' \in BOOLEAN
    BY <2>1 DEF CountersOK
  <2>6. ASSUME ~muddied', NEW b \in 0 .. NumBits - 1
        PROVE  IsFiniteSet(Marks(items', b)) /\ counters'[b] = Cardinality(Marks(items', b))
    <3>1. ~muddied /\ items \in [ShardIds -> Nat]
      BY <2>1, <2>6 DEF CountersOK
    <3>2. IsFiniteSet(Marks(items, b)) /\ counters[b] = Cardinality(Marks(items, b))
      BY <3>1 DEF CountersOK
    <3>3. counters[b] + Hits(id, b) <= CounterMax
      <4>1. CASE b \in BitsOf(id)
        <5>1. ~(counters[b] + Hits(id, b) > CounterMax)
          BY <2>1, <2>6, <4>1
        <5>0. PICK x \in 0 .. CounterMax, h \in Nat : x = counters[b] /\ h = Hits(id, b)
          BY <1>0, <2>2
        <5>2. PICK c \in Int : c = counters[b] + Hits(id, b)
          BY <5>0
        <5>3. ~(c > CounterMax) => c <= CounterMax
          BY ShardNumbers
        <5> QED
          BY <5>1, <5>2, <5>3
      <4>2. CASE b \notin BitsOf(id)
        BY <1>0, <4>2, HitsIs, ShardNumbers
      <4> QED
        BY <4>1, <4>2
    <3>4. /\ IsFiniteSet(Marks(items', b))
          /\ Cardinality(Marks(items', b)) = Cardinality(Marks(items, b)) + Hits(id, b)
      BY <2>1, <3>1, <3>2, MarksGrow
    <3> QED
      BY <2>3, <3>2, <3>3, <3>4
  <2> QED
    BY <2>4, <2>5, <2>6 DEF CountersOK
<1>2. ASSUME CountRemove PROVE CountersOK'
  <2>1. PICK id \in ShardIds :
           /\ counters' = CountingRemove(id)
           /\ items' = [items EXCEPT ![id] = IF @ > 0 THEN @ - 1 ELSE 0]
           /\ muddied' = (muddied \/ items[id] = 0)
    BY <1>2 DEF CountRemove
  <2>2. \A b \in 0 .. NumBits - 1 :
           /\ counters'[b] = Max({0, counters[b] - Hits(id, b)})
           /\ Hits(id, b) \in Nat
    BY <2>1, HitsIs DEF CountingRemove, CountersOK
  <2>3. ASSUME NEW b \in 0 .. NumBits - 1
        PROVE  /\ counters'[b] \in 0 .. CounterMax
               /\ counters[b] >= Hits(id, b) => counters'[b] = counters[b] - Hits(id, b)
    <3>1. PICK c \in 0 .. CounterMax, h \in Nat : c = counters[b] /\ h = Hits(id, b)
      BY <1>0, <2>2
    <3>2. counters'[b] = Max({0, c - h})
      BY <2>2, <3>1
    <3>3. counters'[b] \in 0 .. CounterMax /\ (c >= h => counters'[b] = c - h)
      <4>1. c - h \in Int /\ c - h <= CounterMax /\ CounterMax \in Nat /\ 0 \in Int
        BY ShardNumbers
      <4>2. Max({0, c - h}) = IF 0 >= c - h THEN 0 ELSE c - h
        BY <4>1, MinMaxPair
      <4> QED
        BY <3>2, <4>1, <4>2
    <3> QED
      BY <3>1, <3>3
  <2>4. counters' \in [0 .. NumBits - 1 -> 0 .. CounterMax]
    <3>1. counters' = [b \in 0 .. NumBits - 1 |-> counters'[b]]
      BY <2>1 DEF CountingRemove, CountersOK
    <3> QED
      BY <2>3, <3>1
  <2>5. items' \in [ShardIds -> Nat] /\ muddied' \in BOOLEAN
    BY <2>1 DEF CountersOK
  <2>6. ASSUME ~muddied', NEW b \in 0 .. NumBits - 1
        PROVE  IsFiniteSet(Marks(items', b)) /\ counters'[b] = Cardinality(Marks(items', b))
    <3>0. ~muddied /\ items[id] # 0 /\ items \in [ShardIds -> Nat]
      BY <2>1, <2>6 DEF CountersOK
    <3>1. ~muddied /\ items \in [ShardIds -> Nat] /\ items[id] > 0
      BY <3>0
    <3>2. IsFiniteSet(Marks(items, b)) /\ counters[b] = Cardinality(Marks(items, b))
      BY <3>1 DEF CountersOK
    <3>3. /\ IsFiniteSet(Marks(items', b))
          /\ Cardinality(Marks(items', b)) + Hits(id, b) = Cardinality(Marks(items, b))
      BY <2>1, <3>1, <3>2, MarksShrink
    <3>4. Cardinality(Marks(items', b)) \in Nat
      BY <3>3, FS_CardinalityType
    <3>5. PICK m \in Nat, h \in Nat : m = Cardinality(Marks(items', b)) /\ h = Hits(id, b)
      BY <2>2, <3>4
    <3>6. counters[b] = m + h
      BY <3>2, <3>3, <3>5
    <3>7. counters[b] >= h /\ counters[b] - h = m
      BY <3>6
    <3> QED
      BY <2>3, <3>3, <3>5, <3>7
  <2> QED
    BY <2>4, <2>5, <2>6 DEF CountersOK
<1> QED
  BY <1>1, <1>2 DEF CountingSteps

-------------------------------------------------------------------------------
(* SumFunction of a bounded function on 0 .. k - 1, as a number of pairs. *)

Pairs(f, u) == {q \in u \X Nat : q[2] \in 1 .. f[q[1]]}

LEMMA PairsFinite ==
    ASSUME NEW k \in Nat, NEW m \in Nat, NEW f \in [0 .. k - 1 -> 0 .. m], NEW u \in SUBSET (0 .. k - 1)
    PROVE  IsFiniteSet(Pairs(f, u)) /\ Cardinality(Pairs(f, u)) \in Nat
<1>1. IsFiniteSet(0 .. k - 1) /\ IsFiniteSet(1 .. m)
  BY FS_Interval
<1>2. IsFiniteSet((0 .. k - 1) \X (1 .. m))
  BY <1>1, FS_Product
<1>3. Pairs(f, u) \subseteq (0 .. k - 1) \X (1 .. m)
  <2> SUFFICES ASSUME NEW q \in Pairs(f, u) PROVE q \in (0 .. k - 1) \X (1 .. m)
    OBVIOUS
  <2>1. q \in u \X Nat /\ q[2] \in 1 .. f[q[1]]
    BY DEF Pairs
  <2>2. q[1] \in 0 .. k - 1 /\ f[q[1]] \in 0 .. m
    BY <2>1
  <2>3. q[2] \in 1 .. m
    BY <2>1, <2>2
  <2> QED
    BY <2>1, <2>2, <2>3
<1>4. IsFiniteSet(Pairs(f, u))
  BY <1>2, <1>3, FS_Subset
<1> QED
  BY <1>4, FS_CardinalityType

LEMMA PairsStep ==
    ASSUME NEW k \in Nat, NEW m \in Nat, NEW f \in [0 .. k - 1 -> 0 .. m],
           NEW u \in SUBSET (0 .. k - 1), NEW x \in u
    PROVE  Cardinality(Pairs(f, u)) = f[x] + Cardinality(Pairs(f, u \ {x}))
<1> DEFINE v == u \ {x}  one == {x} \X (1 .. f[x])
<1>0. f[x] \in 0 .. m /\ x \in 0 .. k - 1
  OBVIOUS
<1>1. Pairs(f, u) = Pairs(f, v) \cup one
  <2>1. ASSUME NEW q \in u \X Nat
        PROVE  q \in Pairs(f, u) <=> q \in Pairs(f, v) \cup one
    <3>1. PICK y \in u, j \in Nat : q = <<y, j>>
      <4>1. q[1] \in u /\ q[2] \in Nat /\ q = <<q[1], q[2]>>
        OBVIOUS
      <4> QED
        BY <4>1
    <3>2. q \in Pairs(f, u) <=> j \in 1 .. f[y]
      BY <3>1 DEF Pairs
    <3>3. q \in Pairs(f, v) <=> y # x /\ j \in 1 .. f[y]
      BY <3>1 DEF Pairs
    <3>4. q \in one <=> y = x /\ j \in 1 .. f[x]
      BY <3>1
    <3> HIDE DEF v, one
    <3> QED
      BY <3>2, <3>3, <3>4
  <2>2. Pairs(f, u) \subseteq u \X Nat /\ Pairs(f, v) \subseteq u \X Nat
    BY DEF Pairs
  <2>3. one \subseteq u \X Nat
    OBVIOUS
  <2> HIDE DEF v, one
  <2> QED
    BY <2>1, <2>2, <2>3
<1>2. Pairs(f, v) \cap one = {}
  BY DEF Pairs
<1>3. IsFiniteSet(one) /\ Cardinality(one) = f[x]
  <2>1. IsFiniteSet(1 .. f[x]) /\ Cardinality(1 .. f[x]) = f[x]
    BY <1>0, FS_Interval
  <2>2. IsFiniteSet({x}) /\ Cardinality({x}) = 1
    BY FS_Singleton
  <2>3. IsFiniteSet(one) /\ Cardinality(one) = 1 * f[x]
    BY <2>1, <2>2, FS_Product
  <2> QED
    BY <1>0, <2>3
<1>4. IsFiniteSet(Pairs(f, v)) /\ Cardinality(Pairs(f, v)) \in Nat
  BY PairsFinite
<1> HIDE DEF v, one
<1>5. Cardinality(Pairs(f, v) \cup one) = Cardinality(Pairs(f, v)) + Cardinality(one)
                                           - Cardinality(Pairs(f, v) \cap one)
  BY <1>3, <1>4, FS_Union
<1>6. Cardinality(Pairs(f, v) \cap one) = 0
  BY <1>2, FS_EmptySet
<1>7. Cardinality(Pairs(f, u)) = f[x] + Cardinality(Pairs(f, v))
  BY <1>0, <1>1, <1>3, <1>4, <1>5, <1>6
<1> QED
  BY <1>7 DEF v

LEMMA SumIs ==
    ASSUME NEW k \in Nat, NEW m \in Nat, NEW f \in [0 .. k - 1 -> 0 .. m]
    PROVE  SumFunction(f) = Cardinality(Pairs(f, 0 .. k - 1))
<1> DEFINE D == 0 .. k - 1
           Chosen(u) == CHOOSE x \in u : TRUE
           Entry(g, u) == IF u = {} THEN 0 ELSE f[Chosen(u)] + g[u \ {Chosen(u)}]
           Rec(g) == g = [u \in SUBSET D |-> Entry(g, u)]
           C == [u \in SUBSET D |-> Cardinality(Pairs(f, u))]
<1>0. \A u : u # {} => Chosen(u) \in u
  OBVIOUS
<1>1. Cardinality(Pairs(f, {})) = 0
  <2>1. Pairs(f, {}) = {}
    BY DEF Pairs
  <2> QED
    BY <2>1, FS_EmptySet
<1>a. \A u \in SUBSET D : \A x \in u :
          Cardinality(Pairs(f, u)) = f[x] + Cardinality(Pairs(f, u \ {x}))
  BY PairsStep
<1>2. ASSUME NEW u \in SUBSET D, u # {}
      PROVE  Cardinality(Pairs(f, u)) = f[Chosen(u)] + Cardinality(Pairs(f, u \ {Chosen(u)}))
  <2>1. Chosen(u) \in u
    BY <1>0, <1>2
  <2> HIDE DEF Chosen
  <2> QED
    BY <1>a, <2>1
<1>3. Rec(C)
  <2>1. ASSUME NEW u \in SUBSET D PROVE Cardinality(Pairs(f, u)) = Entry(C, u)
    <3>1. CASE u = {}
      BY <1>1, <3>1
    <3>2. CASE u # {}
      <4>1. C[u \ {Chosen(u)}] = Cardinality(Pairs(f, u \ {Chosen(u)}))
        <5> HIDE DEF Chosen
        <5> QED
          OBVIOUS
      <4> HIDE DEF C, Chosen
      <4> QED
        BY <1>2, <3>2, <4>1
    <3> QED
      BY <3>1, <3>2
  <2> HIDE DEF Entry
  <2> QED
    BY <2>1
<1>4. PICK g : Rec(g) /\ SumFunction(f) = g[D]
  <2> DEFINE iter == CHOOSE g : Rec(g)
  <2>1. Rec(iter)
    <3> HIDE DEF Rec, C
    <3> QED
      BY <1>3
  <2>2. DOMAIN f = D
    OBVIOUS
  <2>3. SumFunction(f) = iter[D]
    BY <2>2 DEF SumFunction, SumFunctionOnSet, FoldFunctionOnSet, MapThenFoldSet
  <2> HIDE DEF iter, Rec
  <2> QED
    BY <2>1, <2>3
<1>5. \A u \in SUBSET D : g[u] = Entry(g, u)
  <2> HIDE DEF Entry
  <2> QED
    BY <1>4
<1> DEFINE S == {c \in Nat : \A u \in SUBSET D : Cardinality(u) = c => g[u] = Cardinality(Pairs(f, u))}
<1>6. \A u \in SUBSET D : IsFiniteSet(u)
  <2>1. IsFiniteSet(D)
    BY FS_Interval
  <2> QED
    BY <2>1, FS_Subset
<1>7. 0 \in S
  <2>1. \A u \in SUBSET D : Cardinality(u) = 0 => u = {}
    BY <1>6, FS_EmptySet
  <2>2. g[{}] = 0
    BY <1>5
  <2> QED
    BY <1>1, <2>1, <2>2
<1>8. ASSUME NEW c \in Nat, c \in S PROVE c + 1 \in S
  <2> SUFFICES ASSUME NEW u \in SUBSET D, Cardinality(u) = c + 1
               PROVE  g[u] = Cardinality(Pairs(f, u))
    OBVIOUS
  <2>1. u # {}
    BY FS_EmptySet
  <2>2. PICK x \in u : x = Chosen(u)
    BY <1>0, <2>1
  <2>3. Cardinality(u \ {x}) = c /\ u \ {x} \in SUBSET D
    <3>1. Cardinality(u \ {x}) = Cardinality(u) - 1
      BY <1>6, FS_RemoveElement
    <3> QED
      BY <3>1
  <2>4. g[u \ {x}] = Cardinality(Pairs(f, u \ {x}))
    BY <1>8, <2>3
  <2>5. g[u] = f[x] + g[u \ {x}]
    <3> HIDE DEF Chosen
    <3> QED
      BY <1>5, <2>1, <2>2
  <2> QED
    BY <1>a, <2>4, <2>5
<1>9. \A c \in Nat : c \in S
  <2> HIDE DEF S
  <2> QED
    BY <1>7, <1>8, Inductive
<1>10. Cardinality(D) \in Nat /\ D \in SUBSET D
  BY <1>6, FS_CardinalityType
<1> HIDE DEF D
<1>11. g[D] = Cardinality(Pairs(f, D))
  BY <1>9, <1>10
<1> QED
  BY <1>4, <1>11 DEF D

-------------------------------------------------------------------------------
(* The manager: an insert in flight is on its id's shard of the open ring, the
   filter of that shard has its bits, and a home is a shard of some ring.  *)

CallOK(c) ==
    scall[c].op = "insert" =>
        /\ scall[c].id \in ShardIds /\ scall[c].shard \in 0 .. numShards - 1
        /\ scall[c].id \notin ShardEdges => scall[c].shard = GetShard(scall[c].id, numShards)

HomeOK(id) == id \in ShardIds /\ \E n \in 1 .. MaxShards : homes[id] = <<GetShard(id, n), n>>

FilterOK(id) == id \in ShardIds /\ BitsOf(id) \subseteq bloom[GetShard(id, numShards)]

ShardInv ==
    /\ numShards \in 1 .. MaxShards
    /\ rows \in [0 .. MaxShards - 1 -> SUBSET ShardIds]
    /\ \A s \in 0 .. MaxShards - 1 : IsFiniteSet(rows[s])
    /\ bloom = [s \in 0 .. MaxShards - 1 |-> bloom[s]]
    /\ scall = [c \in ShardCalls |-> scall[c]]
    /\ \A c \in ShardCalls : CallOK(c)
    /\ \A id \in DOMAIN homes \ ShardEdges : HomeOK(id)
    /\ \A id \in added \ ShardEdges : FilterOK(id)
    /\ CountersOK

LEMMA NoCallIs == NoCall.op = "none"
  BY DEF NoCall

LEMMA ShardStart == ShardInit => ShardInv
<1> SUFFICES ASSUME ShardInit PROVE ShardInv
  OBVIOUS
<1>1. /\ numShards = MaxShards /\ rows = [s \in 0 .. MaxShards - 1 |-> {}]
      /\ bloom = [s \in 0 .. MaxShards - 1 |-> {}] /\ scall = [c \in ShardCalls |-> NoCall]
      /\ counters = [b \in 0 .. NumBits - 1 |-> 0] /\ homes = <<>> /\ added = {}
      /\ items = [id \in ShardIds |-> 0] /\ muddied = FALSE
  BY DEF ShardInit
<1>2. numShards \in 1 .. MaxShards
  BY <1>1, ShardNumbers
<1>3. \A c \in ShardCalls : CallOK(c)
  BY <1>1, NoCallIs DEF CallOK
<1>4. \A b : Marks(items, b) = {}
  BY <1>1 DEF Marks
<1>5. IsFiniteSet({}) /\ Cardinality({}) = 0
  BY FS_EmptySet
<1>6. CountersOK
  BY <1>1, <1>4, <1>5, ShardNumbers DEF CountersOK
<1>7. DOMAIN homes = {}
  BY <1>1
<1> QED
  BY <1>1, <1>2, <1>3, <1>5, <1>6, <1>7 DEF ShardInv

LEMMA CountersRest ==
    ASSUME CountersOK, UNCHANGED countingVars
    PROVE  CountersOK'
  BY DEF CountersOK, countingVars

LEMMA InsertFilterStep ==
    ASSUME ShardInv, NEW c \in ShardCalls, InsertFilter(c)
    PROVE  ShardInv'
<1>1. PICK id \in ShardIds, src \in ShardIds :
         /\ id \in ShardEdges \/ src = id
         /\ LET s == GetShard(src, numShards) IN
            /\ bloom' = [bloom EXCEPT ![s] = BloomInsert(@, id)]
            /\ scall' = [scall EXCEPT ![c] = [op |-> "insert", id |-> id, shard |-> s]]
         /\ added' = added \cup {id}
  <2>1. PICK id \in ShardIds : \E src \in (IF id \in ShardEdges THEN ShardIds \ ShardEdges ELSE {id}) :
           LET s == GetShard(src, numShards) IN
           /\ bloom' = [bloom EXCEPT ![s] = BloomInsert(@, id)]
           /\ scall' = [scall EXCEPT ![c] = [op |-> "insert", id |-> id, shard |-> s]]
           /\ added' = added \cup {id}
    BY DEF InsertFilter
  <2> QED
    BY <2>1
<1>2. numShards' = numShards /\ rows' = rows /\ homes' = homes /\ UNCHANGED countingVars
  BY DEF InsertFilter
<1>3. PICK s : s = GetShard(src, numShards)
  OBVIOUS
<1>4. s \in 0 .. numShards - 1 /\ s \in 0 .. MaxShards - 1
  BY <1>3, GetShardIs, ShardNumbers DEF ShardInv
<1>5. /\ bloom' = [bloom EXCEPT ![s] = BloomInsert(bloom[s], id)]
      /\ scall' = [scall EXCEPT ![c] = [op |-> "insert", id |-> id, shard |-> s]]
  BY <1>1, <1>3
<1>6. bloom' = [t \in 0 .. MaxShards - 1 |-> bloom'[t]] /\ scall' = [d \in ShardCalls |-> scall'[d]]
  BY <1>5 DEF ShardInv
<1>7. ASSUME NEW d \in ShardCalls PROVE CallOK(d)'
  <2>1. CASE d = c
    <3>1. scall'[d] = [op |-> "insert", id |-> id, shard |-> s]
      BY <1>5, <2>1 DEF ShardInv
    <3>2. scall'[d].id = id /\ scall'[d].shard = s
      BY <3>1
    <3> QED
      BY <1>1, <1>2, <1>3, <1>4, <3>2 DEF CallOK
  <2>2. CASE d # c
    <3>1. scall'[d] = scall[d] /\ CallOK(d)
      BY <1>5, <2>2 DEF ShardInv
    <3> QED
      BY <1>2, <3>1 DEF CallOK
  <2> QED
    BY <2>1, <2>2
<1>8. ASSUME NEW j \in added' \ ShardEdges PROVE FilterOK(j)'
  <2>1. \A t \in 0 .. MaxShards - 1 : bloom[t] \subseteq bloom'[t]
    BY <1>5 DEF ShardInv, BloomInsert
  <2>2. CASE j \in added
    <3>1. FilterOK(j)
      BY <2>2 DEF ShardInv
    <3>2. GetShard(j, numShards) \in 0 .. MaxShards - 1
      BY <3>1, GetShardIs, ShardNumbers DEF ShardInv, FilterOK
    <3> QED
      BY <1>2, <2>1, <3>1, <3>2 DEF FilterOK
  <2>3. CASE j = id
    <3>1. src = id /\ BitsOf(id) \subseteq bloom'[s]
      BY <1>1, <1>4, <1>5, <2>3 DEF ShardInv, BloomInsert
    <3> QED
      BY <1>2, <1>3, <2>3, <3>1 DEF FilterOK
  <2> QED
    BY <1>1, <2>2, <2>3
<1>9. \A j \in DOMAIN homes' \ ShardEdges : HomeOK(j)'
  BY <1>2 DEF ShardInv, HomeOK
<1>10. CountersOK'
  BY <1>2, CountersRest DEF ShardInv
<1>11. /\ numShards' \in 1 .. MaxShards /\ rows' \in [0 .. MaxShards - 1 -> SUBSET ShardIds]
       /\ \A t \in 0 .. MaxShards - 1 : IsFiniteSet(rows'[t])
  BY <1>2 DEF ShardInv
<1> QED
  BY <1>6, <1>7, <1>8, <1>9, <1>10, <1>11 DEF ShardInv

(* A step that moves no ring, filter or home. *)
LEMMA ShardRest ==
    ASSUME ShardInv, numShards' = numShards, bloom' = bloom, added' = added,
           scall' = [c \in ShardCalls |-> scall'[c]],
           \A c \in ShardCalls : scall'[c] = scall[c] \/ scall'[c].op # "insert"
    PROVE  /\ \A c \in ShardCalls : CallOK(c)'
           /\ \A id \in added' \ ShardEdges : FilterOK(id)'
<1>1. ASSUME NEW c \in ShardCalls PROVE CallOK(c)'
  <2>1. CallOK(c)
    BY DEF ShardInv
  <2> QED
    BY <2>1 DEF CallOK
<1>2. \A id \in added' \ ShardEdges : FilterOK(id)'
  BY DEF ShardInv, FilterOK
<1> QED
  BY <1>1, <1>2

LEMMA InsertRowStep ==
    ASSUME ShardInv, NEW c \in ShardCalls, InsertRow(c)
    PROVE  ShardInv'
<1>1. PICK id, s : id = scall[c].id /\ s = scall[c].shard
  OBVIOUS
<1>2. /\ scall[c].op = "insert" /\ rows' = [rows EXCEPT ![s] = @ \cup {id}]
      /\ homes' = [i \in DOMAIN homes \cup {id} |-> IF i = id THEN <<s, numShards>> ELSE homes[i]]
      /\ scall' = [scall EXCEPT ![c] = NoCall] /\ numShards' = numShards /\ bloom' = bloom
      /\ added' = added /\ UNCHANGED countingVars
  BY <1>1 DEF InsertRow
<1>3. /\ id \in ShardIds /\ s \in 0 .. numShards - 1
      /\ id \notin ShardEdges => s = GetShard(id, numShards)
  BY <1>1, <1>2 DEF ShardInv, CallOK
<1>4. s \in 0 .. MaxShards - 1 /\ numShards \in 1 .. MaxShards
  BY <1>3, ShardNumbers DEF ShardInv
<1>5. scall' = [d \in ShardCalls |-> scall'[d]]
      /\ \A d \in ShardCalls : scall'[d] = scall[d] \/ scall'[d].op # "insert"
  BY <1>2, NoCallIs DEF ShardInv
<1>6. rows' \in [0 .. MaxShards - 1 -> SUBSET ShardIds]
  BY <1>2, <1>3, <1>4 DEF ShardInv
<1>7. ASSUME NEW t \in 0 .. MaxShards - 1 PROVE IsFiniteSet(rows'[t])
  <2>1. IsFiniteSet(rows[t])
    BY DEF ShardInv
  <2>2. IsFiniteSet(rows[t] \cup {id})
    BY <2>1, FS_AddElement
  <2>3. rows'[t] = IF t = s THEN rows[t] \cup {id} ELSE rows[t]
    BY <1>2, <1>4 DEF ShardInv
  <2> QED
    BY <2>1, <2>2, <2>3
<1>8. ASSUME NEW j \in DOMAIN homes' \ ShardEdges PROVE HomeOK(j)'
  <2>1. CASE j = id
    <3>1. homes'[j] = <<GetShard(j, numShards), numShards>>
      BY <1>2, <1>3, <2>1
    <3> QED
      BY <1>3, <1>4, <2>1, <3>1 DEF HomeOK
  <2>2. CASE j # id
    <3>1. j \in DOMAIN homes \ ShardEdges /\ homes'[j] = homes[j]
      BY <1>2, <2>2
    <3>2. HomeOK(j)
      BY <3>1 DEF ShardInv
    <3> QED
      BY <3>1, <3>2 DEF HomeOK
  <2> QED
    BY <2>1, <2>2
<1>9. /\ \A d \in ShardCalls : CallOK(d)'
      /\ \A j \in added' \ ShardEdges : FilterOK(j)'
  BY <1>2, <1>5, ShardRest
<1>10. CountersOK'
  BY <1>2, CountersRest DEF ShardInv
<1>11. numShards' \in 1 .. MaxShards /\ bloom' = [t \in 0 .. MaxShards - 1 |-> bloom'[t]]
  BY <1>2, <1>4 DEF ShardInv
<1> QED
  BY <1>5, <1>6, <1>7, <1>8, <1>9, <1>10, <1>11 DEF ShardInv

LEMMA ReadStep ==
    ASSUME ShardInv, NEW c \in ShardCalls, GetFilter(c) \/ GetRow(c)
    PROVE  ShardInv'
<1>1. /\ numShards' = numShards /\ rows' = rows /\ bloom' = bloom /\ homes' = homes
      /\ added' = added /\ UNCHANGED countingVars
  BY DEF GetFilter, GetRow
<1>2. PICK x : scall' = [scall EXCEPT ![c] = x] /\ x.op # "insert"
  <2>1. CASE GetRow(c)
    BY <2>1, NoCallIs DEF GetRow
  <2>2. CASE GetFilter(c)
    <3>1. PICK id, s : scall' = [scall EXCEPT ![c] = [op |-> "get", id |-> id, shard |-> s]]
      BY <2>2 DEF GetFilter
    <3>2. PICK x : x = [op |-> "get", id |-> id, shard |-> s]
      OBVIOUS
    <3>3. x.op = "get"
      BY <3>2
    <3> QED
      BY <3>1, <3>2, <3>3
  <2> QED
    BY <2>1, <2>2
<1>3. scall' = [d \in ShardCalls |-> scall'[d]]
      /\ \A d \in ShardCalls : scall'[d] = scall[d] \/ scall'[d].op # "insert"
  BY <1>2 DEF ShardInv
<1>4. /\ \A d \in ShardCalls : CallOK(d)'
      /\ \A j \in added' \ ShardEdges : FilterOK(j)'
  BY <1>1, <1>3, ShardRest
<1>5. CountersOK'
  BY <1>1, CountersRest DEF ShardInv
<1>6. \A j \in DOMAIN homes' \ ShardEdges : HomeOK(j)'
  BY <1>1 DEF ShardInv, HomeOK
<1>7. /\ numShards' \in 1 .. MaxShards /\ rows' \in [0 .. MaxShards - 1 -> SUBSET ShardIds]
      /\ \A t \in 0 .. MaxShards - 1 : IsFiniteSet(rows'[t])
      /\ bloom' = [t \in 0 .. MaxShards - 1 |-> bloom'[t]]
  BY <1>1 DEF ShardInv
<1> QED
  BY <1>3, <1>4, <1>5, <1>6, <1>7 DEF ShardInv

LEMMA DeleteStep ==
    ASSUME ShardInv, NEW c \in ShardCalls, DeleteRow(c)
    PROVE  ShardInv'
<1>1. PICK id \in ShardIds : rows' = [rows EXCEPT ![GetShard(id, numShards)] = @ \ {id}]
  BY DEF DeleteRow
<1>2. /\ numShards' = numShards /\ bloom' = bloom /\ homes' = homes /\ scall' = scall
      /\ added' = added /\ UNCHANGED countingVars
  BY DEF DeleteRow
<1>3. PICK s : s = GetShard(id, numShards)
  OBVIOUS
<1>4. rows' = [rows EXCEPT ![s] = rows[s] \ {id}] /\ s \in 0 .. MaxShards - 1
  <2>1. s \in 0 .. numShards - 1
    BY <1>3, GetShardIs DEF ShardInv
  <2> QED
    BY <1>1, <1>3, <2>1, ShardNumbers DEF ShardInv
<1>5. rows' \in [0 .. MaxShards - 1 -> SUBSET ShardIds]
  BY <1>4 DEF ShardInv
<1>6. ASSUME NEW t \in 0 .. MaxShards - 1 PROVE IsFiniteSet(rows'[t])
  <2>1. IsFiniteSet(rows[t])
    BY DEF ShardInv
  <2>2. IsFiniteSet(rows[t] \ {id})
    BY <2>1, FS_RemoveElement
  <2>3. rows'[t] = IF t = s THEN rows[t] \ {id} ELSE rows[t]
    BY <1>4 DEF ShardInv
  <2> QED
    BY <2>1, <2>2, <2>3
<1>7. /\ \A d \in ShardCalls : CallOK(d)'
      /\ \A j \in added' \ ShardEdges : FilterOK(j)'
  BY <1>2 DEF ShardInv, CallOK, FilterOK
<1>8. CountersOK'
  BY <1>2, CountersRest DEF ShardInv
<1>9. \A j \in DOMAIN homes' \ ShardEdges : HomeOK(j)'
  BY <1>2 DEF ShardInv, HomeOK
<1>10. /\ numShards' \in 1 .. MaxShards /\ bloom' = [t \in 0 .. MaxShards - 1 |-> bloom'[t]]
       /\ scall' = [d \in ShardCalls |-> scall'[d]]
  BY <1>2 DEF ShardInv
<1> QED
  BY <1>5, <1>6, <1>7, <1>8, <1>9, <1>10 DEF ShardInv

LEMMA OpenStep ==
    ASSUME ShardInv, OpenShards
    PROVE  ShardInv'
<1>1. /\ numShards' \in 1 .. MaxShards /\ bloom' = [s \in 0 .. MaxShards - 1 |-> {}]
      /\ scall' = [c \in ShardCalls |-> NoCall] /\ added' = {}
      /\ rows' = rows /\ homes' = homes /\ UNCHANGED countingVars
  BY DEF OpenShards
<1>2. CountersOK'
  BY <1>1, CountersRest DEF ShardInv
<1>3. \A c \in ShardCalls : CallOK(c)'
  BY <1>1, NoCallIs DEF CallOK
<1>4. \A j \in DOMAIN homes' \ ShardEdges : HomeOK(j)'
  BY <1>1 DEF ShardInv, HomeOK
<1>5. /\ rows' \in [0 .. MaxShards - 1 -> SUBSET ShardIds]
      /\ \A t \in 0 .. MaxShards - 1 : IsFiniteSet(rows'[t])
      /\ bloom' = [t \in 0 .. MaxShards - 1 |-> bloom'[t]]
      /\ scall' = [d \in ShardCalls |-> scall'[d]]
  BY <1>1 DEF ShardInv
<1> QED
  BY <1>1, <1>2, <1>3, <1>4, <1>5 DEF ShardInv

LEMMA ShardStep == ShardInv /\ [ShardNext]_shardVars => ShardInv'
<1> SUFFICES ASSUME ShardInv, [ShardNext]_shardVars PROVE ShardInv'
  OBVIOUS
<1>1. CASE ShardSteps
  BY <1>1, InsertFilterStep, InsertRowStep, ReadStep, DeleteStep, OpenStep DEF ShardSteps
<1>2. CASE CountingSteps
  <2>1. /\ numShards' = numShards /\ rows' = rows /\ bloom' = bloom /\ scall' = scall
        /\ homes' = homes /\ added' = added
    BY <1>2 DEF CountingSteps, CountInsert, CountRemove
  <2>2. CountersOK'
    BY <1>2, CountingStep DEF ShardInv
  <2> QED
    BY <2>1, <2>2 DEF ShardInv, CallOK, HomeOK, FilterOK
<1>3. CASE UNCHANGED shardVars
  <2>1. CountersOK'
    BY <1>3, CountersRest DEF ShardInv, shardVars, countingVars
  <2> QED
    BY <1>3, <2>1 DEF ShardInv, CallOK, HomeOK, FilterOK, shardVars
<1> QED
  BY <1>1, <1>2, <1>3 DEF ShardNext

LEMMA FiltersRight == ShardInv => NoFalseNegatives
<1> SUFFICES ASSUME ShardInv PROVE NoFalseNegatives
  OBVIOUS
<1>1. ASSUME NEW id \in added \ ShardEdges, NEW s \in 0 .. numShards - 1,
             id \in rows[s], s = GetShard(id, numShards)
      PROVE  MayContain(bloom[s], id)
  BY <1>1 DEF ShardInv, FilterOK, MayContain
<1>2. ASSUME ~muddied, NEW id \in ShardIds, items[id] > 0 PROVE CountingMayContain(id)
  <2> SUFFICES ASSUME NEW b \in BitsOf(id) PROVE counters[b] > 0
    BY DEF CountingMayContain
  <2>1. b \in 0 .. NumBits - 1
    BY BitIndexType DEF BitsOf
  <2>2. /\ items \in [ShardIds -> Nat] /\ IsFiniteSet(Marks(items, b))
        /\ counters[b] = Cardinality(Marks(items, b))
    BY <1>2, <2>1 DEF ShardInv, CountersOK
  <2>3. Cardinality(Marks(items, b)) \in Nat \ {0}
    BY <1>2, <2>2, MarksSeen
  <2>4. PICK m \in Nat \ {0} : m = counters[b]
    BY <2>2, <2>3
  <2> QED
    BY <2>4
<1> QED
  BY <1>1, <1>2 DEF NoFalseNegatives

LEMMA HomesRight == ShardInv => RowsReachable
<1> SUFFICES ASSUME ShardInv, NEW id \in DOMAIN homes \ ShardEdges, homes[id][1] < numShards
             PROVE  \/ GetShard(id, numShards) = homes[id][1]
                    \/ GetShard(id, numShards) >= homes[id][2]
  BY DEF RowsReachable
<1>1. PICK n \in 1 .. MaxShards : homes[id] = <<GetShard(id, n), n>>
  BY DEF ShardInv, HomeOK
<1>2. id \in ShardIds /\ numShards \in 1 .. MaxShards
  BY DEF ShardInv, HomeOK
<1>3. homes[id][1] = GetShard(id, n) /\ homes[id][2] = n
  BY <1>1
<1> QED
  BY <1>2, <1>3, RingStable

LEMMA PagesRight == ShardInv => PagesFilled
<1> SUFFICES ASSUME ShardInv, NEW limit \in Nat
             PROVE  LET full == {s \in 0 .. numShards - 1 : rows[s] \ ShardEdges # {}} IN
                    /\ Listed(limit, numShards) <= limit
                    /\ Listed(limit, numShards) >= Min({limit, Cardinality(full)})
  BY DEF PagesFilled
<1> DEFINE full == {s \in 0 .. numShards - 1 : rows[s] \ ShardEdges # {}}
           f == [s \in 0 .. numShards - 1 |->
                   Min({Cardinality(rows[s] \ ShardEdges), PerShard(limit, numShards)})]
<1>1. PICK k \in Nat \ {0} : k = numShards /\ k \in 1 .. MaxShards
  BY ShardNumbers DEF ShardInv
<1>2. PICK m \in Nat \ {0} : m = PerShard(limit, numShards)
  <2>1. PICK d \in Int : d = limit \div k
    BY <1>1
  <2>2. Max({d, 1}) = IF d >= 1 THEN d ELSE 1
    BY MinMaxPair
  <2>3. PerShard(limit, numShards) = Max({d, 1})
    BY <1>1, <2>1 DEF PerShard
  <2> QED
    BY <2>2, <2>3
<1>3. ASSUME NEW s \in 0 .. k - 1
      PROVE  f[s] \in 0 .. m /\ (s \in full => f[s] \in 1 .. m)
  <2>1. s \in 0 .. MaxShards - 1
    BY <1>1, ShardNumbers
  <2>2. IsFiniteSet(rows[s] \ ShardEdges)
    BY <2>1, FS_Difference DEF ShardInv
  <2>3. PICK c \in Nat : c = Cardinality(rows[s] \ ShardEdges)
    BY <2>2, FS_CardinalityType
  <2>4. s \in full => c # 0
    BY <2>2, <2>3, FS_EmptySet
  <2>5. f[s] = Min({c, m})
    BY <1>1, <1>2, <2>3
  <2>6. Min({c, m}) = IF c <= m THEN c ELSE m
    BY MinMaxPair
  <2> HIDE DEF f, full
  <2> QED
    BY <2>4, <2>5, <2>6
<1>4. f \in [0 .. k - 1 -> 0 .. m]
  <2>1. f = [s \in 0 .. k - 1 |-> f[s]]
    BY <1>1
  <2> HIDE DEF f
  <2> QED
    BY <1>3, <2>1
<1>5. full \in SUBSET (0 .. k - 1)
  BY <1>1
<1>6. Listed(limit, numShards) = Min({limit, SumFunction(f)})
  BY DEF Listed
<1> HIDE DEF f, full
<1>7. SumFunction(f) = Cardinality(Pairs(f, 0 .. k - 1))
  BY <1>1, <1>2, <1>4, SumIs
<1>8. IsFiniteSet(Pairs(f, 0 .. k - 1)) /\ Cardinality(Pairs(f, 0 .. k - 1)) \in Nat
  BY <1>1, <1>2, <1>4, PairsFinite
<1>9. IsFiniteSet(full) /\ Cardinality(full) \in Nat /\ Cardinality(full) <= Cardinality(Pairs(f, 0 .. k - 1))
  <2> DEFINE g == [s \in full |-> <<s, 1>>]
  <2>1. \A s \in full : <<s, 1>> \in Pairs(f, 0 .. k - 1)
    <3> SUFFICES ASSUME NEW s \in full PROVE <<s, 1>> \in Pairs(f, 0 .. k - 1)
      OBVIOUS
    <3>1. s \in 0 .. k - 1 /\ 1 \in 1 .. f[s]
      BY <1>3, <1>5
    <3> QED
      BY <3>1 DEF Pairs
  <2>2. g \in Injection(full, Pairs(f, 0 .. k - 1))
    BY <2>1 DEF Injection, IsInjective
  <2>3. IsFiniteSet(full) /\ Cardinality(full) <= Cardinality(Pairs(f, 0 .. k - 1))
    <3> HIDE DEF g
    <3> QED
      BY <1>8, <2>2, FS_Injection
  <2> QED
    BY <2>3, FS_CardinalityType
<1>10. PICK a \in Nat, z \in Nat : a = SumFunction(f) /\ z = Cardinality(full) /\ z <= a
  BY <1>7, <1>8, <1>9
<1>11. Min({limit, a}) <= limit /\ Min({limit, a}) >= Min({limit, z})
  <2>1. Min({limit, a}) = IF limit <= a THEN limit ELSE a
    BY MinMaxPair
  <2>2. Min({limit, z}) = IF limit <= z THEN limit ELSE z
    BY MinMaxPair
  <2> QED
    BY <1>10, <2>1, <2>2
<1> QED
  BY <1>6, <1>10, <1>11 DEF full

(* Lookups and pages of the shards find what they should, for any hash
   functions, virtual nodes, filters and numbers of shards, of calls in flight
   and of opens: a filter hides no row given to it, an id whose shard is still
   there moves only to a shard its ring did not have, and a page holds a row
   of every shard that has one.                                            *)
THEOREM RowsAreFound == ShardSpec => []RowsFound
<1>1. ShardInv => RowsFound
  BY FiltersRight, HomesRight, PagesRight DEF RowsFound
<1> QED
  BY <1>1, ShardStart, ShardStep, PTL DEF ShardSpec

-------------------------------------------------------------------------------
(* Schemas.  A definition as a record, and a schema with finitely many fields. *)

Plain(d) ==
    /\ d = Field(d.type, d.nullable, d.unique, d.indexed)
    /\ d.nullable \in BOOLEAN /\ d.unique \in BOOLEAN /\ d.indexed \in BOOLEAN

SchemaOK(s) == s = [f \in DOMAIN s |-> s[f]] /\ IsFiniteSet(DOMAIN s) /\ \A f \in DOMAIN s : Plain(s[f])

LEMMA ParsedOK == ASSUME NEW defs \in SchemaDefs PROVE SchemaOK(ParseFields(defs))
<1> DEFINE s == ParseFields(defs)
<1>1. DOMAIN s = DOMAIN defs /\ s = [f \in DOMAIN s |-> s[f]]
  BY DEF ParseFields
<1>2. IsFiniteSet(DOMAIN s)
  BY <1>1, SchemaConstants
<1>3. ASSUME NEW f \in DOMAIN s PROVE Plain(s[f])
  <2>1. s[f] = Field(defs[f].type, "required" \notin defs[f].mods,
                     "unique" \in defs[f].mods, "indexed" \in defs[f].mods)
    BY <1>1 DEF ParseFields
  <2> HIDE DEF s
  <2> QED
    BY <2>1 DEF Plain, Field
<1> HIDE DEF s
<1>4. SchemaOK(s)
  BY <1>1, <1>2, <1>3 DEF SchemaOK
<1> QED
  BY <1>4 DEF s

(* The table after the actions u, in whatever order they came. *)
Acts(u, act) == {a.field : a \in {b \in u : b.act = act}}

TypeAfter(old, new, u, f) == IF f \in Acts(u, "ModifyField") THEN new[f].type ELSE old[f].type

IndexAfter(old, u, f) ==
    IF f \in Acts(u, "AddIndex") THEN TRUE
    ELSE IF f \in Acts(u, "RemoveIndex") THEN FALSE ELSE old[f].indexed

ColumnAfter(old, new, u, f) ==
    IF f \in DOMAIN old
    THEN Field(TypeAfter(old, new, u, f), old[f].nullable, old[f].unique, IndexAfter(old, u, f))
    ELSE Field(new[f].type, new[f].nullable, FALSE, FALSE)

TableAfter(old, new, u) ==
    [f \in (DOMAIN old \cup Acts(u, "AddField")) \ Acts(u, "RemoveField") |->
        ColumnAfter(old, new, u, f)]

(* What each action of a migration is. *)
Planned(old, new, a) ==
    \/ a.act = "AddField" /\ a.field \in DOMAIN new \ DOMAIN old /\ a.def = new[a.field]
    \/ a.act = "RemoveField" /\ a.field \in DOMAIN old \ DOMAIN new
    \/ a.act = "ModifyField" /\ a.field \in DOMAIN old \cap DOMAIN new /\ a.def = new[a.field]
    \/ /\ a.act = "AddIndex" /\ a.field \in DOMAIN old \cap DOMAIN new
       /\ new[a.field].indexed /\ ~old[a.field].indexed
    \/ /\ a.act = "RemoveIndex" /\ a.field \in DOMAIN old \cap DOMAIN new
       /\ ~new[a.field].indexed /\ old[a.field].indexed

PlannedIndex(old, new, f) ==
    CASE new[f].indexed /\ ~old[f].indexed ->
           {[act |-> "AddIndex", field |-> f, unique |-> new[f].unique]}
      [] ~new[f].indexed /\ old[f].indexed -> {[act |-> "RemoveIndex", field |-> f]}
      [] OTHER -> {}

PlannedChange(old, new, f) ==
    IF FieldChanged(old[f], new[f])
    THEN {[act |-> "ModifyField", field |-> f, def |-> new[f]]} ELSE {}

PlannedAdds(old, new) ==
    {[act |-> "AddField", field |-> f, def |-> new[f]] : f \in DOMAIN new \ DOMAIN old}

PlannedRemoves(old, new) ==
    {[act |-> "RemoveField", field |-> f] : f \in DOMAIN old \ DOMAIN new}

PlannedChanges(old, new) ==
    {PlannedChange(old, new, f) \cup PlannedIndex(old, new, f) : f \in DOMAIN old \cap DOMAIN new}

LEMMA GenerateParts ==
    ASSUME NEW old, NEW new
    PROVE  Generate(old, new) = PlannedAdds(old, new) \cup PlannedRemoves(old, new)
                                \cup UNION PlannedChanges(old, new)
  BY DEF Generate, PlannedAdds, PlannedRemoves, PlannedChanges, PlannedChange, PlannedIndex

LEMMA IndexPlan ==
    ASSUME NEW old, NEW new, NEW f \in DOMAIN old \cap DOMAIN new,
           SchemaOK(old), SchemaOK(new)
    PROVE  PlannedIndex(old, new, f) =
              IF new[f].indexed /\ ~old[f].indexed
              THEN {[act |-> "AddIndex", field |-> f, unique |-> new[f].unique]}
              ELSE IF ~new[f].indexed /\ old[f].indexed
              THEN {[act |-> "RemoveIndex", field |-> f]} ELSE {}
<1>1. new[f].indexed \in BOOLEAN /\ old[f].indexed \in BOOLEAN
  BY DEF SchemaOK, Plain
<1> DEFINE n == new[f].indexed  o == old[f].indexed
<1>2. CASE n /\ ~o
  BY <1>2 DEF PlannedIndex
<1>3. CASE ~n /\ o
  BY <1>3 DEF PlannedIndex
<1>4. CASE ~(n /\ ~o) /\ ~(~n /\ o)
  BY <1>4 DEF PlannedIndex
<1> QED
  BY <1>1, <1>2, <1>3, <1>4

ActionOf(new, act, f) ==
    IF act \in {"AddField", "ModifyField"} THEN [act |-> act, field |-> f, def |-> new[f]]
    ELSE IF act = "AddIndex" THEN [act |-> act, field |-> f, unique |-> new[f].unique]
    ELSE [act |-> act, field |-> f]

(* Every action is one of five forms, and there is one of a form for a field. *)
LEMMA GenerateIs ==
    ASSUME NEW old, NEW new, SchemaOK(old), SchemaOK(new), NEW a \in Generate(old, new)
    PROVE  Planned(old, new, a) /\ a = ActionOf(new, a.act, a.field)
<1> DEFINE P == Planned(old, new, a) /\ a = ActionOf(new, a.act, a.field)
<1>1. CASE a \in PlannedAdds(old, new)
  BY <1>1 DEF PlannedAdds, Planned, ActionOf
<1>2. CASE a \in PlannedRemoves(old, new)
  BY <1>2 DEF PlannedRemoves, Planned, ActionOf
<1>3. ASSUME NEW f \in DOMAIN old \cap DOMAIN new, a \in PlannedChange(old, new, f)
      PROVE  P
  BY <1>3 DEF PlannedChange, Planned, ActionOf
<1>4. ASSUME NEW f \in DOMAIN old \cap DOMAIN new, a \in PlannedIndex(old, new, f)
      PROVE  P
  BY <1>4, IndexPlan DEF Planned, ActionOf
<1> HIDE DEF P
<1>5. P
  BY <1>1, <1>2, <1>3, <1>4, GenerateParts DEF PlannedChanges, P
<1> QED
  BY <1>5 DEF P

LEMMA GenerateOnce ==
    ASSUME NEW old, NEW new, SchemaOK(old), SchemaOK(new),
           NEW a \in Generate(old, new), NEW b \in Generate(old, new),
           a.act = b.act, a.field = b.field
    PROVE  a = b
<1>1. a = ActionOf(new, a.act, a.field)
  BY GenerateIs
<1>2. b = ActionOf(new, b.act, b.field)
  BY GenerateIs
<1> QED
  BY <1>1, <1>2

LEMMA GenerateHas ==
    ASSUME NEW old, NEW new, SchemaOK(old), SchemaOK(new)
    PROVE  /\ \A f \in DOMAIN new \ DOMAIN old : f \in Acts(Generate(old, new), "AddField")
           /\ \A f \in DOMAIN old \ DOMAIN new : f \in Acts(Generate(old, new), "RemoveField")
           /\ \A f \in DOMAIN old \cap DOMAIN new :
                 /\ old[f].type # new[f].type => f \in Acts(Generate(old, new), "ModifyField")
                 /\ new[f].indexed /\ ~old[f].indexed => f \in Acts(Generate(old, new), "AddIndex")
                 /\ ~new[f].indexed /\ old[f].indexed => f \in Acts(Generate(old, new), "RemoveIndex")
<1> DEFINE u == Generate(old, new)
<1>0. u = PlannedAdds(old, new) \cup PlannedRemoves(old, new) \cup UNION PlannedChanges(old, new)
  BY GenerateParts
<1> HIDE DEF u
<1>1. ASSUME NEW f \in DOMAIN new \ DOMAIN old PROVE f \in Acts(u, "AddField")
  <2>1. [act |-> "AddField", field |-> f, def |-> new[f]] \in u
    BY <1>0 DEF PlannedAdds
  <2> QED
    BY <2>1 DEF Acts
<1>2. ASSUME NEW f \in DOMAIN old \ DOMAIN new PROVE f \in Acts(u, "RemoveField")
  <2>1. [act |-> "RemoveField", field |-> f] \in u
    BY <1>0 DEF PlannedRemoves
  <2> QED
    BY <2>1 DEF Acts
<1>3. ASSUME NEW f \in DOMAIN old \cap DOMAIN new
      PROVE  PlannedChange(old, new, f) \cup PlannedIndex(old, new, f) \subseteq u
  BY <1>0 DEF PlannedChanges
<1>4. ASSUME NEW f \in DOMAIN old \cap DOMAIN new, old[f].type # new[f].type
      PROVE  f \in Acts(u, "ModifyField")
  <2>1. FieldChanged(old[f], new[f])
    BY <1>4 DEF FieldChanged
  <2>2. [act |-> "ModifyField", field |-> f, def |-> new[f]] \in u
    BY <1>3, <2>1 DEF PlannedChange
  <2> QED
    BY <2>2 DEF Acts
<1>5. ASSUME NEW f \in DOMAIN old \cap DOMAIN new, new[f].indexed, ~old[f].indexed
      PROVE  f \in Acts(u, "AddIndex")
  <2>1. [act |-> "AddIndex", field |-> f, unique |-> new[f].unique] \in PlannedIndex(old, new, f)
    BY <1>5, IndexPlan
  <2>2. [act |-> "AddIndex", field |-> f, unique |-> new[f].unique] \in u
    BY <1>3, <2>1
  <2> QED
    BY <2>2 DEF Acts
<1>6. ASSUME NEW f \in DOMAIN old \cap DOMAIN new, ~new[f].indexed, old[f].indexed
      PROVE  f \in Acts(u, "RemoveIndex")
  <2>1. [act |-> "RemoveIndex", field |-> f] \in PlannedIndex(old, new, f)
    BY <1>6, IndexPlan
  <2>2. [act |-> "RemoveIndex", field |-> f] \in u
    BY <1>3, <2>1
  <2> QED
    BY <2>2 DEF Acts
<1> QED
  BY <1>1, <1>2, <1>4, <1>5, <1>6 DEF u

LEMMA RangeFinite ==
    ASSUME NEW S, NEW T, IsFiniteSet(S), NEW g \in [S -> T], \A y \in T : \E x \in S : g[x] = y
    PROVE  IsFiniteSet(T)
<1>1. g \in Surjection(S, T)
  BY DEF Surjection
<1> QED
  BY <1>1, FS_Surjection

LEMMA GenerateFinite ==
    ASSUME NEW old, NEW new, SchemaOK(old), SchemaOK(new)
    PROVE  IsFiniteSet(Generate(old, new))
<1>1. IsFiniteSet(DOMAIN old) /\ IsFiniteSet(DOMAIN new)
  BY DEF SchemaOK
<1>2. IsFiniteSet(DOMAIN new \ DOMAIN old) /\ IsFiniteSet(DOMAIN old \ DOMAIN new)
      /\ IsFiniteSet(DOMAIN old \cap DOMAIN new)
  BY <1>1, FS_Subset
<1>3. IsFiniteSet(PlannedAdds(old, new))
  <2> DEFINE g == [f \in DOMAIN new \ DOMAIN old |-> [act |-> "AddField", field |-> f, def |-> new[f]]]
  <2>1. g \in [DOMAIN new \ DOMAIN old -> PlannedAdds(old, new)]
    BY DEF PlannedAdds
  <2>2. \A y \in PlannedAdds(old, new) : \E x \in DOMAIN new \ DOMAIN old : g[x] = y
    BY DEF PlannedAdds
  <2> HIDE DEF g
  <2> QED
    BY <1>2, <2>1, <2>2, RangeFinite
<1>4. IsFiniteSet(PlannedRemoves(old, new))
  <2> DEFINE g == [f \in DOMAIN old \ DOMAIN new |-> [act |-> "RemoveField", field |-> f]]
  <2>1. g \in [DOMAIN old \ DOMAIN new -> PlannedRemoves(old, new)]
    BY DEF PlannedRemoves
  <2>2. \A y \in PlannedRemoves(old, new) : \E x \in DOMAIN old \ DOMAIN new : g[x] = y
    BY DEF PlannedRemoves
  <2> HIDE DEF g
  <2> QED
    BY <1>2, <2>1, <2>2, RangeFinite
<1>5. IsFiniteSet(PlannedChanges(old, new))
  <2> DEFINE both == DOMAIN old \cap DOMAIN new
             g == [f \in both |-> PlannedChange(old, new, f) \cup PlannedIndex(old, new, f)]
  <2>1. g \in [both -> PlannedChanges(old, new)]
    BY DEF PlannedChanges
  <2>2. \A y \in PlannedChanges(old, new) : \E x \in both : g[x] = y
    BY DEF PlannedChanges
  <2> HIDE DEF g
  <2> QED
    BY <1>2, <2>1, <2>2, RangeFinite
<1>6. \A X \in PlannedChanges(old, new) : IsFiniteSet(X)
  <2> SUFFICES ASSUME NEW f \in DOMAIN old \cap DOMAIN new
               PROVE  IsFiniteSet(PlannedChange(old, new, f) \cup PlannedIndex(old, new, f))
    BY DEF PlannedChanges
  <2>1. IsFiniteSet(PlannedChange(old, new, f))
    <3>1. \E x : PlannedChange(old, new, f) \subseteq {x}
      BY DEF PlannedChange
    <3> QED
      BY <3>1, FS_Singleton, FS_Subset
  <2>2. IsFiniteSet(PlannedIndex(old, new, f))
    <3>1. \E x : PlannedIndex(old, new, f) \subseteq {x}
      BY IndexPlan
    <3> QED
      BY <3>1, FS_Singleton, FS_Subset
  <2> QED
    BY <2>1, <2>2, FS_Union
<1>7. IsFiniteSet(UNION PlannedChanges(old, new))
  BY <1>5, <1>6, FS_UNION
<1> QED
  BY <1>3, <1>4, <1>7, FS_Union, GenerateParts

-------------------------------------------------------------------------------
(* One more action, whichever it is. *)

LEMMA TableStep ==
    ASSUME NEW old, NEW new, SchemaOK(old), SchemaOK(new),
           NEW u \in SUBSET Generate(old, new), NEW a \in u
    PROVE  ToSql(TableAfter(old, new, u \ {a}), a) = TableAfter(old, new, u)
<1> DEFINE v == u \ {a}  f == a.field  t == TableAfter(old, new, v)
           Cols(w) == (DOMAIN old \cup Acts(w, "AddField")) \ Acts(w, "RemoveField")
<1>0. a \in Generate(old, new) /\ Planned(old, new, a)
  BY GenerateIs
<1>1. ASSUME NEW act
      PROVE  /\ act # a.act => Acts(v, act) = Acts(u, act)
             /\ act = a.act => Acts(v, act) = Acts(u, act) \ {f} /\ f \in Acts(u, act)
  <2>1. CASE act # a.act
    BY <2>1 DEF Acts
  <2>2. CASE act = a.act
    <3>1. \A b \in v : b.act = act => b.field # f
      BY <1>0, <2>2, GenerateOnce
    <3> QED
      BY <2>2, <3>1 DEF Acts
  <2> QED
    BY <2>1, <2>2
<1>a. \A b \in u : Planned(old, new, b)
  BY GenerateIs
<1>2. \A g \in Acts(u, "AddField") : g \notin DOMAIN old
  BY <1>a DEF Acts, Planned
<1>3. \A g \in Acts(u, "RemoveField") : g \in DOMAIN old /\ g \notin DOMAIN new
  BY <1>a DEF Acts, Planned
<1>4. \A g \in Acts(u, "AddIndex") : new[g].indexed
  BY <1>a DEF Acts, Planned
<1>c. \A g : g # f => /\ \A act : g \in Acts(v, act) <=> g \in Acts(u, act)
                     /\ ColumnAfter(old, new, v, g) = ColumnAfter(old, new, u, g)
  <2> SUFFICES ASSUME NEW g, g # f
               PROVE  /\ \A act : g \in Acts(v, act) <=> g \in Acts(u, act)
                      /\ ColumnAfter(old, new, v, g) = ColumnAfter(old, new, u, g)
    OBVIOUS
  <2>1. \A act : g \in Acts(v, act) <=> g \in Acts(u, act)
    BY <1>1
  <2>2. TypeAfter(old, new, v, g) = TypeAfter(old, new, u, g)
    BY <2>1 DEF TypeAfter
  <2>3. IndexAfter(old, v, g) = IndexAfter(old, u, g)
    BY <2>1, Zenon DEF IndexAfter
  <2> QED
    BY <2>1, <2>2, <2>3 DEF ColumnAfter
<1>b. /\ DOMAIN t = Cols(v) /\ t = [g \in Cols(v) |-> t[g]]
      /\ \A g \in Cols(v) : t[g] = ColumnAfter(old, new, v, g)
      /\ TableAfter(old, new, u) = [g \in Cols(u) |-> ColumnAfter(old, new, u, g)]
  BY DEF TableAfter
<1> HIDE DEF t, v
<1>5. CASE a.act = "AddField"
  <2>1. f \in DOMAIN new \ DOMAIN old /\ a.def = new[f]
    BY <1>0, <1>5 DEF Planned
  <2>2. Cols(u) = Cols(v) \cup {f}
    BY <1>1, <1>3, <1>5, <2>1
  <2>3. \A g \in Cols(v) : g # f => ColumnAfter(old, new, v, g) = ColumnAfter(old, new, u, g)
    BY <1>c
  <2>4. ColumnAfter(old, new, u, f) = Field(a.def.type, a.def.nullable, FALSE, FALSE)
    BY <2>1 DEF ColumnAfter
  <2>5. ToSql(t, a) = [g \in DOMAIN t \cup {f} |->
                          IF g = f THEN Field(a.def.type, a.def.nullable, FALSE, FALSE) ELSE t[g]]
    BY <1>5 DEF ToSql
  <2>6. \A g \in Cols(u) : (IF g = f THEN Field(a.def.type, a.def.nullable, FALSE, FALSE) ELSE t[g])
                              = ColumnAfter(old, new, u, g)
    BY <1>b, <2>2, <2>3, <2>4
  <2> HIDE DEF Cols
  <2>7. ToSql(t, a) = [g \in Cols(u) |-> ColumnAfter(old, new, u, g)]
    BY <1>b, <2>2, <2>5, <2>6
  <2> QED
    BY <1>b, <2>7 DEF t, v
<1>6. CASE a.act = "RemoveField"
  <2>1. Cols(u) = Cols(v) \ {f}
    BY <1>1, <1>6
  <2>2. \A g \in Cols(u) : ColumnAfter(old, new, v, g) = ColumnAfter(old, new, u, g)
    BY <1>c, <2>1
  <2>3. ToSql(t, a) = [g \in DOMAIN t \ {f} |-> t[g]]
    BY <1>6 DEF ToSql
  <2> HIDE DEF Cols
  <2> QED
    BY <1>b, <2>1, <2>2, <2>3 DEF t, v
<1>7. CASE a.act = "ModifyField"
  <2>1. f \in DOMAIN old \cap DOMAIN new /\ a.def = new[f]
    BY <1>0, <1>7 DEF Planned
  <2>2. Cols(u) = Cols(v) /\ f \in Cols(v)
    BY <1>1, <1>3, <1>7, <2>1
  <2>3. \A g \in Cols(v) : g # f => ColumnAfter(old, new, v, g) = ColumnAfter(old, new, u, g)
    BY <1>c
  <2>4. [t[f] EXCEPT !.type = a.def.type] = ColumnAfter(old, new, u, f)
    <3>1. t[f] = Field(TypeAfter(old, new, v, f), old[f].nullable, old[f].unique, IndexAfter(old, v, f))
      BY <1>b, <2>1, <2>2 DEF ColumnAfter
    <3>2. TypeAfter(old, new, u, f) = a.def.type /\ IndexAfter(old, v, f) = IndexAfter(old, u, f)
      BY <1>1, <1>7, <2>1 DEF TypeAfter, IndexAfter
    <3>3. [t[f] EXCEPT !.type = a.def.type]
             = Field(a.def.type, old[f].nullable, old[f].unique, IndexAfter(old, v, f))
      BY <3>1 DEF Field
    <3> QED
      BY <2>1, <3>2, <3>3 DEF ColumnAfter
  <2>5. ToSql(t, a) = [t EXCEPT ![f] = [t[f] EXCEPT !.type = a.def.type]]
    BY <1>7, <1>b, <2>2 DEF ToSql
  <2> HIDE DEF Cols
  <2>6. ToSql(t, a) = [g \in Cols(u) |-> ColumnAfter(old, new, u, g)]
    BY <1>b, <2>2, <2>3, <2>4, <2>5
  <2> QED
    BY <1>b, <2>6 DEF t, v
<1>8. CASE a.act = "AddIndex"
  <2>1. f \in DOMAIN old \cap DOMAIN new
    BY <1>0, <1>8 DEF Planned
  <2>2. Cols(u) = Cols(v) /\ f \in Cols(v)
    BY <1>1, <1>3, <1>8, <2>1
  <2>3. \A g \in Cols(v) : g # f => ColumnAfter(old, new, v, g) = ColumnAfter(old, new, u, g)
    BY <1>c
  <2>4. [t[f] EXCEPT !.indexed = TRUE] = ColumnAfter(old, new, u, f)
    <3>1. t[f] = Field(TypeAfter(old, new, v, f), old[f].nullable, old[f].unique, IndexAfter(old, v, f))
      BY <1>b, <2>1, <2>2 DEF ColumnAfter
    <3>2. TypeAfter(old, new, u, f) = TypeAfter(old, new, v, f) /\ IndexAfter(old, u, f) = TRUE
      BY <1>1, <1>4, <1>8, <2>1 DEF TypeAfter, IndexAfter
    <3>3. [t[f] EXCEPT !.indexed = TRUE]
             = Field(TypeAfter(old, new, v, f), old[f].nullable, old[f].unique, TRUE)
      <4>1. \A x : [t[f] EXCEPT !.indexed = x]
                      = Field(TypeAfter(old, new, v, f), old[f].nullable, old[f].unique, x)
        BY <3>1 DEF Field
      <4> QED
        BY <4>1, Zenon
    <3> QED
      BY <2>1, <3>2, <3>3 DEF ColumnAfter
  <2>5. ToSql(t, a) = [t EXCEPT ![f] = [t[f] EXCEPT !.indexed = TRUE]]
    BY <1>8, <1>b, <2>2 DEF ToSql
  <2> HIDE DEF Cols
  <2>6. ToSql(t, a) = [g \in Cols(u) |-> ColumnAfter(old, new, u, g)]
    BY <1>b, <2>2, <2>3, <2>4, <2>5
  <2> QED
    BY <1>b, <2>6 DEF t, v
<1>9. CASE a.act = "RemoveIndex"
  <2>1. f \in DOMAIN old \cap DOMAIN new /\ ~new[f].indexed
    BY <1>0, <1>9 DEF Planned
  <2>2. Cols(u) = Cols(v) /\ f \in Cols(v)
    BY <1>1, <1>3, <1>9, <2>1
  <2>3. \A g \in Cols(v) : g # f => ColumnAfter(old, new, v, g) = ColumnAfter(old, new, u, g)
    BY <1>c
  <2>4. [t[f] EXCEPT !.indexed = FALSE] = ColumnAfter(old, new, u, f)
    <3>1. t[f] = Field(TypeAfter(old, new, v, f), old[f].nullable, old[f].unique, IndexAfter(old, v, f))
      BY <1>b, <2>1, <2>2 DEF ColumnAfter
    <3>2. TypeAfter(old, new, u, f) = TypeAfter(old, new, v, f) /\ IndexAfter(old, u, f) = FALSE
      BY <1>1, <1>4, <1>9, <2>1 DEF TypeAfter, IndexAfter
    <3>3. [t[f] EXCEPT !.indexed = FALSE]
             = Field(TypeAfter(old, new, v, f), old[f].nullable, old[f].unique, FALSE)
      <4>1. \A x : [t[f] EXCEPT !.indexed = x]
                      = Field(TypeAfter(old, new, v, f), old[f].nullable, old[f].unique, x)
        BY <3>1 DEF Field
      <4> QED
        BY <4>1, Zenon
    <3> QED
      BY <2>1, <3>2, <3>3 DEF ColumnAfter
  <2>5. ToSql(t, a) = [t EXCEPT ![f] = [t[f] EXCEPT !.indexed = FALSE]]
    BY <1>9, <1>b, <2>2 DEF ToSql
  <2> HIDE DEF Cols
  <2>6. ToSql(t, a) = [g \in Cols(u) |-> ColumnAfter(old, new, u, g)]
    BY <1>b, <2>2, <2>3, <2>4, <2>5
  <2> QED
    BY <1>b, <2>6 DEF t, v
<1> QED
  BY <1>0, <1>5, <1>6, <1>7, <1>8, <1>9 DEF Planned

(* The fold is the table after all the actions. *)
LEMMA MigrateIs ==
    ASSUME NEW old, NEW new, SchemaOK(old), SchemaOK(new)
    PROVE  Migrate(old, new) = TableAfter(old, new, Generate(old, new))
<1> DEFINE D == Generate(old, new)
           Chosen(u) == CHOOSE x \in u : TRUE
           Entry(g, u) == IF u = {} THEN old ELSE ToSql(g[u \ {Chosen(u)}], Chosen(u))
           Rec(g) == g = [u \in SUBSET D |-> Entry(g, u)]
           C == [u \in SUBSET D |-> TableAfter(old, new, u)]
<1>0. \A u : u # {} => Chosen(u) \in u
  OBVIOUS
<1>1. TableAfter(old, new, {}) = old
  <2>1. \A act : Acts({}, act) = {}
    BY DEF Acts
  <2>2. ASSUME NEW f \in DOMAIN old PROVE ColumnAfter(old, new, {}, f) = old[f]
    <3>1. TypeAfter(old, new, {}, f) = old[f].type
      BY <2>1 DEF TypeAfter
    <3>2. IndexAfter(old, {}, f) = old[f].indexed
      BY <2>1, Zenon DEF IndexAfter
    <3> QED
      BY <3>1, <3>2 DEF ColumnAfter, SchemaOK, Plain
  <2> QED
    BY <2>1, <2>2 DEF TableAfter, SchemaOK
<1>a. \A u \in SUBSET D : \A x \in u :
          TableAfter(old, new, u) = ToSql(TableAfter(old, new, u \ {x}), x)
  BY TableStep
<1>2. ASSUME NEW u \in SUBSET D, u # {}
      PROVE  TableAfter(old, new, u) = ToSql(TableAfter(old, new, u \ {Chosen(u)}), Chosen(u))
  <2>1. Chosen(u) \in u
    BY <1>0, <1>2
  <2> HIDE DEF Chosen, D
  <2> QED
    BY <1>a, <2>1
<1> HIDE DEF D
<1>3. Rec(C)
  <2>1. ASSUME NEW u \in SUBSET D PROVE TableAfter(old, new, u) = Entry(C, u)
    <3>1. CASE u = {}
      BY <1>1, <3>1
    <3>2. CASE u # {}
      <4>1. C[u \ {Chosen(u)}] = TableAfter(old, new, u \ {Chosen(u)})
        <5> HIDE DEF Chosen
        <5> QED
          OBVIOUS
      <4> HIDE DEF C, Chosen
      <4> QED
        BY <1>2, <3>2, <4>1
    <3> QED
      BY <3>1, <3>2
  <2> HIDE DEF Entry
  <2> QED
    BY <2>1
<1>4. PICK g : Rec(g) /\ Migrate(old, new) = g[D]
  <2> DEFINE iter == CHOOSE g : Rec(g)
  <2>1. Rec(iter)
    <3> HIDE DEF Rec, C
    <3> QED
      BY <1>3
  <2>3. Migrate(old, new) = iter[D]
    BY DEF Migrate, FoldSet, MapThenFoldSet, D
  <2> HIDE DEF iter, Rec
  <2> QED
    BY <2>1, <2>3
<1>5. \A u \in SUBSET D : g[u] = Entry(g, u)
  <2> HIDE DEF Entry
  <2> QED
    BY <1>4
<1> DEFINE S == {c \in Nat : \A u \in SUBSET D : Cardinality(u) = c => g[u] = TableAfter(old, new, u)}
<1>6. \A u \in SUBSET D : IsFiniteSet(u)
  <2>1. IsFiniteSet(D)
    BY GenerateFinite DEF D
  <2> QED
    BY <2>1, FS_Subset
<1>7. 0 \in S
  <2>1. \A u \in SUBSET D : Cardinality(u) = 0 => u = {}
    BY <1>6, FS_EmptySet
  <2>2. g[{}] = old
    BY <1>5
  <2> QED
    BY <1>1, <2>1, <2>2
<1>8. ASSUME NEW c \in Nat, c \in S PROVE c + 1 \in S
  <2> SUFFICES ASSUME NEW u \in SUBSET D, Cardinality(u) = c + 1
               PROVE  g[u] = TableAfter(old, new, u)
    OBVIOUS
  <2>1. u # {}
    BY FS_EmptySet
  <2>2. PICK x \in u : x = Chosen(u)
    BY <1>0, <2>1
  <2>3. Cardinality(u \ {x}) = c /\ u \ {x} \in SUBSET D
    <3>1. Cardinality(u \ {x}) = Cardinality(u) - 1
      BY <1>6, FS_RemoveElement
    <3> QED
      BY <3>1
  <2>4. g[u \ {x}] = TableAfter(old, new, u \ {x})
    BY <1>8, <2>3
  <2>5. g[u] = ToSql(g[u \ {x}], x)
    <3> HIDE DEF Chosen
    <3> QED
      BY <1>5, <2>1, <2>2
  <2> QED
    BY <1>a, <2>4, <2>5
<1>9. \A c \in Nat : c \in S
  <2> HIDE DEF S
  <2> QED
    BY <1>7, <1>8, Inductive
<1>10. Cardinality(D) \in Nat /\ D \in SUBSET D
  BY <1>6, FS_CardinalityType
<1>11. g[D] = TableAfter(old, new, D)
  BY <1>9, <1>10
<1> QED
  BY <1>4, <1>11 DEF D

(* A migration reaches the new version. *)
LEMMA MigrateReaches ==
    ASSUME NEW old, NEW new, SchemaOK(old), SchemaOK(new)
    PROVE  Reaches(old, new, Migrate(old, new))
<1> DEFINE u == Generate(old, new)  table == TableAfter(old, new, u)
<1>1. Migrate(old, new) = table
  BY MigrateIs
<1>a. \A b \in u : Planned(old, new, b)
  BY GenerateIs
<1>2. /\ \A f \in DOMAIN new \ DOMAIN old : f \in Acts(u, "AddField")
      /\ \A f \in DOMAIN old \ DOMAIN new : f \in Acts(u, "RemoveField")
      /\ \A f \in DOMAIN old \cap DOMAIN new :
            /\ old[f].type # new[f].type => f \in Acts(u, "ModifyField")
            /\ new[f].indexed /\ ~old[f].indexed => f \in Acts(u, "AddIndex")
            /\ ~new[f].indexed /\ old[f].indexed => f \in Acts(u, "RemoveIndex")
  BY GenerateHas
<1> HIDE DEF u
<1>3. /\ \A f \in Acts(u, "AddField") : f \in DOMAIN new
      /\ \A f \in Acts(u, "RemoveField") : f \notin DOMAIN new
      /\ \A f \in Acts(u, "AddIndex") : new[f].indexed
      /\ \A f \in Acts(u, "RemoveIndex") : ~new[f].indexed
  BY <1>a DEF Acts, Planned
<1>4. DOMAIN table = DOMAIN new /\ \A f \in DOMAIN table : table[f] = ColumnAfter(old, new, u, f)
  <2>1. (DOMAIN old \cup Acts(u, "AddField")) \ Acts(u, "RemoveField") = DOMAIN new
    BY <1>2, <1>3
  <2> QED
    BY <2>1 DEF TableAfter
<1> HIDE DEF table
<1>5. ASSUME NEW f \in DOMAIN new PROVE table[f].type = new[f].type
  <2>1. table[f].type = IF f \in DOMAIN old THEN TypeAfter(old, new, u, f) ELSE new[f].type
    BY <1>4 DEF ColumnAfter, Field
  <2> QED
    BY <1>2, <2>1 DEF TypeAfter
<1>6. ASSUME NEW f \in DOMAIN new \cap DOMAIN old PROVE table[f].indexed = new[f].indexed
  <2>1. new[f].indexed \in BOOLEAN /\ old[f].indexed \in BOOLEAN
    BY DEF SchemaOK, Plain
  <2>2. table[f].indexed = IndexAfter(old, u, f)
    BY <1>4 DEF ColumnAfter, Field
  <2>3. CASE f \in Acts(u, "AddIndex")
    BY <1>3, <2>1, <2>2, <2>3 DEF IndexAfter
  <2>4. CASE f \notin Acts(u, "AddIndex") /\ f \in Acts(u, "RemoveIndex")
    BY <1>3, <2>1, <2>2, <2>4 DEF IndexAfter
  <2>5. CASE f \notin Acts(u, "AddIndex") /\ f \notin Acts(u, "RemoveIndex")
    BY <1>2, <2>1, <2>2, <2>5 DEF IndexAfter
  <2> QED
    BY <2>3, <2>4, <2>5
<1> QED
  BY <1>1, <1>4, <1>5, <1>6 DEF Reaches

-------------------------------------------------------------------------------
(* The calls: what each has read, and that an id is given once. *)

Creating(name) == InFlight(name, "create")

SchemaCallOK(c) ==
    \/ smcall[c] = NoSchemaCall
    \/ /\ smcall[c] = [pc |-> smcall[c].pc, kind |-> smcall[c].kind, name |-> smcall[c].name,
                       fields |-> smcall[c].fields, row |-> smcall[c].row]
       /\ \/ smcall[c].pc = "save" /\ smcall[c].kind = "create" /\ SchemaOK(smcall[c].fields)
          \/ smcall[c].pc \in {"scan", "remove"} /\ smcall[c].kind = "drop"
       /\ smcall[c].name \in SchemaNames
       /\ smcall[c].row \subseteq minted
       /\ \A r, q \in smcall[c].row : r = q
       /\ \A r \in smcall[c].row \cap DOMAIN srows : srows[r].name = smcall[c].name

(* No row of the name while its one create has found none. *)
NameOK(name) ==
    /\ \A c, d \in Creating(name) : c = d
    /\ \A r, q \in NamedRows(name) : r = q
    /\ \A c \in Creating(name) : smcall[c].row = {} => NamedRows(name) = {}

SchemaInv ==
    /\ minted \subseteq RowIds /\ DOMAIN srows \subseteq minted
    /\ srows = [r \in DOMAIN srows |-> srows[r]]
    /\ \A r \in DOMAIN srows : SchemaOK(srows[r].fields)
    /\ smcall = [c \in SchemaCalls |-> smcall[c]]
    /\ \A c \in SchemaCalls : SchemaCallOK(c)
    /\ \A name \in SchemaNames \ twice : NameOK(name)

LEMMA SchemaStarts == SchemaInit => SchemaInv
<1> SUFFICES ASSUME SchemaInit PROVE SchemaInv
  OBVIOUS
<1> USE DEF SchemaInit
<1>1. DOMAIN srows = {} /\ minted = {} /\ srows = [r \in DOMAIN srows |-> srows[r]]
  OBVIOUS
<1>2. \A c \in SchemaCalls : smcall[c] = NoSchemaCall
  OBVIOUS
<1>3. \A c \in SchemaCalls : SchemaCallOK(c)
  BY <1>2 DEF SchemaCallOK
<1>4. \A name : Creating(name) = {} /\ NamedRows(name) = {}
  BY <1>1, <1>2 DEF Creating, InFlight, NamedRows, NoSchemaCall
<1> QED
  BY <1>1, <1>3, <1>4 DEF SchemaInv, NameOK

LEMMA FirstRowIs ==
    ASSUME SchemaInv, NEW name
    PROVE  /\ FirstRow(name) \subseteq NamedRows(name)
           /\ FirstRow(name) = {} => NamedRows(name) = {}
           /\ \A r, q \in FirstRow(name) : r = q
<1>1. NamedRows(name) \in SUBSET Nat
  BY SchemaConstants DEF SchemaInv, NamedRows
<1>2. CASE NamedRows(name) = {}
  BY <1>2 DEF FirstRow
<1>3. CASE NamedRows(name) # {}
  <2>1. Min(NamedRows(name)) \in NamedRows(name)
    BY <1>1, <1>3, MinNat
  <2> QED
    BY <1>3, <2>1 DEF FirstRow
<1> QED
  BY <1>2, <1>3

LEMMA CreateStep ==
    ASSUME SchemaInv, NEW c \in SchemaCalls, NEW name \in SchemaNames, NEW defs \in SchemaDefs,
           CreateSchema(c, name, defs)
    PROVE  SchemaInv'
<1> USE DEF CreateSchema
<1>1. FirstRow(name) \subseteq NamedRows(name) /\ (FirstRow(name) = {} => NamedRows(name) = {})
      /\ \A r, q \in FirstRow(name) : r = q
  BY FirstRowIs
<1>2. smcall' = [x \in SchemaCalls |-> smcall'[x]]
      /\ \A d \in SchemaCalls : d # c => smcall'[d] = smcall[d]
      /\ smcall'[c] = [pc |-> "save", kind |-> "create", name |-> name,
                       fields |-> ParseFields(defs), row |-> FirstRow(name)]
  BY DEF SchemaInv
<1>3. \A n : NamedRows(n)' = NamedRows(n)
  BY DEF NamedRows
<1>4. SchemaCallOK(c)'
  <2>1. SchemaOK(ParseFields(defs))
    BY ParsedOK
  <2>2. FirstRow(name) \subseteq minted /\ \A r \in FirstRow(name) : srows[r].name = name
    BY <1>1 DEF NamedRows, SchemaInv
  <2> QED
    BY <1>1, <1>2, <2>1, <2>2 DEF SchemaCallOK
<1>5. ASSUME NEW d \in SchemaCalls, d # c PROVE SchemaCallOK(d)'
  <2>1. SchemaCallOK(d)
    BY DEF SchemaInv
  <2> QED
    BY <1>2, <1>5, <2>1 DEF SchemaCallOK
<1>6. ASSUME NEW n \in SchemaNames \ twice' PROVE NameOK(n)'
  <2>1. n \notin twice /\ NameOK(n)
    BY DEF SchemaInv
  <2>2. CASE n = name
    <3>1. Creating(n) = {}
      BY <2>2, <1>6 DEF Creating
    <3>2. Creating(n)' \subseteq {c}
      BY <1>2, <3>1 DEF Creating, InFlight
    <3> QED
      BY <1>1, <1>2, <1>3, <2>1, <2>2, <3>2 DEF NameOK
  <2>3. CASE n # name
    <3>1. Creating(n)' = Creating(n) /\ c \notin Creating(n)
      BY <1>2, <2>3 DEF Creating, InFlight, NoSchemaCall
    <3>2. \A d \in Creating(n) : smcall'[d] = smcall[d]
      BY <1>2, <3>1 DEF Creating, InFlight
    <3> QED
      BY <1>3, <2>1, <3>1, <3>2 DEF NameOK
  <2> QED
    BY <2>2, <2>3
<1>7. \A d \in SchemaCalls : SchemaCallOK(d)'
  BY <1>4, <1>5
<1> QED
  BY <1>2, <1>6, <1>7 DEF SchemaInv

(* A step of c that is no create of its own and adds no row. *)
LEMMA QuietStep ==
    ASSUME SchemaInv, NEW c \in SchemaCalls,
           smcall' = [x \in SchemaCalls |-> smcall'[x]],
           \A d \in SchemaCalls : d # c => smcall'[d] = smcall[d],
           smcall'[c] = smcall[c] \/ smcall'[c] = NoSchemaCall \/ smcall'[c].kind = "drop",
           SchemaCallOK(c)',
           DOMAIN srows' \subseteq DOMAIN srows, srows' = [r \in DOMAIN srows' |-> srows'[r]],
           \A r \in DOMAIN srows' : srows'[r].name = srows[r].name /\ SchemaOK(srows'[r].fields),
           twice' = twice, minted' = minted
    PROVE  SchemaInv'
<1>1. ASSUME NEW d \in SchemaCalls, d # c PROVE SchemaCallOK(d)'
  <2>1. SchemaCallOK(d)
    BY DEF SchemaInv
  <2> QED
    BY <1>1, <2>1 DEF SchemaCallOK
<1>2. ASSUME NEW n \in SchemaNames \ twice' PROVE NameOK(n)'
  <2>1. NameOK(n)
    BY DEF SchemaInv
  <2>2. NamedRows(n)' \subseteq NamedRows(n)
    BY DEF NamedRows
  <2>3. ASSUME NEW d \in SchemaCalls, d \in Creating(n)'
        PROVE  d \in Creating(n) /\ smcall'[d] = smcall[d]
    BY <2>3 DEF Creating, InFlight, NoSchemaCall
  <2>4. Creating(n)' \subseteq SchemaCalls
    BY DEF Creating, InFlight
  <2> QED
    BY <2>1, <2>2, <2>3, <2>4 DEF NameOK
<1>3. \A d \in SchemaCalls : SchemaCallOK(d)'
  BY <1>1
<1> QED
  BY <1>2, <1>3 DEF SchemaInv

LEMMA DropStarts ==
    ASSUME SchemaInv, NEW c \in SchemaCalls, NEW name \in SchemaNames, NEW force \in BOOLEAN,
           DropSchema(c, name, force)
    PROVE  SchemaInv'
<1> USE DEF DropSchema
<1>1. smcall' = [x \in SchemaCalls |-> smcall'[x]]
      /\ \A d \in SchemaCalls : d # c => smcall'[d] = smcall[d]
      /\ smcall'[c] = [pc |-> "scan", kind |-> "drop", name |-> name, row |-> {}, fields |-> <<>>]
  BY DEF SchemaInv
<1>2. SchemaCallOK(c)'
  BY <1>1 DEF SchemaCallOK
<1>3. smcall'[c].kind = "drop"
  BY <1>1
<1>4. srows' = srows /\ twice' = twice /\ minted' = minted
  OBVIOUS
<1> QED
  BY <1>1, <1>2, <1>3, <1>4, QuietStep DEF SchemaInv

LEMMA RowSet ==
    ASSUME NEW s, NEW p, NEW k, NEW n, NEW f, NEW r, NEW q, NEW w,
           s = [pc |-> p, kind |-> k, name |-> n, fields |-> f, row |-> r]
    PROVE  [s EXCEPT !.pc = q, !.row = w] = [pc |-> q, kind |-> k, name |-> n, fields |-> f, row |-> w]
<1> DEFINE t == [s EXCEPT !.pc = q, !.row = w]
<1>1. DOMAIN t = {"pc", "kind", "name", "fields", "row"}
  OBVIOUS
<1>2. t.pc = q /\ t.row = w /\ t.kind = k /\ t.name = n /\ t.fields = f
  OBVIOUS
<1>3. t = [x \in DOMAIN t |-> t[x]]
  OBVIOUS
<1> HIDE DEF t
<1>4. t = [pc |-> q, kind |-> k, name |-> n, fields |-> f, row |-> w]
  BY <1>1, <1>2, <1>3
<1> QED
  BY <1>4 DEF t

LEMMA ScanStep ==
    ASSUME SchemaInv, NEW c \in SchemaCalls, ScanForDrop(c)
    PROVE  SchemaInv'
<1> DEFINE name == smcall[c].name
<1>0. SchemaCallOK(c) /\ smcall[c] # NoSchemaCall
  BY DEF SchemaInv, NoSchemaCall, ScanForDrop
<1>1. smcall' = [x \in SchemaCalls |-> smcall'[x]]
      /\ \A d \in SchemaCalls : d # c => smcall'[d] = smcall[d]
  BY DEF SchemaInv, ScanForDrop
<1>2. smcall'[c] = [smcall[c] EXCEPT !.pc = "remove", !.row = FirstRow(name)]
  BY DEF SchemaInv, ScanForDrop
<1>a. smcall[c].pc = "scan" /\ smcall[c].kind = "drop"
  BY <1>0 DEF SchemaCallOK, ScanForDrop
<1>3. smcall'[c] = [pc |-> "remove", kind |-> "drop", name |-> name,
                    fields |-> smcall[c].fields, row |-> FirstRow(name)]
  <2>1. smcall[c] = [pc |-> smcall[c].pc, kind |-> smcall[c].kind, name |-> name,
                     fields |-> smcall[c].fields, row |-> smcall[c].row]
    BY <1>0 DEF SchemaCallOK
  <2> QED
    BY <1>2, <1>a, <2>1, RowSet
<1>4. /\ FirstRow(name) \subseteq minted /\ \A r \in FirstRow(name) : srows[r].name = name
      /\ \A r, q \in FirstRow(name) : r = q
  BY FirstRowIs DEF NamedRows, SchemaInv
<1>b. name \in SchemaNames /\ srows' = srows /\ minted' = minted
  BY <1>0 DEF SchemaCallOK, ScanForDrop
<1> HIDE DEF name
<1>5. SchemaCallOK(c)'
  <2>1. /\ smcall'[c].pc = "remove" /\ smcall'[c].kind = "drop" /\ smcall'[c].name = name
        /\ smcall'[c].row = FirstRow(name) /\ smcall'[c].fields = smcall[c].fields
    BY <1>3
  <2> QED
    BY <1>3, <1>4, <1>b, <2>1 DEF SchemaCallOK
<1>6. smcall'[c].kind = "drop"
  BY <1>3
<1>7. srows' = srows /\ twice' = twice /\ minted' = minted
  BY DEF ScanForDrop
<1> QED
  BY <1>1, <1>5, <1>6, <1>7, QuietStep DEF SchemaInv

LEMMA RemoveStep ==
    ASSUME SchemaInv, NEW c \in SchemaCalls, RemoveSchema(c)
    PROVE  SchemaInv'
<1> USE DEF RemoveSchema
<1>1. smcall' = [x \in SchemaCalls |-> smcall'[x]]
      /\ \A d \in SchemaCalls : d # c => smcall'[d] = smcall[d]
      /\ smcall'[c] = NoSchemaCall
  BY DEF SchemaInv
<1>2. SchemaCallOK(c)'
  BY <1>1 DEF SchemaCallOK
<1>3. /\ DOMAIN srows' = DOMAIN srows \ smcall[c].row
      /\ srows' = [r \in DOMAIN srows' |-> srows'[r]]
      /\ \A r \in DOMAIN srows' : srows'[r] = srows[r]
  OBVIOUS
<1> QED
  BY <1>1, <1>2, <1>3, QuietStep DEF SchemaInv

LEMMA SaveSchemaStep ==
    ASSUME SchemaInv, NEW c \in SchemaCalls, SaveSchema(c)
    PROVE  SchemaInv'
<1> USE DEF SaveSchema
<1> DEFINE name == smcall[c].name  row == smcall[c].row
           new == [name |-> name, fields |-> smcall[c].fields]
<1>1. smcall' = [x \in SchemaCalls |-> smcall'[x]]
      /\ \A d \in SchemaCalls : d # c => smcall'[d] = smcall[d]
      /\ smcall'[c] = NoSchemaCall
  BY DEF SchemaInv
<1>2. SchemaCallOK(c)'
  BY <1>1 DEF SchemaCallOK
<1>3. SchemaCallOK(c) /\ smcall[c] # NoSchemaCall /\ smcall[c].pc = "save"
  BY DEF SchemaInv, NoSchemaCall
<1>4. c \in Creating(name) /\ SchemaOK(new.fields) /\ new.name = name /\ name \in SchemaNames
  BY <1>3 DEF SchemaCallOK, Creating, InFlight
<1> HIDE DEF new
<1>5. CASE row # {} /\ minted' = minted
           /\ srows' = LET r == CHOOSE x \in row : TRUE
                       IN IF r \in DOMAIN srows THEN [srows EXCEPT ![r] = new] ELSE srows
  <2>1. PICK r \in row : r = CHOOSE x \in row : TRUE
    BY <1>5
  <2>2. srows' = IF r \in DOMAIN srows THEN [srows EXCEPT ![r] = new] ELSE srows
    BY <1>5, <2>1
  <2>3. r \in DOMAIN srows => srows[r].name = name
    BY <1>3 DEF SchemaCallOK
  <2>4. DOMAIN srows' = DOMAIN srows /\ srows' = [x \in DOMAIN srows' |-> srows'[x]]
        /\ \A x \in DOMAIN srows' : srows'[x] = IF x = r THEN new ELSE srows[x]
    BY <2>2 DEF SchemaInv
  <2>5. \A x \in DOMAIN srows' : srows'[x].name = srows[x].name /\ SchemaOK(srows'[x].fields)
    BY <1>4, <2>3, <2>4 DEF SchemaInv
  <2> QED
    BY <1>1, <1>2, <1>5, <2>4, <2>5, QuietStep
<1>6. ASSUME row = {}, NEW r \in RowIds \ minted, minted' = minted \cup {r},
             srows' = [x \in DOMAIN srows \cup {r} |-> IF x = r THEN new ELSE srows[x]]
      PROVE  SchemaInv'
  <2>1. DOMAIN srows' = DOMAIN srows \cup {r} /\ srows' = [x \in DOMAIN srows' |-> srows'[x]]
        /\ srows'[r] = new /\ \A x \in DOMAIN srows : srows'[x] = srows[x]
    BY <1>6 DEF SchemaInv
  <2>2. \A x \in DOMAIN srows' : SchemaOK(srows'[x].fields)
    BY <1>4, <2>1 DEF SchemaInv
  <2>3. ASSUME NEW d \in SchemaCalls PROVE SchemaCallOK(d)'
    <3>1. SchemaCallOK(d) /\ DOMAIN srows \subseteq minted
      BY DEF SchemaInv
    <3>2. CASE d = c
      BY <3>2, <1>2
    <3>3. CASE d # c
      BY <1>1, <1>6, <2>1, <3>1, <3>3 DEF SchemaCallOK
    <3> QED
      BY <3>2, <3>3
  <2>4. ASSUME NEW n \in SchemaNames \ twice' PROVE NameOK(n)'
    <3>0. NameOK(n)
      BY DEF SchemaInv
    <3>1. \A d \in Creating(n)' : d \in Creating(n) /\ d # c /\ smcall'[d] = smcall[d]
      BY <1>1 DEF Creating, InFlight, NoSchemaCall
    <3>2. CASE n = name
      <4>1. NamedRows(n) = {} /\ Creating(n)' = {}
        BY <1>4, <1>6, <3>0, <3>1, <3>2 DEF NameOK
      <4>2. NamedRows(n)' \subseteq {r}
        BY <2>1, <4>1 DEF NamedRows
      <4> QED
        BY <4>1, <4>2 DEF NameOK
    <3>3. CASE n # name
      <4>1. NamedRows(n)' = NamedRows(n)
        <5>1. r \notin DOMAIN srows
          BY DEF SchemaInv
        <5> QED
          BY <1>4, <2>1, <3>3, <5>1 DEF NamedRows
      <4> QED
        BY <3>0, <3>1, <4>1 DEF NameOK
    <3> QED
      BY <3>2, <3>3
  <2> QED
    BY <1>1, <1>6, <2>1, <2>2, <2>3, <2>4 DEF SchemaInv
<1> QED
  BY <1>5, <1>6 DEF new

LEMMA InsertDataStep ==
    ASSUME SchemaInv, UNCHANGED <<srows, smcall, twice, minted>>
    PROVE  SchemaInv'
  BY DEF SchemaInv, SchemaCallOK, NameOK, Creating, InFlight, NamedRows

LEMMA SchemaStep == SchemaInv /\ [SchemaSteps]_schemaVars => SchemaInv'
<1> SUFFICES ASSUME SchemaInv, [SchemaSteps]_schemaVars PROVE SchemaInv'
  OBVIOUS
<1>1. CASE UNCHANGED <<srows, smcall, twice, minted>>
  BY <1>1, InsertDataStep
<1>2. ASSUME NEW c \in SchemaCalls, NEW name \in SchemaNames, NEW defs \in SchemaDefs,
             CreateSchema(c, name, defs)
      PROVE  SchemaInv'
  BY <1>2, CreateStep
<1>3. ASSUME NEW c \in SchemaCalls, NEW name \in SchemaNames, NEW force \in BOOLEAN,
             DropSchema(c, name, force)
      PROVE  SchemaInv'
  BY <1>3, DropStarts
<1>4. ASSUME NEW c \in SchemaCalls, SaveSchema(c) \/ ScanForDrop(c) \/ RemoveSchema(c)
      PROVE  SchemaInv'
  BY <1>4, SaveSchemaStep, ScanStep, RemoveStep
<1> QED
  BY <1>1, <1>2, <1>3, <1>4 DEF SchemaSteps, schemaVars, InsertData

LEMMA RowsCounted == ASSUME SchemaInv' PROVE OneRowEach
<1> SUFFICES ASSUME NEW name \in SchemaNames \ twice'
             PROVE  Cardinality(NamedRows(name)') <= 1
  BY DEF OneRowEach
<1>1. \A r, q \in NamedRows(name)' : r = q
  BY DEF SchemaInv, NameOK
<1>2. CASE NamedRows(name)' = {}
  BY <1>2, FS_EmptySet
<1>3. ASSUME NEW r \in NamedRows(name)' PROVE Cardinality(NamedRows(name)') <= 1
  <2>1. NamedRows(name)' = {r}
    BY <1>1, <1>3
  <2>2. Cardinality({r}) = 1
    BY FS_Singleton
  <2> QED
    BY <2>1, <2>2
<1> QED
  BY <1>2, <1>3

LEMMA RemoveRight ==
    ASSUME SchemaInv, SchemaSteps, NEW c \in SchemaCalls
    PROVE  RemovesRight(c)
<1> SUFFICES ASSUME smcall[c].pc = "remove", smcall'[c].pc = "idle"
             PROVE  /\ \A r \in DOMAIN srows \ DOMAIN srows' : srows[r].name = smcall[c].name
                    /\ smcall[c].row \cap DOMAIN srows # {} =>
                         \A name \in {smcall[c].name} \ twice : NamedRows(name)' = {}
  BY DEF RemovesRight
<1>0. smcall = [x \in SchemaCalls |-> smcall[x]] /\ SchemaCallOK(c)
  BY DEF SchemaInv
<1>1. RemoveSchema(c)
  <2>1. ASSUME NEW d \in SchemaCalls, NEW name \in SchemaNames, NEW defs \in SchemaDefs,
               CreateSchema(d, name, defs)
        PROVE  FALSE
    BY <1>0, <2>1 DEF CreateSchema, NoSchemaCall
  <2>2. ASSUME NEW d \in SchemaCalls, NEW name \in SchemaNames, NEW force \in BOOLEAN,
               DropSchema(d, name, force)
        PROVE  FALSE
    BY <1>0, <2>2 DEF DropSchema, NoSchemaCall
  <2>3. ASSUME NEW d \in SchemaCalls, SaveSchema(d) PROVE FALSE
    BY <1>0, <2>3 DEF SaveSchema, NoSchemaCall
  <2>4. ASSUME NEW d \in SchemaCalls, ScanForDrop(d) PROVE FALSE
    BY <1>0, <2>4 DEF ScanForDrop
  <2>5. ASSUME NEW d \in SchemaCalls, RemoveSchema(d) PROVE d = c
    BY <1>0, <2>5 DEF RemoveSchema
  <2>6. ASSUME NEW name \in SchemaNames, InsertData(name) PROVE FALSE
    BY <2>6 DEF InsertData
  <2> QED
    BY <2>1, <2>2, <2>3, <2>4, <2>5, <2>6 DEF SchemaSteps
<1>2. DOMAIN srows' = DOMAIN srows \ smcall[c].row /\ \A r \in DOMAIN srows' : srows'[r] = srows[r]
  BY <1>1 DEF RemoveSchema
<1>3. smcall[c] # NoSchemaCall
  BY DEF NoSchemaCall
<1>4. /\ smcall[c].name \in SchemaNames
      /\ \A r \in smcall[c].row \cap DOMAIN srows : srows[r].name = smcall[c].name
  BY <1>0, <1>3 DEF SchemaCallOK
<1>5. ASSUME smcall[c].row \cap DOMAIN srows # {}, NEW name, name = smcall[c].name, name \notin twice
      PROVE  NamedRows(name)' = {}
  <2>1. PICK r : r \in smcall[c].row /\ r \in DOMAIN srows
    BY <1>5
  <2>2. NamedRows(name) = {r}
    <3>1. r \in NamedRows(name)
      BY <1>4, <1>5, <2>1 DEF NamedRows
    <3>2. NameOK(name)
      BY <1>4, <1>5 DEF SchemaInv
    <3> QED
      BY <3>1, <3>2 DEF NameOK
  <2> QED
    BY <1>2, <2>1, <2>2 DEF NamedRows
<1> QED
  BY <1>2, <1>4, <1>5

LEMMA SaveRight ==
    ASSUME SchemaInv, SchemaInv', NEW c \in SchemaCalls
    PROVE  SavesRight(c)
<1>1. \A r \in DOMAIN srows : SchemaOK(srows[r].fields)
  BY DEF SchemaInv
<1>2. \A r \in DOMAIN srows' : SchemaOK(srows'[r].fields)
  BY DEF SchemaInv
<1> QED
  BY <1>1, <1>2, MigrateReaches DEF SavesRight

(* SchemaRowsExact of SchemaManager (src/schema/mod.rs, migration.rs), for any
   number of names, definitions, rows and concurrent calls: a name has one
   schema row unless two creates of it overlapped, a drop takes the row of its
   name and no other, and the generated migration reaches the new version in
   whatever order its actions are applied. *)
THEOREM SchemaRowsStayExact == SchemaSpec => SchemaRowsExact
<1>1. SchemaSpec => []SchemaInv
  BY SchemaStarts, SchemaStep, PTL DEF SchemaSpec
<1>2. SchemaInv /\ SchemaInv' /\ SchemaSteps
          => OneRowEach /\ \A c \in SchemaCalls : RemovesRight(c) /\ SavesRight(c)
  BY RowsCounted, RemoveRight, SaveRight
<1> QED
  BY <1>1, <1>2, PTL DEF SchemaSpec, SchemaRowsExact
================================================================================
