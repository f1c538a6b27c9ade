------------------------------ MODULE WireServer ------------------------------
(***************************************************************************)
(* The v1 server and its clients (src/server, src/client): the accept loop *)
(* and the connection pool, one task per connection that answers frames in *)
(* order, the request handler over a database or over shards, and clients  *)
(* that send a request and read the next frame as its answer.              *)
(*                                                                         *)
(* A frame is [marked, msg]: marked if the sender compresses, because the  *)
(* compressor puts a marker byte before the body.  Each side is set up to  *)
(* compress or not on its own.  A request carries the number its client    *)
(* gave it and the answer repeats it; neither is on the wire.              *)
(***************************************************************************)
EXTENDS Integers, Sequences, FiniteSets, FiniteSetsExt

CONSTANTS
    Conns,              \* client connections
    CompressingClients, \* those built with compression
    ServerCompression,  \* ServerConfig::compression
    MaxConnections,
    ShardedMode,        \* RequestHandler::with_shards
    MaxRequests,        \* requests of one client
    RequestKinds        \* the kinds of request clients send

(* The rows of two tables. *)
Both(f, g) == [k \in DOMAIN f \cup DOMAIN g |-> IF k \in DOMAIN f THEN f[k] ELSE g[k]]

(* The response each method of the client takes; on any other it fails. *)
NodeMethods == [Ping |-> "Pong", Disconnect |-> "Goodbye", InsertNode |-> "Node",
                GetNode |-> "MaybeNode", UpdateNode |-> "Node", DeleteNode |-> "Ok",
                GetNodesByType |-> "Nodes"]
OtherMethods == [CreateEdge |-> "Edge", GetEdgesFrom |-> "Edges", Query |-> "QueryResult",
                 Status |-> "Status", BeginTransaction |-> "TransactionStarted",
                 CommitTransaction |-> "TransactionCommitted",
                 RollbackTransaction |-> "TransactionRolledBack"]
Expects == Both(NodeMethods, OtherMethods)

ASSUME WireConstants ==
    /\ CompressingClients \subseteq Conns
    /\ ServerCompression \in BOOLEAN /\ ShardedMode \in BOOLEAN
    /\ MaxConnections \in Nat /\ MaxRequests \in Nat
    /\ RequestKinds \subseteq DOMAIN Expects

VARIABLES
    loop,           \* the accept loop: [pc, conn, seen]
    active,         \* ConnectionPool::active
    stopping,       \* the shutdown flag
    link,           \* connection -> its state at the server
    up, down,       \* connection -> frames on the way
    waits,          \* connection -> the request its client waits for
    asked,          \* connection -> requests its client has sent
    gaveUp,         \* history: a client dropped a call before its answer
    mixed,          \* history: a client was Mistaken about an answer
    late,           \* history: connections admitted after shutdown
    txs, txCounter, \* RequestHandler::transactions, tx_counter
    ends,           \* history: tx id -> what it ended in
    stored          \* history: <<connection, number>> of the writes run

linkVars == <<link, up, down, waits, asked, gaveUp, mixed>>
handlerVars == <<txs, txCounter, ends, stored>>
wireVars == <<loop, active, stopping, late, linkVars, handlerVars>>

WireInit ==
    /\ loop = [pc |-> "check"] /\ active = 0 /\ stopping = FALSE /\ late = {}
    /\ link = [c \in Conns |-> "new"]
    /\ up = [c \in Conns |-> <<>>] /\ down = [c \in Conns |-> <<>>]
    /\ waits = [c \in Conns |-> {}] /\ asked = [c \in Conns |-> 0]
    /\ gaveUp = {} /\ mixed = {}
    /\ txs = {} /\ txCounter = 1 /\ ends = <<>> /\ stored = {}

-------------------------------------------------------------------------------
(* Server::run.  The flag is read only before an accept. *)

Connect(c) ==
    /\ link[c] = "new"
    /\ link' = [link EXCEPT ![c] = "backlog"]
    /\ UNCHANGED <<loop, active, stopping, late, up, down, waits, asked, gaveUp, mixed,
                   handlerVars>>

LoopCheck ==
    /\ loop.pc = "check"
    /\ loop' = [pc |-> IF stopping THEN "stopped" ELSE "accept"]
    /\ UNCHANGED <<active, stopping, late, linkVars, handlerVars>>

Accept(c) ==
    /\ loop.pc = "accept" /\ link[c] = "backlog"
    /\ loop' = [pc |-> "acquire", conn |-> c]
    /\ UNCHANGED <<active, stopping, late, linkVars, handlerVars>>

(* try_acquire: a load, then compare_exchange, again if it lost a race. *)
AcquireLoad ==
    /\ loop.pc = "acquire"
    /\ IF active >= MaxConnections
       THEN /\ loop' = [pc |-> "check"]
            /\ link' = [link EXCEPT ![loop.conn] = "gone"]
       ELSE /\ loop' = [pc |-> "exchange", conn |-> loop.conn, seen |-> active]
            /\ link' = link
    /\ UNCHANGED <<active, stopping, late, up, down, waits, asked, gaveUp, mixed,
                   handlerVars>>

(* Mutant: the count read before is stored without a comparison. *)
AcquireExchange_Blind ==
    /\ loop.pc = "exchange"
    /\ active' = loop.seen + 1
    /\ link' = [link EXCEPT ![loop.conn] = "open"]
    /\ late' = IF stopping THEN late \cup {loop.conn} ELSE late
    /\ loop' = [pc |-> "check"]
    /\ UNCHANGED <<stopping, up, down, waits, asked, gaveUp, mixed, handlerVars>>

AcquireExchange ==
    /\ loop.pc = "exchange"
    /\ IF active = loop.seen
       THEN /\ active' = active + 1
            /\ link' = [link EXCEPT ![loop.conn] = "open"]
            /\ late' = IF stopping THEN late \cup {loop.conn} ELSE late
            /\ loop' = [pc |-> "check"]
       ELSE /\ loop' = [pc |-> "acquire", conn |-> loop.conn]
            /\ UNCHANGED <<active, link, late>>
    /\ UNCHANGED <<stopping, up, down, waits, asked, gaveUp, mixed, handlerVars>>

Shutdown ==
    /\ ~stopping
    /\ stopping' = TRUE
    /\ UNCHANGED <<loop, active, late, linkVars, handlerVars>>

(* The connection's task ends and gives its slot back; one that panics does not
   come this far.                                                          *)
Release(c) ==
    /\ link[c] = "ended"
    /\ active' = active - 1
    /\ link' = [link EXCEPT ![c] = "gone"]
    /\ UNCHANGED <<loop, stopping, late, up, down, waits, asked, gaveUp, mixed, handlerVars>>

-------------------------------------------------------------------------------
(* What a body means to a reader that expects the other framing.  Without the
   marker a request's first byte is its variant's number, taken for a marker;
   with it the number is shifted, and only Ping, number 0, survives.       *)
ServerReads(frame) ==
    CASE frame.marked = ServerCompression -> "request"
      [] frame.marked /\ ~ServerCompression ->
            IF frame.msg.kind = "Ping" THEN "request" ELSE "invalid"
      [] ~frame.marked /\ ServerCompression ->
            IF frame.msg.kind = "Ping" THEN "invalid" ELSE "error"

(* An answer in the other framing is an error, but for a marked Pong. *)
ClientReads(c, frame) ==
    frame.marked = (c \in CompressingClients) \/ (frame.marked /\ frame.msg.kind = "Pong")

(* What the handlers answer if the storage call succeeds: those that take a
   database or shards, and those of a database alone.                      *)
OnNodes == [InsertNode |-> "Node", GetNode |-> "MaybeNode", UpdateNode |-> "Node",
            DeleteNode |-> "Ok", GetNodesByType |-> "Nodes"]
OnEdges == [CreateEdge |-> "Edge", GetEdgesFrom |-> "Edges"]
OnStatus == [Status |-> "Status"]
DbOnly == [GetEdgesTo |-> "Edges", DeleteEdge |-> "Ok", Query |-> "QueryResult",
           Traverse |-> "TraversalResult"]

Handlers == Both(Both(OnNodes, OnEdges), Both(OnStatus, DbOnly))

Answer(r, kind) == [kind |-> kind, no |-> r.no]

(* RequestHandler::handle.  A transaction is an entry in a map: the writes of
   its connection take effect when they are made, and rollback undoes none. *)
Respond(r) ==
    CASE r.kind = "Ping" -> {Answer(r, "Pong")}
      [] r.kind = "Disconnect" -> {Answer(r, "Goodbye")}
      [] r.kind \in DOMAIN Handlers ->
            {Answer(r, "Error")} \cup (IF ShardedMode /\ r.kind \in DOMAIN DbOnly THEN {}
                                      ELSE {Answer(r, Handlers[r.kind])})
      [] r.kind = "BeginTransaction" -> {Answer(r, "TransactionStarted")}
      [] r.kind = "CommitTransaction" ->
            {Answer(r, IF r.tx \in txs THEN "TransactionCommitted" ELSE "Error")}
      [] r.kind = "RollbackTransaction" ->
            {Answer(r, IF r.tx \in txs THEN "TransactionRolledBack" ELSE "Error")}

Writes == {"InsertNode", "UpdateNode", "DeleteNode", "CreateEdge", "DeleteEdge", "Query"}

(* Mutant: an ended transaction stays in the map. *)
HandlerEffect_KeepsTx(c, r) ==
    /\ stored' = IF r.kind \in Writes THEN stored \cup {<<c, r.no>>} ELSE stored
    /\ IF r.kind = "BeginTransaction"
       THEN txs' = txs \cup {txCounter} /\ txCounter' = txCounter + 1 /\ ends' = ends
       ELSE /\ UNCHANGED <<txs, txCounter>>
            /\ IF r.kind \in {"CommitTransaction", "RollbackTransaction"} /\ r.tx \in txs
               THEN ends' = Append(ends, <<r.tx, r.kind>>) ELSE ends' = ends

HandlerEffect(c, r) ==
    /\ stored' = IF r.kind \in Writes THEN stored \cup {<<c, r.no>>} ELSE stored
    /\ CASE r.kind = "BeginTransaction" ->
              txs' = txs \cup {txCounter} /\ txCounter' = txCounter + 1 /\ ends' = ends
         [] r.kind \in {"CommitTransaction", "RollbackTransaction"} /\ r.tx \in txs ->
              txs' = txs \ {r.tx} /\ ends' = Append(ends, <<r.tx, r.kind>>)
                 /\ txCounter' = txCounter
         [] OTHER -> UNCHANGED <<txs, txCounter, ends>>

(* handle_connection: read a frame, answer it, stop after a Goodbye or on an
   error.  A request that does not parse is answered too.  A panic in a handler,
   before or after its effect, unwinds the task: the stream is dropped and the
   release after the call is never reached.                                *)
Serve(c) ==
    LET frame == Head(up[c])
        reads == ServerReads(frame)
        r     == frame.msg
        sends(a) == [down EXCEPT ![c] = Append(@, [marked |-> ServerCompression, msg |-> a])] IN
    /\ link[c] = "open" /\ up[c] # <<>>
    /\ up' = [up EXCEPT ![c] = Tail(@)]
    /\ \/ /\ reads = "request"
          /\ HandlerEffect(c, r)
          /\ \E a \in Respond(r) : down' = sends(a)
          /\ link' = [link EXCEPT ![c] = IF r.kind = "Disconnect" THEN "ended" ELSE @]
       \/ /\ reads = "invalid"
          /\ down' = sends(Answer(r, "Error"))
          /\ UNCHANGED <<link, handlerVars>>
       \/ /\ reads = "error"
          /\ link' = [link EXCEPT ![c] = "ended"]
          /\ UNCHANGED <<down, handlerVars>>
       \/ /\ reads = "request"
          /\ HandlerEffect(c, r) \/ UNCHANGED handlerVars
          /\ link' = [link EXCEPT ![c] = "leaked"]
          /\ UNCHANGED down
    /\ UNCHANGED <<loop, active, stopping, late, waits, asked, gaveUp, mixed>>

(* End of file or a broken stream. *)
Hangup(c) ==
    /\ link[c] = "open" /\ waits[c] = {}
    /\ link' = [link EXCEPT ![c] = "ended"]
    /\ UNCHANGED <<loop, active, stopping, late, up, down, waits, asked, gaveUp, mixed,
                   handlerVars>>

-------------------------------------------------------------------------------
TxRequests == {"CommitTransaction", "RollbackTransaction"}

Requests(n) ==
    [kind : RequestKinds \ TxRequests, no : {n}]
    \cup [kind : RequestKinds \cap TxRequests, no : {n}, tx : 1 .. txCounter]

(* Client::send_request: the frame goes out, and the next frame that comes in
   is taken for the answer.  A caller may drop the call in between.        *)
SendRequest(c) == \E r \in Requests(asked[c] + 1) :
    /\ link[c] \in {"backlog", "open"}
    /\ waits[c] = {} /\ asked[c] < MaxRequests
    /\ up' = [up EXCEPT ![c] = Append(@, [marked |-> c \in CompressingClients, msg |-> r])]
    /\ waits' = [waits EXCEPT ![c] = {[kind |-> r.kind, no |-> r.no]}]
    /\ asked' = [asked EXCEPT ![c] = r.no]
    /\ UNCHANGED <<loop, active, stopping, late, link, down, gaveUp, mixed, handlerVars>>

DropCall(c) ==
    /\ waits[c] # {}
    /\ waits' = [waits EXCEPT ![c] = {}]
    /\ gaveUp' = gaveUp \cup {c}
    /\ UNCHANGED <<loop, active, stopping, late, link, up, down, asked, mixed, handlerVars>>

(* Another request's answer is taken, or its own cannot be. *)
Mistaken(r, answer) ==
    IF answer.no = r.no THEN answer.kind \notin {Expects[r.kind], "Error"}
    ELSE answer.kind = Expects[r.kind]

ReadAnswer(c) ==
    LET frame == Head(down[c]) IN
    /\ waits[c] # {} /\ down[c] # <<>>
    /\ down' = [down EXCEPT ![c] = Tail(@)]
    /\ waits' = [waits EXCEPT ![c] = {}]
    /\ mixed' = IF ClientReads(c, frame) /\ \E r \in waits[c] : Mistaken(r, frame.msg)
                THEN mixed \cup {c} ELSE mixed
    /\ UNCHANGED <<loop, active, stopping, late, link, up, asked, gaveUp, handlerVars>>

(* The server's side is closed: the read fails. *)
ReadFails(c) ==
    /\ waits[c] # {} /\ down[c] = <<>> /\ link[c] \in {"ended", "gone", "leaked"}
    /\ waits' = [waits EXCEPT ![c] = {}]
    /\ UNCHANGED <<loop, active, stopping, late, link, up, down, asked, gaveUp, mixed,
                   handlerVars>>

AdmissionSteps ==
    \/ LoopCheck \/ AcquireLoad \/ AcquireExchange \/ Shutdown
    \/ \E c \in Conns : Connect(c) \/ Accept(c) \/ Release(c) \/ Hangup(c)

TalkSteps(c) ==
    Serve(c) \/ SendRequest(c) \/ DropCall(c) \/ ReadAnswer(c) \/ ReadFails(c)

WireNext == AdmissionSteps \/ \E c \in Conns : TalkSteps(c)

WireSpec == WireInit /\ [][WireNext]_wireVars

-------------------------------------------------------------------------------
(* The pool counts the connections that run and, for ever, those whose task
   panicked, and no others, in every order of admissions and ends, so that it
   never holds more than max_connections; and
   after shutdown at most the one connection that the accept loop was already
   waiting for is admitted.                                                *)
PoolExact ==
    /\ active = Cardinality({c \in Conns : link[c] \in {"open", "ended", "leaked"}})
    /\ active <= MaxConnections
    /\ Cardinality(late) <= 1

(* A client that never dropped a call gets every answer to the request it
   asked, and one its method can take; a transaction ends once, whichever connections end it; and a client
   with the other framing can have nothing stored.                         *)
AnswersPaired ==
    /\ mixed \subseteq gaveUp
    /\ \A i, j \in DOMAIN ends : ends[i][1] = ends[j][1] => i = j
    /\ \A s \in stored : (s[1] \in CompressingClients) = ServerCompression
===============================================================================
