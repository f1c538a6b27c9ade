-------------------------------- MODULE PdAdmin --------------------------------
(***************************************************************************)
(* One call of the PD admin API (crates/aresadb-pd/src/admin/server.rs and *)
(* client.rs) against a group whose leader moves: validation, replication, *)
(* the answer and what the typed client makes of it.  Reads are answered   *)
(* from the member's own catalog, however far it has applied.  openraft is *)
(* external: the log is the sequence of committed catalogs, and `adrift`   *)
(* holds the commands whose call has ended with an error although some     *)
(* member's log may still hold the entry: a lost connection, a core that   *)
(* stops, or a deposed leader that drops an entry another member keeps.    *)
(***************************************************************************)
EXTENDS Catalog, Sequences, FiniteSets

CONSTANTS
    AdminMembers,
    AdminRequests,      \* commands of Catalog.tla, possibly invalid, and reads
    MaxCommits,
    MaxAdrift           \* bound: entries whose call is over and that may still commit

Reads == {"GetRange", "GetRangeByKey", "ListRanges", "GetNode", "ListNodes", "Status"}

ASSUME AdminConstants ==
    /\ MaxCommits \in Nat /\ MaxAdrift \in Nat
    /\ \A req \in AdminRequests :
          \/ req.op \in Reads /\ (req.op = "GetRangeByKey" => req.key \in Nat)
          \/ IsPdCommand(req)
    /\ None \notin RangeIds /\ None \notin AdminRequests
    /\ AdminMembers \subseteq Nat \ {0}

VARIABLES
    catalogs,       \* the committed catalogs, the initial one first
    caughtUp,       \* how many of them each member has applied
    pdLeader,       \* the member that leads, or 0
    admin,          \* [pc, req, at, slot, result, saw]
    adrift,         \* commands left in some log by a call that is over, or None
    ackedAt           \* history: the catalog the last write answered by a member left

adminVars == <<catalogs, caughtUp, pdLeader, admin, adrift, ackedAt>>

IdleAdmin == [pc |-> "idle", req |-> None, at |-> 0, slot |-> 0, result |-> None, saw |-> 0]

AdminInit ==
    /\ catalogs = <<NewCatalog>>
    /\ caughtUp = [m \in AdminMembers |-> 1]
    /\ pdLeader = 0
    /\ admin = IdleAdmin
    /\ adrift = [i \in 1 .. MaxAdrift |-> None]
    /\ ackedAt = [m \in AdminMembers |-> 0]

(* replica_role_from_i32 over a list of placements: one whose role is
   unspecified, or unknown, is None. *)
RolesSet(replicas) == None \notin replicas

(* The checks a handler makes before it contacts Raft.  An id of 0, an empty
   key, an empty replica set and an empty address are the unset protobuf
   fields; of a descriptor only the roles of its replicas are checked. *)
Valid(req) ==
    CASE req.op = "RegisterNode" -> req.address # ""
      [] req.op = "HeartbeatNode" -> req.node # 0
      [] req.op = "CreateRange" -> RolesSet(req.desc.replicas)
      [] req.op = "SplitRange" -> req.parent # 0 /\ req.key # 0
      [] req.op = "MergeRanges" -> req.left # 0 /\ req.right # 0
      [] req.op = "UpdateMembership" -> req.id # 0 /\ req.replicas # {} /\ RolesSet(req.replicas)
      [] req.op = "UpdateLease" -> req.id # 0 /\ (req.clear <=> req.lease = None)
      [] req.op = "GetRange" -> req.id # 0
      [] req.op = "GetNode" -> req.node # 0
      [] OTHER -> TRUE

Found(f, k) == IF k \in DOMAIN f THEN f[k] ELSE None

(* The catalog part of the status dump. *)
StatusOf(c) == [range_count |-> Cardinality(DOMAIN c.ranges), node_count |-> Cardinality(DOMAIN c.nodes),
                next_range_id |-> c.next_range_id]

(* What a read handler answers from a catalog. *)
ReadResult(c, req) ==
    CASE req.op = "GetRange" -> Found(c.ranges, req.id)
      [] req.op = "GetRangeByKey" -> Found(c.ranges, FindRangeForKey(c, req.key))
      [] req.op = "ListRanges" -> {c.ranges[c.by_start[s]] : s \in DOMAIN c.by_start}
      [] req.op = "GetNode" -> Found(c.nodes, req.node)
      [] req.op = "ListNodes" -> c.nodes
      [] req.op = "Status" -> StatusOf(c)

(* What map_status leaves of a Status. *)
Failed(error, hint) == [error |-> error, hint |-> hint]

(* A mutant: a handler forgets unwrap_response. *)
Unwrapped_Passes(response) == response

(* unwrap_response, and the payload create_range and split_range return. *)
Unwrapped(response) ==
    IF response.kind = "Error" THEN Failed("CatalogRejected", 0) ELSE response

-------------------------------------------------------------------------------
Answer(result) == admin' = [admin EXCEPT !.pc = "done", !.result = result]

CallAdmin(m, req) ==
    /\ admin.pc = "idle"
    /\ admin' = [IdleAdmin EXCEPT !.pc = "called", !.req = req, !.at = m,
                                  !.saw = Len(catalogs)]
    /\ UNCHANGED <<catalogs, caughtUp, pdLeader, adrift, ackedAt>>

RejectInvalid ==
    /\ admin.pc = "called" /\ ~Valid(admin.req)
    /\ Answer(Failed("InvalidArgument", 0))
    /\ UNCHANGED <<catalogs, caughtUp, pdLeader, adrift, ackedAt>>

ServeRead ==
    /\ admin.pc = "called" /\ Valid(admin.req) /\ admin.req.op \in Reads
    /\ admin' = [admin EXCEPT !.pc = "done", !.slot = caughtUp[admin.at],
                              !.result = ReadResult(catalogs[caughtUp[admin.at]], admin.req)]
    /\ UNCHANGED <<catalogs, caughtUp, pdLeader, adrift, ackedAt>>

(* replicate: a follower forwards, with or without knowing to whom; a leader
   takes the command into its log. *)
Replicate ==
    /\ admin.pc = "called" /\ Valid(admin.req) /\ admin.req.op \notin Reads
    /\ IF pdLeader = admin.at THEN admin' = [admin EXCEPT !.pc = "logged"]
       ELSE \E hint \in {0, pdLeader} : Answer(Failed("NotLeader", hint))
    /\ UNCHANGED <<catalogs, caughtUp, pdLeader, adrift, ackedAt>>

(* The group commits cmd after the last catalog. *)
Commits(cmd) ==
    /\ Len(catalogs) <= MaxCommits
    /\ catalogs' = Append(catalogs, Apply(catalogs[Len(catalogs)], cmd))

Committed ==
    /\ admin.pc = "logged" /\ admin.slot = 0 /\ Commits(admin.req)
    /\ admin' = [admin EXCEPT !.slot = Len(catalogs)]
    /\ UNCHANGED <<caughtUp, pdLeader, adrift, ackedAt>>

(* A member that kept the entry of a call that is over is elected and brings
   it into the log, whatever was called since. *)
Surfaces(i) ==
    /\ adrift[i] # None /\ Commits(adrift[i])
    /\ adrift' = [adrift EXCEPT ![i] = None]
    /\ UNCHANGED <<caughtUp, pdLeader, admin, ackedAt>>

(* The member has applied the entry: client_write returns its response. *)
Responds ==
    /\ admin.pc = "logged" /\ admin.slot # 0 /\ caughtUp[admin.at] > admin.slot
    /\ Answer(Unwrapped(Response(catalogs[admin.slot], admin.req)))
    /\ ackedAt' = [ackedAt EXCEPT ![admin.at] = admin.slot + 1]
    /\ UNCHANGED <<catalogs, caughtUp, pdLeader, adrift>>

(* The call ends; an entry that is not committed yet stays in some log, or was
   in none. *)
LeavesEntry ==
    \/ UNCHANGED adrift
    \/ /\ admin.slot = 0 /\ Valid(admin.req) /\ admin.req.op \notin Reads
       /\ \E i \in 1 .. MaxAdrift :
             adrift[i] = None /\ adrift' = [adrift EXCEPT ![i] = admin.req]

(* The leader's log gives way to a new leader's, which lacks the entry: the
   pending write is answered ForwardToLeader.  In a group of five another
   member may have kept the entry. *)
Removed ==
    /\ admin.pc = "logged" /\ admin.slot = 0 /\ pdLeader \notin {0, admin.at}
    /\ \E hint \in {0, pdLeader} : Answer(Failed("NotLeader", hint))
    /\ LeavesEntry
    /\ UNCHANGED <<catalogs, caughtUp, pdLeader, ackedAt>>

(* RaftError::Fatal, Status::internal: the core stopped, before or after it
   took the command into its log.  map_status makes it Rpc. *)
CoreFails ==
    /\ admin.pc \in {"called", "logged"} /\ Valid(admin.req) /\ admin.req.op \notin Reads
    /\ Answer(Failed("Rpc", 0))
    /\ LeavesEntry
    /\ UNCHANGED <<catalogs, caughtUp, pdLeader, ackedAt>>

(* The transport fails under the call, before, while or after the handler
   runs: Unavailable, which map_status takes for a leader that moved, or
   another code. *)
ConnectionLost ==
    /\ admin.pc \in {"called", "logged"}
    /\ \E error \in {"NotLeader", "Rpc"} : Answer(Failed(error, 0))
    /\ LeavesEntry
    /\ UNCHANGED <<catalogs, caughtUp, pdLeader, ackedAt>>

NextCall ==
    /\ admin.pc = "done"
    /\ admin' = IdleAdmin
    /\ UNCHANGED <<catalogs, caughtUp, pdLeader, adrift, ackedAt>>

CatchUp(m) ==
    /\ caughtUp[m] < Len(catalogs)
    /\ caughtUp' = [caughtUp EXCEPT ![m] = @ + 1]
    /\ UNCHANGED <<catalogs, pdLeader, admin, adrift, ackedAt>>

(* A leader has every committed entry. *)
LeaderMoves ==
    /\ pdLeader' \in (AdminMembers \cup {0}) \ {pdLeader}
    /\ UNCHANGED <<catalogs, caughtUp, admin, adrift, ackedAt>>

AdminSteps ==
    \/ \E m \in AdminMembers, req \in AdminRequests : CallAdmin(m, req)
    \/ \E m \in AdminMembers : CatchUp(m)
    \/ \E i \in 1 .. MaxAdrift : Surfaces(i)
    \/ RejectInvalid \/ ServeRead \/ Replicate \/ Committed \/ Responds
    \/ Removed \/ CoreFails \/ ConnectionLost \/ NextCall \/ LeaderMoves

AdminSpec == AdminInit /\ [][AdminSteps]_adminVars

-------------------------------------------------------------------------------
WriteOk == admin.pc = "done" /\ admin.req.op \notin Reads /\ "error" \notin DOMAIN admin.result

ErredAs(error) ==
    /\ admin.pc = "done" /\ admin.req.op \notin Reads
    /\ "error" \in DOMAIN admin.result /\ admin.result.error = error

Read(op) == admin.pc = "done" /\ admin.req.op = op /\ admin.slot # 0

(* What an administrator may conclude from an answer, whatever earlier calls
   left in the logs.  Ok: this call's command was committed after the call
   began, the catalog took it, and the descriptor returned is the one that
   commit stored.  InvalidArgument: the command is neither committed nor in any
   log.  CatalogRejected: it was committed and changed nothing.  NotLeader, with
   a hint or without, and Rpc promise nothing.  A read shows one committed
   catalog as a whole, none older than the last write this member answered: the
   listing has every range of it, and a lookup by key the range that holds the
   key; no range of it has the id that the status says comes next. *)
AdminExact ==
    /\ WriteOk =>
          /\ admin.slot >= admin.saw /\ Accepts(catalogs[admin.slot], admin.req)
          /\ catalogs[admin.slot + 1] = Effect(catalogs[admin.slot], admin.req)
          /\ admin.result.range # None =>
                catalogs[admin.slot + 1].ranges[admin.result.range.range_id] = admin.result.range
    /\ ErredAs("InvalidArgument") =>
          admin.slot = 0 /\ \A i \in 1 .. MaxAdrift : adrift[i] # admin.req
    /\ ErredAs("CatalogRejected") =>
          /\ admin.slot >= admin.saw /\ ~Accepts(catalogs[admin.slot], admin.req)
          /\ catalogs[admin.slot + 1] = catalogs[admin.slot]
    /\ admin.req # None /\ admin.req.op \in Reads /\ admin.slot # 0 => admin.slot >= ackedAt[admin.at]
    /\ Read("ListRanges") =>
          admin.result = {catalogs[admin.slot].ranges[i] : i \in DOMAIN catalogs[admin.slot].ranges}
    /\ Read("GetRangeByKey") =>
          LET c == catalogs[admin.slot] IN
          IF \E i \in DOMAIN c.ranges : ContainsKey(c.ranges[i], admin.req.key)
          THEN \E i \in DOMAIN c.ranges :
                  admin.result = c.ranges[i] /\ ContainsKey(c.ranges[i], admin.req.key)
          ELSE admin.result = None
    /\ Read("Status") =>
          /\ admin.result.next_range_id \notin DOMAIN catalogs[admin.slot].ranges
          /\ admin.result.range_count = Cardinality({c.range_id : c \in ReadResult(catalogs[admin.slot], [op |-> "ListRanges"])})

================================================================================
