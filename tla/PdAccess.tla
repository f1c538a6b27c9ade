------------------------------- MODULE PdAccess -------------------------------
(***************************************************************************)
(* How the placement driver is reached: the in-process router and the      *)
(* PdCluster that owns the members (crates/aresadb-pd/src/raft/router.rs,  *)
(* cluster.rs, single_node.rs), PdCluster::apply with its leader hops, and *)
(* a node's heartbeat loop through the admin client and service            *)
(* (admin/heartbeat.rs, client.rs, server.rs), as it runs by itself or as  *)
(* PdSupervisor::spawn of the cluster node starts it.                      *)
(*                                                                         *)
(* openraft is external: an election needs a majority the router reaches;  *)
(* an append copies the leader's log; a write is answered when its entry   *)
(* commits, or with ForwardToLeader when a new leader's append removes it. *)
(* Nothing answers the writes of a leader that is cut off.  A core that    *)
(* meets a storage error or panics stops: its writes fail with Fatal, its  *)
(* metrics keep the last leader, and only a restart brings it back.        *)
(***************************************************************************)
EXTENDS Integers, Sequences, FiniteSets, FiniteSetsExt

CONSTANTS
    PdMembers,      \* node ids, 0 excluded
    MaxHops,        \* MAX_HOPS of PdCluster::apply
    MaxPdTerm, MaxRestarts

ASSUME PdAccessConstants ==
    /\ PdMembers \subseteq Nat \ {0} /\ IsFiniteSet(PdMembers) /\ PdMembers # {}
    /\ MaxHops \in Nat \ {0} /\ MaxPdTerm \in Nat /\ MaxRestarts \in Nat

VARIABLES
    attached,       \* PdCluster::members
    registered,     \* PdRouter::nodes
    isolated,       \* PdRouter::isolated, pairs <<from, to>>
    view,           \* openraft metrics: [term, leader], leader 0 if unknown
    memberLog,      \* openraft logs: entries [term, attempt], attempt 0 is blank
    durable,        \* the committed prefix, as far as any leader knows it
    stopped,        \* members whose openraft core has ended with an error
    reopening,      \* the member restart has taken out, or 0
    restarts,
    apply,          \* [pc, target, hop] of one PdCluster::apply
    beat,           \* [pc, client, endpoint] of one heartbeat loop, client 0 is None
    supervised,     \* PdSupervisor starts the loop
    resolver,       \* HeartbeatConfig::endpoint_for is set
    nodeKnown       \* the catalog holds the heartbeating node

groupVars == <<attached, registered, isolated, view, memberLog, durable, stopped, reopening, restarts>>
beatVars == <<beat, supervised, resolver, nodeKnown>>
accessVars == <<groupVars, apply, beatVars>>

(* A built cluster: every member open and registered, none elected yet; the
   node runs a heartbeat loop or has none. *)
AccessInit ==
    /\ attached = PdMembers /\ registered = PdMembers /\ isolated = {}
    /\ view = [m \in PdMembers |-> [term |-> 0, leader |-> 0]]
    /\ memberLog = [m \in PdMembers |-> <<>>]
    /\ durable = <<>> /\ stopped = {} /\ reopening = 0 /\ restarts = 0
    /\ apply = [pc |-> "start", target |-> 0, hop |-> 0]
    /\ resolver \in BOOLEAN /\ supervised \in BOOLEAN
    /\ supervised => ~resolver
    /\ nodeKnown = FALSE
    /\ beat \in [pc : {IF supervised THEN "spawn" ELSE "dial", "stopped"}, client : {0}, endpoint : PdMembers]

Leads(m) == view[m].leader = m

MajorityOf(S) == 2 * Cardinality(S) > Cardinality(PdMembers)

Running(m) == m \in registered /\ m \notin stopped

Lookup(from, to) == <<from, to>> \notin isolated /\ Running(to)

-------------------------------------------------------------------------------
(* openraft, over the router *)

LastTermOf(l) == IF l = <<>> THEN 0 ELSE l[Len(l)].term

UpToDate(m, q) ==
    \/ LastTermOf(memberLog[m]) > LastTermOf(memberLog[q])
    \/ LastTermOf(memberLog[m]) = LastTermOf(memberLog[q]) /\ Len(memberLog[m]) >= Len(memberLog[q])

Elect(m) ==
    LET t == Max({view[q].term : q \in PdMembers}) + 1
        Voters == {m} \cup {q \in PdMembers : Lookup(m, q) /\ UpToDate(m, q)}
    IN /\ Running(m) /\ ~Leads(m) /\ t <= MaxPdTerm
       /\ MajorityOf(Voters)
       /\ view' = [q \in PdMembers |->
                      IF q = m THEN [term |-> t, leader |-> m]
                      ELSE IF q \in Voters THEN [term |-> t, leader |-> 0] ELSE view[q]]
       /\ memberLog' = [memberLog EXCEPT ![m] = Append(@, [term |-> t, attempt |-> 0])]
       /\ UNCHANGED <<attached, registered, isolated, durable, stopped, reopening, restarts>>

(* The entries an append takes out of q's log. *)
Truncated(m, q) ==
    {memberLog[q][i] : i \in {j \in DOMAIN memberLog[q] :
                               j \notin DOMAIN memberLog[m] \/ memberLog[m][j] # memberLog[q][j]}}

AppendTo(m, q) ==
    /\ Running(m) /\ Leads(m) /\ q # m /\ Lookup(m, q)
    /\ IF view[q].term <= view[m].term
       THEN /\ view' = [view EXCEPT ![q] = view[m]]
            /\ memberLog' = [memberLog EXCEPT ![q] = memberLog[m]]
            /\ apply' = IF apply.pc = "pending" /\ apply.target = q
                           /\ \E e \in Truncated(m, q) : e.attempt = apply.hop
                        THEN [apply EXCEPT !.pc = "write", !.target = m] ELSE apply
       ELSE /\ view' = [view EXCEPT ![m] = [term |-> view[q].term, leader |-> 0]]
            /\ UNCHANGED <<memberLog, apply>>
    /\ UNCHANGED <<attached, registered, isolated, durable, stopped, reopening, restarts, beatVars>>

CommitAt(m) ==
    /\ Running(m) /\ Leads(m)
    /\ Len(memberLog[m]) > Len(durable)
    /\ LastTermOf(memberLog[m]) = view[m].term
    /\ MajorityOf({q \in PdMembers : Len(memberLog[q]) >= Len(memberLog[m])
                        /\ SubSeq(memberLog[q], 1, Len(memberLog[m])) = memberLog[m]})
    /\ durable' = memberLog[m]
    /\ UNCHANGED <<attached, registered, isolated, view, memberLog, stopped, reopening, restarts>>

CoreStops(m) ==
    /\ Running(m)
    /\ stopped' = stopped \cup {m}
    /\ UNCHANGED <<attached, registered, isolated, view, memberLog, durable, reopening, restarts>>

-------------------------------------------------------------------------------
(* PdRouter and the harness *)

Isolate(from, to) ==
    /\ from # to /\ <<from, to>> \notin isolated
    /\ isolated' = isolated \cup {<<from, to>>}
    /\ UNCHANGED <<attached, registered, view, memberLog, durable, stopped, reopening, restarts>>

Reconnect(from, to) ==
    /\ <<from, to>> \in isolated
    /\ isolated' = isolated \ {<<from, to>>}
    /\ UNCHANGED <<attached, registered, view, memberLog, durable, stopped, reopening, restarts>>

Partition(a, b) ==
    /\ a # b /\ {<<a, b>>, <<b, a>>} \cap isolated = {}
    /\ isolated' = isolated \cup {<<a, b>>, <<b, a>>}
    /\ UNCHANGED <<attached, registered, view, memberLog, durable, stopped, reopening, restarts>>

Heal(a, b) ==
    /\ {<<a, b>>, <<b, a>>} \subseteq isolated
    /\ isolated' = isolated \ {<<a, b>>, <<b, a>>}
    /\ UNCHANGED <<attached, registered, view, memberLog, durable, stopped, reopening, restarts>>

(* restart takes the member out of the map and the router, then stops it; it
   has the cluster to itself, so no apply is under way. *)
RestartTakes(m) ==
    /\ reopening = 0 /\ m \in attached /\ restarts < MaxRestarts
    /\ apply.pc \in {"start", "ok", "failed", "fatal"}
    /\ attached' = attached \ {m} /\ registered' = registered \ {m}
    /\ view' = [view EXCEPT ![m].leader = 0] /\ stopped' = stopped \ {m}
    /\ reopening' = m /\ restarts' = restarts + 1
    /\ UNCHANGED <<isolated, memberLog, durable>>

(* open registers the new handle, restart puts the member back; the vote and
   the log come from the backends. *)
RestartOpens ==
    /\ reopening # 0
    /\ registered' = registered \cup {reopening}
    /\ attached' = attached \cup {reopening}
    /\ reopening' = 0
    /\ UNCHANGED <<isolated, view, memberLog, durable, stopped, restarts>>

(* shutdown or open fails: restart returns the error and the member is gone. *)
RestartFails ==
    /\ reopening # 0
    /\ reopening' = 0
    /\ UNCHANGED <<attached, registered, isolated, view, memberLog, durable, stopped, restarts>>

-------------------------------------------------------------------------------
(* PdCluster::apply *)

Leader == IF \E m \in attached : Leads(m)
          THEN {Min({m \in attached : Leads(m)})} ELSE {}

(* The first look at leader(), and wait_for_leader's polls. *)
FindLeader ==
    /\ apply.pc \in {"start", "wait"} /\ reopening = 0
    /\ apply' = IF Leader = {} THEN [apply EXCEPT !.pc = "wait"]
                ELSE [apply EXCEPT !.pc = "write", !.target = CHOOSE m \in Leader : TRUE]
    /\ apply' # apply
    /\ UNCHANGED <<groupVars, beatVars>>

WaitTimesOut ==
    /\ apply.pc = "wait" /\ Leader = {}
    /\ apply' = [apply EXCEPT !.pc = "failed"]
    /\ UNCHANGED <<groupVars, beatVars>>

(* One turn of the loop: client_write on the target, or out of hops; a stopped
   core answers Fatal, and Err(other) ends the call. *)
ApplyWrite ==
    LET m == apply.target
        attempt == apply.hop + 1
    IN /\ apply.pc = "write"
       /\ IF apply.hop = MaxHops \/ m \notin attached
          THEN apply' = [apply EXCEPT !.pc = "failed"] /\ UNCHANGED memberLog
          ELSE IF m \in stopped
          THEN apply' = [apply EXCEPT !.pc = "fatal"] /\ UNCHANGED memberLog
          ELSE IF Leads(m)
          THEN /\ memberLog' = [memberLog EXCEPT ![m] =
                                Append(@, [term |-> view[m].term, attempt |-> attempt])]
               /\ apply' = [apply EXCEPT !.pc = "pending", !.hop = attempt]
          ELSE /\ apply' = [pc |-> IF view[m].leader = 0 THEN "wait" ELSE "write",
                            target |-> view[m].leader, hop |-> attempt]
               /\ UNCHANGED memberLog
       /\ UNCHANGED <<attached, registered, isolated, view, durable, stopped, reopening, restarts, beatVars>>

Attempts(l) == {i \in DOMAIN l : l[i].attempt # 0}

(* A mutant: a write whose leader stepped down is sent again at once. *)
ApplyAnswered_OnStepDown ==
    /\ apply.pc = "pending"
    /\ \/ ~Leads(apply.target) /\ apply' = [apply EXCEPT !.pc = "wait"]
       \/ /\ \E i \in DOMAIN durable : durable[i].attempt = apply.hop
          /\ apply' = [apply EXCEPT !.pc = "ok"]
    /\ UNCHANGED <<groupVars, beatVars>>

ApplyAnswered ==
    /\ apply.pc = "pending" /\ apply.target \notin stopped
    /\ \E i \in DOMAIN durable :
          durable[i].attempt = apply.hop /\ i \in DOMAIN memberLog[apply.target]
    /\ apply' = [apply EXCEPT !.pc = "ok"]
    /\ UNCHANGED <<groupVars, beatVars>>

(* The core of the target stops with the write in its log: Fatal. *)
ApplyFatal ==
    /\ apply.pc = "pending" /\ apply.target \in stopped
    /\ apply' = [apply EXCEPT !.pc = "fatal"]
    /\ UNCHANGED <<groupVars, beatVars>>

-------------------------------------------------------------------------------
(* PdAdminService and PdAdminClient *)

(* What map_status makes of an answer; NotLeader stands for every Unavailable,
   transport failures included, and carries the leader if the status names it. *)
Ok == [kind |-> "Ok"]
NotLeader(hint) == [kind |-> "NotLeader", hint |-> hint]
CatalogRejected == [kind |-> "CatalogRejected"]
Rpc == [kind |-> "Rpc"]

(* replicate and unwrap_response on member m, for a request that passed its
   validation; empty while the write is still waiting. *)
Replicated(m, accepted) ==
    IF m \notin registered THEN {NotLeader(0), Rpc}
    ELSE IF m \in stopped THEN {Rpc}
    ELSE IF ~Leads(m) THEN {NotLeader(view[m].leader)}
    ELSE IF MajorityOf({m} \cup {q \in PdMembers :
                                   Lookup(m, q) /\ view[q].term <= view[m].term})
    THEN {IF accepted THEN Ok ELSE CatalogRejected} ELSE {}

Connects(m) == m \in registered

-------------------------------------------------------------------------------
(* PdSupervisor::spawn dials the first endpoint and registers the node there;
   if either fails, the node does not start.  Then it spawns the loop, on the
   same endpoint and without a resolver. *)
SupervisorDials ==
    /\ beat.pc = "spawn"
    /\ beat' = IF Connects(beat.endpoint) THEN [beat EXCEPT !.pc = "register", !.client = beat.endpoint]
               ELSE [beat EXCEPT !.pc = "stopped"]
    /\ UNCHANGED <<groupVars, apply, supervised, resolver, nodeKnown>>

SupervisorRegisters ==
    /\ beat.pc = "register"
    /\ \E answer \in Replicated(beat.client, TRUE) :
          /\ nodeKnown' = (answer = Ok)
          /\ beat' = [beat EXCEPT !.pc = IF answer = Ok THEN "dial" ELSE "stopped", !.client = 0]
    /\ UNCHANGED <<groupVars, apply, supervised, resolver>>

(* The heartbeat loop.  The first dial may fail; the loop starts anyway. *)
FirstDial ==
    /\ beat.pc = "dial"
    /\ beat' = [beat EXCEPT !.pc = "select", !.client = IF Connects(beat.endpoint) THEN beat.endpoint ELSE 0]
    /\ UNCHANGED <<groupVars, apply, supervised, resolver, nodeKnown>>

(* A tick dials again if there is no client, and sends. *)
BeatTick ==
    /\ beat.pc = "select"
    /\ IF beat.client # 0 THEN beat' = [beat EXCEPT !.pc = "sent"]
       ELSE IF Connects(beat.endpoint)
       THEN beat' = [beat EXCEPT !.pc = "sent", !.client = beat.endpoint]
       ELSE UNCHANGED beat
    /\ UNCHANGED <<groupVars, apply, supervised, resolver, nodeKnown>>

(* A mutant: rotating keeps the old connection. *)
AfterAnswer_KeepsClient(answer) ==
    CASE answer.kind = "Ok" -> [beat EXCEPT !.pc = "select"]
      [] answer.kind = "NotLeader" ->
            IF answer.hint # 0 /\ resolver /\ answer.hint # beat.endpoint
            THEN [beat EXCEPT !.pc = "select", !.endpoint = answer.hint]
            ELSE [beat EXCEPT !.pc = "select"]
      [] OTHER -> [beat EXCEPT !.pc = "select", !.client = 0]

(* What the loop makes of the answer. *)
AfterAnswer(answer) ==
    CASE answer.kind = "Ok" -> [beat EXCEPT !.pc = "select"]
      [] answer.kind = "NotLeader" ->
            IF answer.hint # 0 /\ resolver /\ answer.hint # beat.endpoint
            THEN [pc |-> "select", client |-> 0, endpoint |-> answer.hint]
            ELSE [beat EXCEPT !.pc = "select"]
      [] OTHER -> [beat EXCEPT !.pc = "select", !.client = 0]

BeatAnswered(answer) ==
    /\ beat.pc = "sent"
    /\ answer \in Replicated(beat.client, nodeKnown)
    /\ beat' = AfterAnswer(answer)
    /\ UNCHANGED <<groupVars, apply, supervised, resolver, nodeKnown>>

BeatFails == \E answer \in UNION {Replicated(m, nodeKnown) : m \in PdMembers} \ {Ok} :
    BeatAnswered(answer)

(* stop, or the handle is dropped: seen at the next select. *)
BeatStops ==
    /\ beat.pc = "select"
    /\ beat' = [beat EXCEPT !.pc = "stopped"]
    /\ UNCHANGED <<groupVars, apply, supervised, resolver, nodeKnown>>

(* RegisterNode for the node of a loop by itself, by way of any leader. *)
NodeRegisters ==
    /\ ~supervised /\ ~nodeKnown /\ \E m \in PdMembers : Running(m) /\ Leads(m)
    /\ nodeKnown' = TRUE
    /\ UNCHANGED <<groupVars, apply, beat, supervised, resolver>>

-------------------------------------------------------------------------------
Faults == \E a, b \in PdMembers :
    Isolate(a, b) \/ Reconnect(a, b) \/ (a < b /\ (Partition(a, b) \/ Heal(a, b)))

Restarts == (\E m \in PdMembers : RestartTakes(m)) \/ RestartOpens \/ RestartFails

Appending == \E m, q \in PdMembers : AppendTo(m, q)

GroupSteps ==
    \/ (\E m \in PdMembers : Elect(m) \/ CommitAt(m) \/ CoreStops(m)) /\ UNCHANGED <<apply, beatVars>>
    \/ (Faults \/ Restarts) /\ UNCHANGED <<apply, beatVars>>
    \/ Appending

ApplySteps == \/ GroupSteps \/ FindLeader \/ WaitTimesOut
              \/ ApplyWrite \/ ApplyAnswered \/ ApplyFatal

BeatSteps == \/ GroupSteps \/ NodeRegisters \/ SupervisorDials \/ SupervisorRegisters
             \/ FirstDial \/ BeatTick \/ BeatAnswered(Ok) \/ BeatFails \/ BeatStops

AccessSpec == AccessInit /\ [][ApplySteps \/ BeatSteps]_accessVars

(* A leader appends to every follower it reaches at each heartbeat interval;
   the loop's task is polled, and each of its awaits ends when its answer is
   there. *)
BeatFairness ==
    /\ \A m, q \in PdMembers : WF_accessVars(AppendTo(m, q))
    /\ WF_accessVars(FirstDial) /\ WF_accessVars(BeatTick)
    /\ WF_accessVars(BeatAnswered(Ok)) /\ WF_accessVars(BeatFails)

-------------------------------------------------------------------------------
(* PdCluster::apply commits its command once and only once when it returns Ok;
   when it gives up for want of a leader or of hops, the command is in no log.
   When the core of its target stopped, the command may be in a log and commit
   after a restart, but not twice.  All of it in a group of three: there an
   attempt is sent again only after its entry has been removed from the only log
   that held it.  (In a group of five a removed entry may survive in another log
   and commit besides its successor.) *)
ApplyOnce ==
    /\ apply.pc = "ok" => Cardinality(Attempts(durable)) = 1
    /\ apply.pc = "failed" =>
          Attempts(durable) = {} /\ \A m \in PdMembers : Attempts(memberLog[m]) = {}
    /\ Cardinality(Attempts(durable)) <= 1

(* One leader of the newest term, all members up, all links healed. *)
Settled(m) ==
    /\ registered = PdMembers /\ stopped = {} /\ isolated = {}
    /\ Leads(m) /\ \A q \in PdMembers \ {m} : view[q].term <= view[m].term /\ ~Leads(q)

(* Once the group has settled on a leader, a registered node's heartbeats
   reach it again and again: with a resolver from any endpoint and through
   any earlier outage, without one only if the endpoint leads.  And a node
   whose supervisor runs is one the catalog knows: no heartbeat of it is
   rejected as an unknown node's. *)
HeartbeatsArrive ==
    /\ (<>[](\E m \in PdMembers : Settled(m) /\ nodeKnown /\ beat.pc \in {"dial", "select", "sent"}
                                    /\ (resolver \/ beat.endpoint = m)))
          => []<><<BeatAnswered(Ok)>>_accessVars
    /\ [](supervised /\ beat.pc \in {"dial", "select", "sent"} => nodeKnown)
================================================================================
