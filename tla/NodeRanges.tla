------------------------------ MODULE NodeRanges ------------------------------
(***************************************************************************)
(* The ranges of one node: the RangeDirectory, the admin RPCs and the PD   *)
(* supervisor that change it, and the node's start and shutdown            *)
(* (crates/aresadb-cluster/src/range.rs, admin.rs, node.rs,                *)
(* pd_supervisor/).                                                        *)
(*                                                                         *)
(* redb locks a range's files while a RangeRuntime has them open, so there *)
(* is at most one runtime per range id and the id names it.  A runtime is  *)
(* shared by Arc: its files close when shutdown(self) consumes it, which   *)
(* needs the last Arc, or when the last Arc is dropped.  A runtime dropped *)
(* with its Raft running closes when the Raft task has noticed (Fade).     *)
(*                                                                         *)
(* The placement driver is external: a set of ranges assigned to this node *)
(* and the copy of it on pd_endpoints[0], which answers list_ranges        *)
(* whether it leads or not.  Calls to it, and RPCs that wait for a quorum  *)
(* of a range, have no timeout: their answers are steps of somebody else   *)
(* and may never come.                                                     *)
(***************************************************************************)
EXTENDS Integers, FiniteSetsExt, Functions

CONSTANTS
    Group,         \* Group[i]: the raft group the PD gives to range i
    Assignable,    \* ranges the PD may assign to this node
    AdminAdds,     \* <<id, group>> pairs operators pass to AddRange
    Tasks,         \* RPCs in flight at a time
    None,
    MaxRpcs,       \* bound on RPCs
    MaxChanges,    \* bound on assignments and removals by the PD
    MaxRestarts    \* bound on restarts of the node

RangeIds == DOMAIN Group
Default == 1       \* DEFAULT_RANGE_ID

(* Who may hold an Arc on a runtime. *)
Actors == Tasks \cup {"sup"}
Holders == Actors \cup {"node", "drain"}
Runtimes == [group : Range(Group), raft : {"up", "halted"}, arcs : SUBSET Holders]

ASSUME NodeConstants ==
    /\ RangeIds \subseteq Nat
    /\ Default \in RangeIds \ Assignable /\ Assignable \subseteq RangeIds
    /\ AdminAdds \subseteq RangeIds \X Range(Group)
    /\ {"sup", "node", "drain"} \cap Tasks = {} /\ None \notin Runtimes
    /\ MaxRpcs \in Nat /\ MaxChanges \in Nat /\ MaxRestarts \in Nat

VARIABLES
    by_range,    \* the ids registered in the directory
    by_group,    \* the directory's other index, group -> range id
    rt,          \* rt[i]: the runtime that has range i's files open, or None
    task,        \* task[t]: where RPC t is
    sup,         \* the supervisor's reconcile task
    catalog,     \* the ranges the PD leader assigns to this node
    replica,     \* what pd_endpoints[0] knows of it
    beat,        \* the supervisor's heartbeat task: "idle", "calling" or "off"
    node,        \* "up", "stopping", "refusing", "draining" or "off"
    count        \* RPCs, PD changes and restarts so far

vars == <<by_range, by_group, rt, task, sup, catalog, replica, beat, node, count>>

Idle == [pc |-> "idle"]
Off == [pc |-> "off"]
------------------------------------------------------------------------------
(* The directory and the runtimes. *)

(* RangeDirectory::insert: neither id may be taken. *)
CanInsert(i, g) == i \notin by_range /\ g \notin DOMAIN by_group

Insert(i, g) ==
    /\ by_range' = by_range \cup {i}
    /\ by_group' = [x \in DOMAIN by_group \cup {g} |-> IF x = g THEN i ELSE by_group[x]]

(* RangeDirectory::remove: the group goes with the range. *)
RemoveEntry(i) ==
    /\ by_range' = by_range \ {i}
    /\ by_group' = Restrict(by_group, DOMAIN by_group \ {rt[i].group})

KeepDirectory == UNCHANGED <<by_range, by_group>>

(* open_on_disk by h; it fails while the files are locked. *)
Opened(g, h) == [group |-> g, raft |-> "up", arcs |-> {h}]

(* h drops its Arc: the last one closes the files of a stopped runtime. *)
Dropped(i, r, h) ==
    IF r.arcs = {h} /\ i \notin by_range' /\ r.raft = "halted" THEN None
    ELSE [r EXCEPT !.arcs = @ \ {h}]

(* The Raft task of a dropped runtime ends, and its stores go with it. *)
Fade(i) ==
    /\ rt[i] # None /\ rt[i].arcs = {} /\ i \notin by_range
    /\ rt' = [rt EXCEPT ![i] = None]
    /\ KeepDirectory /\ UNCHANGED <<task, sup, catalog, replica, beat, node, count>>
------------------------------------------------------------------------------
(* The admin service. *)

StartRpc(t, call) ==
    /\ node \in {"up", "stopping"} /\ task[t] = Idle /\ count.rpcs < MaxRpcs
    /\ task' = [task EXCEPT ![t] = call]
    /\ count' = [count EXCEPT !.rpcs = @ + 1]

Goto(t, where) == task' = [task EXCEPT ![t].pc = where]
Finish(t) == task' = [task EXCEPT ![t] = Idle]

(* add_range, pre-flight: neither id is registered. *)
AddRange(t, i, g) ==
    /\ CanInsert(i, g)
    /\ StartRpc(t, [pc |-> "opening", id |-> i, group |-> g])
    /\ KeepDirectory /\ UNCHANGED <<rt, sup, catalog, replica, beat, node>>

(* add_range: open_on_disk. *)
OpenRange(t) ==
    /\ task[t].pc = "opening"
    /\ IF rt[task[t].id] = None
       THEN /\ rt' = [rt EXCEPT ![task[t].id] = Opened(task[t].group, t)]
            /\ Goto(t, "opened")
       ELSE Finish(t) /\ UNCHANGED rt
    /\ KeepDirectory /\ UNCHANGED <<sup, catalog, replica, beat, node, count>>

(* add_range: insert; the loser of a race drops its runtime.  The winner keeps
   an Arc while it bootstraps the voter.                                   *)
RegisterRange(t) ==
    LET i == task[t].id IN
    /\ task[t].pc = "opened"
    /\ IF CanInsert(i, rt[i].group)
       THEN Insert(i, rt[i].group) /\ Goto(t, "holding") /\ UNCHANGED rt
       ELSE /\ KeepDirectory /\ Finish(t)
            /\ rt' = [rt EXCEPT ![i] = Dropped(i, @, t)]
    /\ UNCHANGED <<sup, catalog, replica, beat, node, count>>

(* read: the handler keeps an Arc until the read is done, which for a
   linearizable one takes the range's quorum.                              *)
Read(t, i) ==
    /\ i \in by_range
    /\ StartRpc(t, [pc |-> "holding", id |-> i])
    /\ rt' = [rt EXCEPT ![i].arcs = @ \cup {t}]
    /\ KeepDirectory /\ UNCHANGED <<sup, catalog, replica, beat, node>>

(* write: only the Raft handle is cloned, which keeps no runtime alive; for the
   default range the service has one of its own, whatever the directory says. *)
Write(t, i) ==
    /\ i \in by_range \cup {Default}
    /\ StartRpc(t, [pc |-> "writing"])
    /\ KeepDirectory /\ UNCHANGED <<rt, sup, catalog, replica, beat, node>>

(* client_write returns: committed by a quorum, refused, or the Raft stopped. *)
WriteAnswer(t) ==
    /\ task[t].pc = "writing"
    /\ Finish(t)
    /\ KeepDirectory /\ UNCHANGED <<rt, sup, catalog, replica, beat, node, count>>

(* The end of an RPC that holds an Arc. *)
Return(t) ==
    /\ task[t].pc = "holding"
    /\ KeepDirectory
    /\ rt' = [rt EXCEPT ![task[t].id] = Dropped(task[t].id, @, t)]
    /\ Finish(t)
    /\ UNCHANGED <<sup, catalog, replica, beat, node, count>>

(* Mutant: the runtime is looked up, and stays in the directory. *)
RemoveRange_Peeks(t, i, force) ==
    /\ i \in by_range
    /\ StartRpc(t, [pc |-> "removing", id |-> i, force |-> force])
    /\ rt' = [rt EXCEPT ![i].arcs = @ \cup {t}]
    /\ KeepDirectory /\ UNCHANGED <<sup, catalog, replica, beat, node>>

(* remove_range: the range leaves the directory first. *)
RemoveRange(t, i, force) ==
    /\ i \in by_range
    /\ StartRpc(t, [pc |-> "removing", id |-> i, force |-> force])
    /\ RemoveEntry(i)
    /\ rt' = [rt EXCEPT ![i].arcs = @ \cup {t}]
    /\ UNCHANGED <<sup, catalog, replica, beat, node>>

(* remove_range: the last Arc is shut down; a shared runtime is put back or,
   with force, only its Raft task is stopped.  If the group was taken in the
   meantime the range cannot be put back and the Arc is dropped.           *)
Unwrap(t) ==
    LET i == task[t].id
        halted == [rt[i] EXCEPT !.raft = "halted"] IN
    /\ task[t].pc = "removing"
    /\ \/ /\ rt[i].arcs = {t}
          /\ rt' = [rt EXCEPT ![i] = halted]
          /\ KeepDirectory /\ Goto(t, "closing")
       \/ /\ rt[i].arcs # {t} /\ task[t].force
          /\ KeepDirectory /\ Finish(t)
          /\ rt' = [rt EXCEPT ![i] = Dropped(i, halted, t)]
       \/ /\ rt[i].arcs # {t} /\ ~task[t].force
          /\ IF CanInsert(i, rt[i].group)
             THEN Insert(i, rt[i].group) ELSE KeepDirectory
          /\ rt' = [rt EXCEPT ![i] = Dropped(i, @, t)]
          /\ Finish(t)
    /\ UNCHANGED <<sup, catalog, replica, beat, node, count>>

(* RangeRuntime::shutdown, the end: both backends are closed. *)
CloseOwned(t) ==
    /\ task[t].pc = "closing"
    /\ rt' = [rt EXCEPT ![task[t].id] = None]
    /\ Finish(t)
    /\ KeepDirectory /\ UNCHANGED <<sup, catalog, replica, beat, node, count>>
------------------------------------------------------------------------------
(* The PD supervisor. *)

Working(add, remove) ==
    IF add = {} /\ remove = {} THEN Idle
    ELSE [pc |-> "working", add |-> add, remove |-> remove]

(* reconcile_once: list_ranges is sent. *)
SupAsk ==
    /\ sup = Idle /\ node \in {"up", "stopping"}
    /\ sup' = [pc |-> "asking"]
    /\ KeepDirectory /\ UNCHANGED <<rt, task, catalog, replica, beat, node, count>>

(* The PD endpoint answers it, or the call fails and ends the tick. *)
SupAnswer ==
    /\ sup.pc = "asking"
    /\ sup' \in {[pc |-> "fetched", pd |-> replica], Idle}
    /\ KeepDirectory /\ UNCHANGED <<rt, task, catalog, replica, beat, node, count>>

(* The heartbeat loop: a tick connects if it has to and calls heartbeat_node,
   outside the select! that watches the shutdown flag.                     *)
BeatCall ==
    /\ beat = "idle" /\ node \in {"up", "stopping"}
    /\ beat' = "calling"
    /\ KeepDirectory /\ UNCHANGED <<rt, task, sup, catalog, replica, node, count>>

BeatAnswer ==
    /\ beat = "calling"
    /\ beat' = "idle"
    /\ KeepDirectory /\ UNCHANGED <<rt, task, sup, catalog, replica, node, count>>

(* plan_reconcile.  The default range is in skip_local_ranges. *)
ToAdd(pd, local) == pd \ (local \cup {Default})

(* Mutant: an empty answer is taken for an outage. *)
ToRemove_IfAny(pd, local) == IF pd = {} THEN {} ELSE local \ (pd \cup {Default})
ToRemove(pd, local) == local \ (pd \cup {Default})

(* reconcile_once: the local side is read after the answer of the PD. *)
SupPlan ==
    /\ sup.pc = "fetched"
    /\ sup' = Working(ToAdd(sup.pd, by_range), ToRemove(sup.pd, by_range))
    /\ KeepDirectory /\ UNCHANGED <<rt, task, catalog, replica, beat, node, count>>

(* execute_plan: adds in id order, then removes in id order; an error is kept
   for the report and the plan goes on.                                    *)
SupOpen ==
    LET i == Min(sup.add) IN
    /\ sup.pc = "working" /\ sup.add # {}
    /\ IF rt[i] = None
       THEN /\ rt' = [rt EXCEPT ![i] = Opened(Group[i], "sup")]
            /\ sup' = [pc |-> "opened", id |-> i, add |-> sup.add \ {i},
                       remove |-> sup.remove]
       ELSE sup' = Working(sup.add \ {i}, sup.remove) /\ UNCHANGED rt
    /\ KeepDirectory /\ UNCHANGED <<task, catalog, replica, beat, node, count>>

(* open_and_register: insert, or drop what was opened. *)
SupRegister ==
    /\ sup.pc = "opened"
    /\ IF CanInsert(sup.id, rt[sup.id].group)
       THEN Insert(sup.id, rt[sup.id].group) ELSE KeepDirectory
    /\ rt' = [rt EXCEPT ![sup.id] = Dropped(sup.id, @, "sup")]
    /\ sup' = Working(sup.add, sup.remove)
    /\ UNCHANGED <<task, catalog, replica, beat, node, count>>

(* remove_and_shutdown: a range that is already gone is skipped. *)
SupRemove ==
    LET i == Min(sup.remove) IN
    /\ sup.pc = "working" /\ sup.add = {}
    /\ IF i \in by_range
       THEN /\ RemoveEntry(i)
            /\ rt' = [rt EXCEPT ![i].arcs = @ \cup {"sup"}]
            /\ sup' = [pc |-> "removing", id |-> i, remove |-> sup.remove \ {i}]
       ELSE /\ sup' = Working({}, sup.remove \ {i})
            /\ KeepDirectory /\ UNCHANGED rt
    /\ UNCHANGED <<task, catalog, replica, beat, node, count>>

(* remove_and_shutdown: shut down the last Arc, or stop the Raft task and leave
   the files to whoever holds the runtime.                                 *)
SupUnwrap ==
    LET halted == [rt[sup.id] EXCEPT !.raft = "halted"] IN
    /\ sup.pc = "removing"
    /\ IF rt[sup.id].arcs = {"sup"}
       THEN /\ rt' = [rt EXCEPT ![sup.id] = halted]
            /\ sup' = [sup EXCEPT !.pc = "closing"]
       ELSE /\ rt' = [rt EXCEPT ![sup.id] = [halted EXCEPT !.arcs = @ \ {"sup"}]]
            /\ sup' = Working({}, sup.remove)
    /\ KeepDirectory /\ UNCHANGED <<task, catalog, replica, beat, node, count>>

SupClose ==
    /\ sup.pc = "closing"
    /\ rt' = [rt EXCEPT ![sup.id] = None]
    /\ sup' = Working({}, sup.remove)
    /\ KeepDirectory /\ UNCHANGED <<task, catalog, replica, beat, node, count>>
------------------------------------------------------------------------------
(* The placement driver. *)

Reassign(i) ==
    /\ count.changes < MaxChanges
    /\ catalog' = IF i \in catalog THEN catalog \ {i} ELSE catalog \cup {i}
    /\ count' = [count EXCEPT !.changes = @ + 1]
    /\ KeepDirectory /\ UNCHANGED <<rt, task, sup, replica, beat, node>>

Replicate ==
    /\ replica' = catalog
    /\ KeepDirectory /\ UNCHANGED <<rt, task, sup, catalog, beat, node, count>>
------------------------------------------------------------------------------
(* The node. *)

Empty == [g \in {} |-> 0]

(* ClusterNode::start_with_pd: the default range, then the supervisor. *)
DefaultRuntime == Opened(Group[Default], "node")

Init ==
    /\ by_range = {Default} /\ by_group = [g \in {Group[Default]} |-> Default]
    /\ rt = [i \in RangeIds |-> IF i = Default THEN DefaultRuntime ELSE None]
    /\ task = [t \in Tasks |-> Idle] /\ sup = Idle
    /\ catalog = {} /\ replica = {} /\ beat = "idle" /\ node = "up"
    /\ count = [rpcs |-> 0, changes |-> 0, restarts |-> 0]

(* ClusterNode::shutdown is called: the supervisor is told to stop. *)
BeginShutdown ==
    /\ node = "up" /\ count.restarts < MaxRestarts
    /\ node' = "stopping"
    /\ count' = [count EXCEPT !.restarts = @ + 1]
    /\ KeepDirectory /\ UNCHANGED <<rt, task, sup, catalog, replica, beat>>

(* Each loop sees its flag between two ticks. *)
SupStop ==
    /\ node = "stopping" /\ sup = Idle
    /\ sup' = Off
    /\ KeepDirectory /\ UNCHANGED <<rt, task, catalog, replica, beat, node, count>>

BeatStop ==
    /\ node = "stopping" /\ beat = "idle"
    /\ beat' = "off"
    /\ KeepDirectory /\ UNCHANGED <<rt, task, sup, catalog, replica, node, count>>

(* PdSupervisorHandle::stop has waited for both; then the server is told to
   take no more RPCs.                                                      *)
ServerRefuses ==
    /\ node = "stopping" /\ sup = Off /\ beat = "off"
    /\ node' = "refusing"
    /\ KeepDirectory /\ UNCHANGED <<rt, task, sup, catalog, replica, beat, count>>

(* The server ends with its last RPC; the node drops its handle on the default
   range and drains the directory.                                         *)
ServerStop ==
    /\ node = "refusing" /\ \A t \in Tasks : task[t] = Idle
    /\ by_range' = {} /\ by_group' = Empty
    /\ rt' = [i \in RangeIds |->
                 CASE i \in by_range ->
                        [rt[i] EXCEPT !.arcs = (@ \ {"node"}) \cup {"drain"}]
                   [] i \notin by_range /\ i = Default /\ rt[i] # None ->
                        Dropped(i, rt[i], "node")
                   [] OTHER -> rt[i]]
    /\ node' = "draining"
    /\ UNCHANGED <<task, sup, catalog, replica, beat, count>>

(* One drained runtime: shut down, or only its Raft task if it is shared. *)
Drain(i) ==
    /\ node = "draining" /\ rt[i] # None /\ "drain" \in rt[i].arcs
    /\ KeepDirectory
    /\ rt' = [rt EXCEPT ![i] = Dropped(i, [@ EXCEPT !.raft = "halted"], "drain")]
    /\ UNCHANGED <<task, sup, catalog, replica, beat, node, count>>

EndShutdown ==
    /\ node = "draining"
    /\ \A i \in RangeIds : rt[i] # None => "drain" \notin rt[i].arcs
    /\ node' = "off"
    /\ KeepDirectory /\ UNCHANGED <<rt, task, sup, catalog, replica, beat, count>>

Start ==
    /\ node = "off" /\ rt[Default] = None
    /\ rt' = [rt EXCEPT ![Default] = DefaultRuntime]
    /\ Insert(Default, Group[Default])
    /\ sup' = Idle /\ beat' = "idle" /\ node' = "up"
    /\ UNCHANGED <<task, catalog, replica, count>>
------------------------------------------------------------------------------
TaskStep(t) == OpenRange(t) \/ RegisterRange(t) \/ Return(t) \/ Unwrap(t)
               \/ CloseOwned(t)

SupStep == \/ SupAsk \/ SupPlan \/ SupOpen \/ SupRegister \/ SupRemove
           \/ SupUnwrap \/ SupClose

NodeStep == \/ ServerRefuses \/ ServerStop \/ EndShutdown
            \/ \E i \in RangeIds : Drain(i)

Next ==
    \/ \E t \in Tasks :
          \/ TaskStep(t) \/ WriteAnswer(t)
          \/ \E a \in AdminAdds : AddRange(t, a[1], a[2])
          \/ \E i \in RangeIds : \/ Read(t, i) \/ Write(t, i)
                                 \/ \E force \in BOOLEAN : RemoveRange(t, i, force)
    \/ SupStep \/ SupAnswer \/ SupStop
    \/ BeatCall \/ BeatAnswer \/ BeatStop
    \/ NodeStep \/ BeginShutdown \/ Start \/ Replicate
    \/ \E i \in RangeIds : Fade(i)
    \/ \E i \in Assignable : Reassign(i)

(* RPC t waits for a quorum: a write, or a read (add_range waits ten seconds). *)
Waits(t) == \/ task[t].pc = "writing"
            \/ task[t].pc = "holding" /\ "group" \notin DOMAIN task[t]

(* tokio runs every task, the reconcile ticker fires again and again and the PD
   endpoint catches up.  select! takes one of its ready branches at random, so
   a loop that is told to stop does stop once its calls return.  Nothing is
   assumed of the answers of the PD or of a quorum.                        *)
Fairness ==
    /\ \A t \in Tasks : WF_vars(TaskStep(t) /\ ~Waits(t))
    /\ \A i \in RangeIds : WF_vars(Fade(i))
    /\ WF_vars(SupStep) /\ WF_vars(NodeStep) /\ WF_vars(Replicate)
    /\ SF_vars(SupStop) /\ SF_vars(BeatStop)

Spec == Init /\ [][Next]_vars /\ Fairness
------------------------------------------------------------------------------
(* Properties. *)

(* What an RPC and the supervisor remember at each of their steps. *)
Calls ==
    [pc : {"idle", "writing"}]
    \cup [pc : {"opening", "opened", "holding"}, id : RangeIds, group : Range(Group)]
    \cup [pc : {"holding"}, id : RangeIds]
    \cup [pc : {"removing", "closing"}, id : RangeIds, force : BOOLEAN]

Ticks ==
    [pc : {"idle", "off", "asking"}] \cup [pc : {"fetched"}, pd : SUBSET Assignable]
    \cup [pc : {"working"}, add : SUBSET RangeIds, remove : SUBSET RangeIds]
    \cup [pc : {"opened"}, id : RangeIds, add : SUBSET RangeIds,
          remove : SUBSET RangeIds]
    \cup [pc : {"removing", "closing"}, id : RangeIds, remove : SUBSET RangeIds]

(* Every variable holds what its declaration says. *)
TypeOK ==
    /\ by_range \subseteq RangeIds
    /\ DOMAIN by_group \subseteq Range(Group) /\ Range(by_group) \subseteq RangeIds
    /\ rt \in [RangeIds -> Runtimes \cup {None}]
    /\ task \in [Tasks -> Calls] /\ sup \in Ticks
    /\ catalog \subseteq Assignable /\ replica \subseteq Assignable
    /\ beat \in {"idle", "calling", "off"}
    /\ node \in {"up", "stopping", "refusing", "draining", "off"}
    /\ count \in [rpcs : 0 .. MaxRpcs, changes : 0 .. MaxChanges,
                  restarts : 0 .. MaxRestarts]

(* RangeDirectory: the two indexes hold the same runtimes, each under its own
   ids, so no RPC is routed into another range's group.                    *)
IndexesAgree ==
    /\ by_range = Range(by_group)
    /\ \A g \in DOMAIN by_group : rt[by_group[g]] # None /\ rt[by_group[g]].group = g
    /\ \A i \in by_range : rt[i] # None /\ rt[i].group \in DOMAIN by_group

(* Whatever RPCs and the supervisor do at the same time, a range that can be
   found in the directory has a running Raft task and open files, and nobody
   is about to shut it down.                                               *)
RegisteredIsAlive ==
    \A i \in by_range :
        /\ rt[i] # None /\ rt[i].raft = "up"
        /\ \A t \in Tasks : ~(task[t].pc = "closing" /\ task[t].id = i)
        /\ ~(sup.pc = "closing" /\ sup.id = i)

(* ClusterNode::shutdown: when it returns, every range it found in the
   directory is closed, so that a restart can open its files.              *)
ShutdownCloses ==
    node = "off" => \A i \in RangeIds : rt[i] # None => rt[i].arcs = {}

(* Where actor a is, the runtimes it has an Arc on, and those that it alone may
   register or close.                                                      *)
Doing(a) == IF a = "sup" THEN sup ELSE task[a]
Keeps(a, i) == /\ Doing(a).pc \in {"opened", "holding", "removing", "closing"}
               /\ Doing(a).id = i
Owns(a, i) == Keeps(a, i) /\ Doing(a).pc # "holding"

(* Range i is in good hands: its runtime runs if it is registered; if not, at
   most one actor owns it, the one that opened it or took it out; and its Arcs
   are those its holders know of.                                          *)
InGoodHands(i) ==
    /\ i \in by_range => rt[i] # None /\ rt[i].raft = "up"
    /\ \A a \in Actors : Keeps(a, i) <=> rt[i] # None /\ a \in rt[i].arcs
    /\ \A a \in Actors : Owns(a, i) =>
          /\ i \notin by_range
          /\ \A b \in Actors : Owns(b, i) => b = a
          /\ IF Doing(a).pc = "closing" THEN rt[i].arcs = {a} ELSE rt[i].raft = "up"
    /\ rt[i] # None =>
          /\ "node" \in rt[i].arcs =>
                i = Default /\ node \in {"up", "stopping", "refusing"}
          /\ "drain" \in rt[i].arcs => node = "draining"

Custody == \A i \in RangeIds : InGoodHands(i)

(* shutdown stops the supervisor, then the RPCs, then empties the directory. *)
StopsInOrder ==
    /\ node \in {"refusing", "draining", "off"} => sup = Off /\ beat = "off"
    /\ node \in {"draining", "off"} =>
          by_range = {} /\ \A t \in Tasks : task[t] = Idle

(* The inductive invariant: the directory is safe because every runtime it
   does not list has one owner and no forgotten Arc.                       *)
NodeInv == TypeOK /\ IndexesAgree /\ Custody /\ StopsInOrder

(* The safety of a node in one formula: nothing routes to a stopped range, no
   range has two owners, and shutdown leaves nothing open.                 *)
DirectorySafe == NodeInv /\ RegisteredIsAlive /\ ShutdownCloses

(* Every call that is waited for without a timeout is answered some time: a
   heartbeat, a list_ranges, and RPCs that need a quorum.                  *)
CallsAnswered ==
    /\ []<>(beat # "calling") /\ []<>(sup.pc # "asking")
    /\ \A t \in Tasks : []<>~Waits(t)

(* A running supervisor gets the catalog again and again. *)
CatalogFetched == []<>(node # "up" \/ sup.pc = "fetched")

(* supervisor.rs: failures and "collisions with racing admin RPCs" are retried
   on the next tick.  Once the PD and the operators are quiet, a running node
   that gets its answers serves exactly the ranges the PD assigns to it, and no
   other range's files stay open.                                          *)
Reconciles ==
    CallsAnswered /\ CatalogFetched =>
        <>[](node = "up" =>
                /\ by_range \ {Default} = catalog
                /\ \A i \in RangeIds \ {Default} : rt[i] # None => i \in by_range)

(* ClusterNode::shutdown waits for the heartbeat task, the reconcile task and
   every RPC in flight.  A call that is never answered holds it for ever, and
   nothing else does: no race of RPCs, reconcile steps and ticks.          *)
ShutdownReturns == CallsAnswered => (node = "stopping" ~> node = "off")

(* The progress of a node whose calls are answered: it ends up serving what
   the PD assigned, and a shutdown ends.                                   *)
NodeProgress == Reconciles /\ ShutdownReturns

==============================================================================
