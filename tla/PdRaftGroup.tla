----------------------------- MODULE PdRaftGroup -----------------------------
(***************************************************************************)
(* The placement-driver Raft group: replicas that apply one committed log  *)
(* of PdCommands to a durable catalog                                      *)
(* (crates/aresadb-pd/src/state_machine.rs, raft/state_machine.rs).        *)
(*                                                                         *)
(* openraft is external: it delivers the committed entries to every        *)
(* replica in order, starting after the replica's last_applied, hands a    *)
(* lagging replica another replica's snapshot, and runs snapshot builders  *)
(* in tasks of their own.  The committed log is therefore a fixed          *)
(* sequence, which every replica consumes at its own pace.                 *)
(*                                                                         *)
(* A log id is an index, 0 stands for None, and a membership is named by   *)
(* the index of its entry.  write_batch is atomic, and durable when it     *)
(* returns (both engines fsync in it), so the write and the flush that     *)
(* follows are one step.                                                   *)
(***************************************************************************)
EXTENDS Catalog, Sequences

CONSTANTS
    Replicas,    \* members of the PD group
    Setups       \* the set-ups to consider.  In one of them,
                 \* log: the committed log, of PdCommands and of Blank and
                 \*      Membership entries
                 \* faults: bound on crashes and failed writes
                 \* builds: bound on snapshots built

ASSUME GroupConstants ==
    \A s \in Setups :
        /\ s.faults \in Nat /\ s.builds \in Nat
        /\ Len(s.log) \in Nat
        /\ \A i \in 1 .. Len(s.log) :
              s.log[i].op \in {"Blank", "Membership"} \/ IsPdCommand(s.log[i])

VARIABLES
    setup,      \* the set-up
    mem,        \* mem[r]: the in-memory Catalog
    meta,       \* meta[r]: cached last_applied and last_membership
    disk,       \* disk[r]: rows under /m/pd and the meta row
    pc,         \* pc[r]: where the state-machine task is
    work,       \* work[r]: the batch or the snapshot being made durable
    builder,    \* builder[r]: the meta a snapshot builder cloned, or None
    snapshot,   \* snapshot[r]: current_snapshot (memory only), or None
    answers,    \* answers[i]: responses replicas gave to entry i, and whether
                \* the replica had strayed
    faults,     \* faults injected so far
    builds,     \* snapshots built so far
    torn,       \* history: replicas whose snapshot need not be that of its
                \* log id
    strays      \* history: replicas that met one of the two events after
                \* which a replica need not hold the catalog of its log

vars == <<setup, mem, meta, disk, pc, work, builder, snapshot, answers,
          faults, builds, torn, strays>>

Rows(c, m) == [ranges |-> c.ranges, nodes |-> c.nodes, meta |-> m]

NoMeta == [last |-> 0, member |-> 0]

(* What rehydrate takes for the id counter, which is not a row. *)
CounterHint(d) == IF DOMAIN d.ranges = {} THEN 1 ELSE Succ(Max(DOMAIN d.ranges))

(* Mutant: the catalog is not rehydrated at all. *)
Rehydrate_Nothing(d) == NewCatalog

(* PdStateMachine::rehydrate.  Rows come back in id order. *)
Rehydrate(d) ==
    Load(d.ranges, d.nodes, CounterHint(d), [i \in DOMAIN d.ranges |-> i])

(* Mutant: a split persists the left half only. *)
TouchedRanges_NoRhs(cmd, resp) ==
    CASE cmd.op = "CreateRange" -> {cmd.desc.range_id}
      [] cmd.op = "SplitRange" -> {cmd.parent}
      [] cmd.op = "MergeRanges" -> {cmd.left}
      [] cmd.op \in {"UpdateMembership", "UpdateLease"} -> {cmd.id}
      [] OTHER -> {}

(* build_write_batch: the rows one accepted command touches, copied from the
   post-apply catalog; a merge also deletes the dissolved range's row.     *)
TouchedRanges(cmd, resp) ==
    CASE cmd.op = "CreateRange" -> {cmd.desc.range_id}
      [] cmd.op = "SplitRange" -> {cmd.parent, resp.range.range_id}
      [] cmd.op = "MergeRanges" -> {cmd.left}
      [] cmd.op \in {"UpdateMembership", "UpdateLease"} -> {cmd.id}
      [] OTHER -> {}

(* Mutant: a merge leaves the dissolved range's row behind. *)
DeletedRanges_None(cmd) == {}
DeletedRanges(cmd) == IF cmd.op = "MergeRanges" THEN {cmd.right} ELSE {}
TouchedNodes(cmd) ==
    IF cmd.op \in {"RegisterNode", "HeartbeatNode"} THEN {cmd.node} ELSE {}

Overlay(rows, new, touched, deleted) ==
    [x \in (DOMAIN rows \cup touched) \ deleted |->
        IF x \in touched THEN new[x] ELSE rows[x]]

(* The batch of apply_with_meta: touched rows and the meta row together. *)
WriteBatch(d, c, cmd, resp, m) ==
    [ranges |-> Overlay(d.ranges, c.ranges,
                        TouchedRanges(cmd, resp), DeletedRanges(cmd)),
     nodes |-> Overlay(d.nodes, c.nodes, TouchedNodes(cmd), {}),
     meta |-> m]

(* The meta that goes with the entry after m. *)
NewMeta(m, entry) ==
    [last |-> m.last + 1,
     member |-> IF entry.op = "Membership" THEN m.last + 1 ELSE m.member]

log == setup.log
LogLen == Len(log)

(* What the log means, and what the group promises. *)
Promise == INSTANCE ReplicatedCatalog WITH Logs <- {s.log : s \in Setups}, durable <- disk
CatalogAt(n) == Promise!CatalogAt(n)

(* History.  The first event: a replica re-opens on rows from which the counter
   cannot be told, a merge having dissolved the range with the last id.    *)
CounterLost(d) == CounterHint(d) # CatalogAt(d.meta.last).next_range_id

(* The second: a builder reads a catalog that is ahead of the meta it cloned,
   and the snapshot is installed.                                          *)
ReadApart(r) ==
    \/ builder[r].last # meta[r].last
    \/ pc[r] \in {"applying", "applied", "failed"}
------------------------------------------------------------------------------
Init ==
    /\ setup \in Setups
    /\ mem = [r \in Replicas |-> NewCatalog]
    /\ meta = [r \in Replicas |-> NoMeta]
    /\ disk = [r \in Replicas |-> Rows(NewCatalog, NoMeta)]
    /\ pc = [r \in Replicas |-> "idle"]
    /\ work = [r \in Replicas |-> None]
    /\ builder = [r \in Replicas |-> None]
    /\ snapshot = [r \in Replicas |-> None]
    /\ answers = [i \in 1 .. LogLen |-> {}]
    /\ faults = 0
    /\ builds = 0
    /\ torn = {}
    /\ strays = {}

NextEntry(r) == log[meta[r].last + 1]

(* A Normal entry, up to the release of the catalog lock: it is applied in
   memory and its batch is built.  A rejected command changes no row, but
   the meta row is written all the same (apply_meta_only).                 *)
ApplyInMemory(r) ==
    /\ pc[r] = "idle"
    /\ meta[r].last < LogLen /\ Promise!IsCommand(NextEntry(r))
    /\ LET cmd == NextEntry(r)
           resp == Response(mem[r], cmd)
           m == NewMeta(meta[r], cmd)
       IN  /\ mem' = [mem EXCEPT ![r] = Apply(@, cmd)]
           /\ answers' = [answers EXCEPT ![m.last] =
                             @ \cup {[resp |-> resp, stray |-> r \in strays]}]
           /\ work' = [work EXCEPT ![r] =
                          IF Accepts(mem[r], cmd)
                          THEN WriteBatch(disk[r], mem'[r], cmd, resp, m)
                          ELSE [disk[r] EXCEPT !.meta = m]]
    /\ pc' = [pc EXCEPT ![r] = "applying"]
    /\ UNCHANGED <<setup, meta, disk, builder, snapshot, faults, builds, torn, strays>>

(* A Blank or a Membership entry only writes the meta row. *)
ApplyMetaOnly(r) ==
    /\ pc[r] = "idle"
    /\ meta[r].last < LogLen /\ ~Promise!IsCommand(NextEntry(r))
    /\ work' = [work EXCEPT ![r] =
                   [disk[r] EXCEPT !.meta = NewMeta(meta[r], NextEntry(r))]]
    /\ pc' = [pc EXCEPT ![r] = "applying"]
    /\ UNCHANGED <<setup, mem, meta, disk, builder, snapshot, answers, faults, builds,
                   torn, strays>>

(* write_batch and flush, of an apply or of an install: the rows and the
   meta row land together.                                                 *)
WriteDurably(r) ==
    /\ pc[r] \in {"applying", "installing"}
    /\ disk' = [disk EXCEPT ![r] = Rows(work[r], work[r].meta)]
    /\ pc' = [pc EXCEPT ![r] = IF @ = "applying" THEN "applied" ELSE "installed"]
    /\ UNCHANGED <<setup, mem, meta, work, builder, snapshot, answers, faults, builds,
                   torn, strays>>

(* apply: the cached meta follows once the durable write landed. *)
CacheMeta(r) ==
    /\ pc[r] = "applied"
    /\ meta' = [meta EXCEPT ![r] = work[r].meta]
    /\ work' = [work EXCEPT ![r] = None]
    /\ pc' = [pc EXCEPT ![r] = "idle"]
    /\ UNCHANGED <<setup, mem, disk, builder, snapshot, answers, faults, builds,
                   torn, strays>>

(* PdApplyError::Backend: the write or the flush reports an error, whether
   the batch landed or not; openraft stops the replica until a re-open.    *)
FailWrite(r) ==
    /\ pc[r] \in {"applying", "installing"} /\ faults < setup.faults
    /\ \/ disk' = disk
       \/ disk' = [disk EXCEPT ![r] = Rows(work[r], work[r].meta)]
    /\ work' = [work EXCEPT ![r] = None]
    /\ pc' = [pc EXCEPT ![r] = "failed"]
    /\ faults' = faults + 1
    /\ UNCHANGED <<setup, mem, meta, builder, snapshot, answers, builds, torn, strays>>

(* build_snapshot, first part: clone the cached meta. *)
BuilderReadsMeta(r) ==
    /\ builder[r] = None /\ pc[r] # "down" /\ builds < setup.builds
    /\ builder' = [builder EXCEPT ![r] = meta[r]]
    /\ builds' = builds + 1
    /\ UNCHANGED <<setup, mem, meta, disk, pc, work, snapshot, answers, faults, torn,
                   strays>>

(* build_snapshot, second part: read the catalog under its read lock and
   publish the result as current_snapshot.                                 *)
BuilderReadsCatalog(r) ==
    /\ builder[r] # None
    /\ snapshot' = [snapshot EXCEPT ![r] =
                       [ranges |-> mem[r].ranges, nodes |-> mem[r].nodes,
                        meta |-> builder[r], next |-> mem[r].next_range_id]]
    /\ builder' = [builder EXCEPT ![r] = None]
    /\ torn' = IF ReadApart(r) \/ r \in strays THEN torn \cup {r} ELSE torn \ {r}
    /\ UNCHANGED <<setup, mem, meta, disk, pc, work, answers, faults, builds, strays>>

(* install_snapshot up to the write: replica r lags behind the snapshot s
   holds; its batch wipes the catalog rows and writes the snapshot's.      *)
BeginInstall(r, s) ==
    /\ pc[r] = "idle"
    /\ snapshot[s] # None
    /\ snapshot[s].meta.last > meta[r].last
    /\ work' = [work EXCEPT ![r] = snapshot[s]]
    /\ pc' = [pc EXCEPT ![r] = "installing"]
    /\ strays' = IF s \in torn THEN strays \cup {r} ELSE strays
    /\ UNCHANGED <<setup, mem, meta, disk, builder, snapshot, answers, faults, builds, torn>>

(* install_snapshot, the rest: swap the catalog, then meta and snapshot.
   Snapshot rows are loaded in start_key order.                            *)
SwapCatalog(r) ==
    /\ pc[r] = "installed"
    /\ mem' = [mem EXCEPT ![r] =
                  Load(work[r].ranges, work[r].nodes, work[r].next,
                       [i \in DOMAIN work[r].ranges |-> work[r].ranges[i].start_key])]
    /\ meta' = [meta EXCEPT ![r] = work[r].meta]
    /\ snapshot' = [snapshot EXCEPT ![r] = work[r]]
    /\ work' = [work EXCEPT ![r] = None]
    /\ pc' = [pc EXCEPT ![r] = "idle"]
    /\ torn' = IF r \in strays THEN torn \cup {r} ELSE torn \ {r}
    /\ UNCHANGED <<setup, disk, builder, answers, faults, builds, strays>>

(* The process dies: everything but the disk is lost. *)
Crash(r) ==
    /\ pc[r] # "down"
    /\ pc[r] = "failed" \/ faults < setup.faults
    /\ pc' = [pc EXCEPT ![r] = "down"]
    /\ faults' = IF pc[r] = "failed" THEN faults ELSE faults + 1
    /\ mem' = [mem EXCEPT ![r] = NewCatalog]
    /\ meta' = [meta EXCEPT ![r] = NoMeta]
    /\ work' = [work EXCEPT ![r] = None]
    /\ builder' = [builder EXCEPT ![r] = None]
    /\ snapshot' = [snapshot EXCEPT ![r] = None]
    /\ UNCHANGED <<setup, disk, answers, builds, torn, strays>>

(* PdStateMachine::open and PdRaftStateMachine::open. *)
Open(r) ==
    /\ pc[r] = "down"
    /\ mem' = [mem EXCEPT ![r] = Rehydrate(disk[r])]
    /\ meta' = [meta EXCEPT ![r] = disk[r].meta]
    /\ pc' = [pc EXCEPT ![r] = "idle"]
    /\ strays' = IF CounterLost(disk[r]) THEN strays \cup {r} ELSE strays
    /\ UNCHANGED <<setup, disk, work, builder, snapshot, answers, faults, builds, torn>>

Step(r) == \/ ApplyInMemory(r) \/ ApplyMetaOnly(r) \/ WriteDurably(r)
           \/ CacheMeta(r) \/ BuilderReadsCatalog(r) \/ SwapCatalog(r)
           \/ Open(r)

Next == \E r \in Replicas :
            \/ Step(r) \/ FailWrite(r) \/ BuilderReadsMeta(r) \/ Crash(r)
            \/ \E s \in Replicas : BeginInstall(r, s)

(* openraft keeps its apply loop, its builder tasks and a supervised process
   going; a failed replica is dropped and re-opened.                       *)
Fairness == \A r \in Replicas : /\ WF_vars(Step(r))
                               /\ WF_vars(pc[r] = "failed" /\ Crash(r))

Spec == Init /\ [][Next]_vars /\ Fairness
------------------------------------------------------------------------------
(* Properties. *)

Snapshots == {snapshot[r] : r \in Replicas} \ {None}

Metas == [last : 0 .. LogLen, member : 0 .. LogLen]

(* Every variable holds what its declaration says. *)
TypeOK ==
    /\ setup \in Setups
    /\ \A r \in Replicas :
          /\ {meta[r], disk[r].meta} \subseteq Metas
          /\ pc[r] \in {"idle", "applying", "applied", "installing", "installed",
                        "failed", "down"}
          /\ builder[r] \in Metas \cup {None}
    /\ faults \in 0 .. setup.faults /\ builds \in 0 .. setup.builds
    /\ torn \subseteq Replicas /\ strays \subseteq Replicas

(* raft/state_machine.rs: every replica that applied the first n entries
   holds the catalog those entries define, id counter and indices included,
   whatever crashes, failed writes, repeated applies and snapshot installs it
   went through, unless it strayed by one of the two events.               *)
ReplicaAgreement ==
    \A r \in Replicas \ strays :
        /\ pc[r] \in {"idle", "installing", "installed"} => mem[r] = CatalogAt(meta[r].last)
        /\ pc[r] \in {"applying", "applied"} => mem[r] = CatalogAt(meta[r].last + 1)

(* The promise of module ReplicatedCatalog, state_machine.rs "Consistency
   model": at every moment, so after every crash, the rows on the disk of a
   replica that did not stray are those of the entries the meta row counts;
   and that count, with the membership beside it, only grows and is right on
   every replica.                                                          *)
KeepsPromise == Promise!Spec

(* state_machine.rs: a catalog between two applies mirrors its own disk, so
   dropping and re-opening a replica loses no range or node, a strayed one
   neither.                                                                *)
DiskMirrorsMemory ==
    \A r \in Replicas :
        pc[r] = "idle" => disk[r] = Rows(mem[r], meta[r])

(* build_snapshot: the state in a snapshot is the state at its log id. *)
SnapshotAtItsIndex ==
    \A s \in Snapshots : Rows(s, s.meta) = Promise!RowsAt(s.meta.last)

(* The same of the snapshots of which it is true: those whose builder read
   meta and catalog with no apply in between, and their installed copies.  *)
SnapshotsExact ==
    \A r \in Replicas \ torn :
        snapshot[r] # None =>
            Rows(snapshot[r], snapshot[r].meta) = Promise!RowsAt(snapshot[r].meta.last)

(* raft/mod.rs: an entry gets the same response on every replica, also when
   a crash makes a replica apply it twice.                                 *)
SameResponseEverywhere ==
    \A i \in 1 .. LogLen : \A a, b \in answers[i] : a.resp = b.resp

(* The same of the replicas of which it is true: one that has not strayed
   gives the answer the log defines.                                       *)
AnswersAgree ==
    \A i \in 1 .. LogLen : \A a \in answers[i] :
        ~a.stray => a.resp = Response(CatalogAt(i - 1), log[i])

(* The safety of a PD replica in one formula: at every moment of every crash,
   failed write, snapshot and install, catalogs, snapshots and answers are
   those of the log entries they count, until a replica re-opens with its
   counter lost or installs a snapshot read apart; there is no third way for
   a replica to leave its log.                                             *)
GroupAgrees ==
    TypeOK /\ ReplicaAgreement /\ SnapshotsExact /\ AnswersAgree /\ DiskMirrorsMemory

(* Every replica applies the whole log in the end, whatever failed before, and
   one that did not stray ends up with the catalog of the whole log.       *)
Converges ==
    <>[](\A r \in Replicas : /\ pc[r] = "idle" /\ meta[r].last = LogLen
                             /\ r \notin strays => mem[r] = CatalogAt(LogLen))
==============================================================================
