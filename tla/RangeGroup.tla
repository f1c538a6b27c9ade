------------------------------ MODULE RangeGroup ------------------------------
(***************************************************************************)
(* The Raft group of one data range: replicas that apply one committed log *)
(* of AresaCommands to their own store                                     *)
(* (crates/aresadb-raft/src/state_machine.rs, command.rs).                 *)
(*                                                                         *)
(* openraft is external, as in module PdRaftGroup: committed entries reach *)
(* every replica in order from its last_applied on, a lagging replica is   *)
(* given another replica's current snapshot, and a snapshot builder runs   *)
(* in a task of its own, beside the apply loop.                            *)
(*                                                                         *)
(* A log id is an index, 0 stands for None, a membership is named by the   *)
(* index of its entry.  write_batch is atomic and durable when it returns. *)
(***************************************************************************)
EXTENDS StorageEngine

CONSTANTS
    Replicas,     \* members of the group
    Engine,       \* Engine[r]: the data engine of replica r (NodeConfig)
    LogLen,       \* bound: length of the committed log
    Logs,         \* the committed logs to consider
    MaxFaults,    \* bound on crashes and failed writes, all replicas together
    MaxBuilds     \* bound on snapshots built, all replicas together

ASSUME GroupConstants ==
    /\ Engine \in [Replicas -> Engines]
    /\ LogLen \in Nat /\ MaxFaults \in Nat /\ MaxBuilds \in Nat
    /\ \A l \in Logs : /\ DOMAIN l = 1 .. LogLen
                       /\ \A i \in 1 .. LogLen :
                             l[i].op = "WriteBatch" => l[i].ops \in Seq(WriteOps)

VARIABLES
    log,        \* the committed log
    inner,      \* inner[r]: last_applied and last_membership in memory
    disk,       \* disk[r]: the user keys and the meta row
    pc,         \* pc[r]: where the state-machine task is
    incoming,   \* incoming[r]: the snapshot being installed, or Absent
    builder,    \* builder[r]: what a snapshot builder read from inner, or Absent
    snapshot,   \* snapshot[r]: current_snapshot (memory only), or Absent
    faults,     \* faults injected so far
    builds      \* snapshots built so far

vars == <<log, inner, disk, pc, incoming, builder, snapshot, faults, builds>>

NoMeta == [last |-> 0, member |-> 0]

(* The user ops of an entry: Blank, Noop and Membership carry none. *)
Ops(entry) == IF entry.op = "WriteBatch" THEN entry.ops ELSE <<>>

(* Mutant: a membership entry does not move last_membership. *)
Following_NoMember(m, entry) == [last |-> m.last + 1, member |-> m.member]

(* inner after the entry that follows m. *)
Following(m, entry) ==
    [last |-> m.last + 1,
     member |-> IF entry.op = "Membership" THEN m.last + 1 ELSE m.member]
------------------------------------------------------------------------------
Init ==
    /\ log \in Logs
    /\ inner = [r \in Replicas |-> NoMeta]
    /\ disk = [r \in Replicas |-> [data |-> EmptyStore, meta |-> NoMeta]]
    /\ pc = [r \in Replicas |-> "idle"]
    /\ incoming = [r \in Replicas |-> Absent]
    /\ builder = [r \in Replicas |-> Absent]
    /\ snapshot = [r \in Replicas |-> Absent]
    /\ faults = 0
    /\ builds = 0

(* apply, one turn of the loop: inner moves to the entry before the entry is
   written.  The write lock on inner is held from "writing" to EndApply.   *)
BeginEntry(r) ==
    /\ pc[r] \in {"idle", "looping"} /\ inner[r].last < LogLen
    /\ inner' = [inner EXCEPT ![r] = Following(@, log[@.last + 1])]
    /\ pc' = [pc EXCEPT ![r] = "writing"]
    /\ UNCHANGED <<log, disk, incoming, builder, snapshot, faults, builds>>

(* Mutant: only the meta row is written. *)
Landed_MetaOnly(r) == [data |-> disk[r].data, meta |-> inner[r]]

(* What the turn writes: the entry's ops and the meta row in one batch. *)
Landed(r) ==
    [data |-> WriteBatch(Engine[r], disk[r].data, Ops(log[inner[r].last])),
     meta |-> inner[r]]

WriteEntry(r) ==
    /\ pc[r] = "writing"
    /\ disk' = [disk EXCEPT ![r] = Landed(r)]
    /\ pc' = [pc EXCEPT ![r] = "looping"]
    /\ UNCHANGED <<log, inner, incoming, builder, snapshot, faults, builds>>

(* The end of the chunk openraft handed to apply: flush and unlock. *)
EndApply(r) ==
    /\ pc[r] = "looping"
    /\ pc' = [pc EXCEPT ![r] = "idle"]
    /\ UNCHANGED <<log, inner, disk, incoming, builder, snapshot, faults, builds>>

(* build_snapshot, first part: read inner under its read lock, which waits for
   a running apply.                                                        *)
BuilderReadsInner(r) ==
    /\ builder[r] = Absent /\ builds < MaxBuilds
    /\ pc[r] \notin {"writing", "looping", "down"}
    /\ builder' = [builder EXCEPT ![r] = inner[r]]
    /\ builds' = builds + 1
    /\ UNCHANGED <<log, inner, disk, pc, incoming, snapshot, faults>>

(* build_snapshot, second part: one consistent scan of the user keys, with no
   lock on inner, whatever the apply loop wrote since.                     *)
BuilderScans(r) ==
    /\ builder[r] # Absent
    /\ snapshot' = [snapshot EXCEPT ![r] =
                       [data |-> disk[r].data, meta |-> builder[r]]]
    /\ builder' = [builder EXCEPT ![r] = Absent]
    /\ UNCHANGED <<log, inner, disk, pc, incoming, faults, builds>>

(* Mutant: a snapshot is installed even if it is behind the replica. *)
BeginInstall_Stale(r, s) ==
    /\ pc[r] = "idle" /\ pc[s] \notin {"failed", "down"}
    /\ snapshot[s] # Absent
    /\ incoming' = [incoming EXCEPT ![r] = snapshot[s]]
    /\ pc' = [pc EXCEPT ![r] = "installing"]
    /\ UNCHANGED <<log, inner, disk, builder, snapshot, faults, builds>>

(* openraft hands replica r the snapshot of a running replica s ahead of it. *)
BeginInstall(r, s) ==
    /\ pc[r] = "idle" /\ pc[s] \notin {"failed", "down"}
    /\ snapshot[s] # Absent /\ snapshot[s].meta.last > inner[r].last
    /\ incoming' = [incoming EXCEPT ![r] = snapshot[s]]
    /\ pc' = [pc EXCEPT ![r] = "installing"]
    /\ UNCHANGED <<log, inner, disk, builder, snapshot, faults, builds>>

(* Mutant: the user keyspace is not cleared first. *)
Replaced_NoWipe(r) ==
    [data |-> [k \in Keys |-> IF incoming[r].data[k] = Absent THEN disk[r].data[k]
                              ELSE incoming[r].data[k]],
     meta |-> incoming[r].meta]

(* install_snapshot's batch: clear the user keyspace, put the snapshot's pairs,
   overwrite the meta row.                                                 *)
Replaced(r) == [data |-> [k \in Keys |-> incoming[r].data[k]],
                meta |-> incoming[r].meta]

WriteSnapshot(r) ==
    /\ pc[r] = "installing"
    /\ disk' = [disk EXCEPT ![r] = Replaced(r)]
    /\ pc' = [pc EXCEPT ![r] = "installed"]
    /\ UNCHANGED <<log, inner, incoming, builder, snapshot, faults, builds>>

(* install_snapshot, the rest: inner and current_snapshot follow. *)
FinishInstall(r) ==
    /\ pc[r] = "installed"
    /\ inner' = [inner EXCEPT ![r] = incoming[r].meta]
    /\ snapshot' = [snapshot EXCEPT ![r] = incoming[r]]
    /\ incoming' = [incoming EXCEPT ![r] = Absent]
    /\ pc' = [pc EXCEPT ![r] = "idle"]
    /\ UNCHANGED <<log, disk, builder, faults, builds>>

(* write_batch or flush reports an error, whether the batch landed or not.
   inner keeps the entry it moved to; openraft stops the replica.          *)
FailWrite(r) ==
    /\ pc[r] \in {"writing", "installing"} /\ faults < MaxFaults
    /\ \/ disk' = disk
       \/ disk' = [disk EXCEPT ![r] =
                      IF pc[r] = "writing" THEN Landed(r) ELSE Replaced(r)]
    /\ pc' = [pc EXCEPT ![r] = "failed"]
    /\ incoming' = [incoming EXCEPT ![r] = Absent]
    /\ faults' = faults + 1
    /\ UNCHANGED <<log, inner, builder, snapshot, builds>>

(* The process dies: everything but the disk is lost. *)
Crash(r) ==
    /\ pc[r] # "down"
    /\ pc[r] = "failed" \/ faults < MaxFaults
    /\ faults' = IF pc[r] = "failed" THEN faults ELSE faults + 1
    /\ pc' = [pc EXCEPT ![r] = "down"]
    /\ inner' = [inner EXCEPT ![r] = NoMeta]
    /\ incoming' = [incoming EXCEPT ![r] = Absent]
    /\ builder' = [builder EXCEPT ![r] = Absent]
    /\ snapshot' = [snapshot EXCEPT ![r] = Absent]
    /\ UNCHANGED <<log, disk, builds>>

(* StateMachineStore::open: load_persisted reads the meta row. *)
Open(r) ==
    /\ pc[r] = "down"
    /\ inner' = [inner EXCEPT ![r] = disk[r].meta]
    /\ pc' = [pc EXCEPT ![r] = "idle"]
    /\ UNCHANGED <<log, disk, incoming, builder, snapshot, faults, builds>>

Step(r) == \/ BeginEntry(r) \/ WriteEntry(r) \/ EndApply(r) \/ BuilderScans(r)
           \/ WriteSnapshot(r) \/ FinishInstall(r) \/ Open(r)

Next == \E r \in Replicas :
            \/ Step(r) \/ FailWrite(r) \/ BuilderReadsInner(r) \/ Crash(r)
            \/ \E s \in Replicas : BeginInstall(r, s)

(* openraft keeps its apply loop and builder tasks going and a supervised
   process restarts; a failed replica is dropped and re-opened.            *)
Fairness == \A r \in Replicas : /\ WF_vars(Step(r))
                               /\ WF_vars(pc[r] = "failed" /\ Crash(r))

Spec == Init /\ [][Next]_vars /\ Fairness
------------------------------------------------------------------------------
(* Properties. *)

Metas == [last : 0 .. LogLen, member : 0 .. LogLen]
Images == [data : Stores, meta : Metas]

(* Every variable holds what its declaration says. *)
TypeOK ==
    /\ log \in Logs
    /\ inner \in [Replicas -> Metas]
    /\ disk \in [Replicas -> Images]
    /\ pc \in [Replicas -> {"idle", "writing", "looping", "installing",
                            "installed", "failed", "down"}]
    /\ incoming \in [Replicas -> Images \cup {Absent}]
    /\ builder \in [Replicas -> Metas \cup {Absent}]
    /\ snapshot \in [Replicas -> Images \cup {Absent}]
    /\ faults \in 0 .. MaxFaults /\ builds \in 0 .. MaxBuilds

(* The entries up to n that decide key k: those with an op that names it. *)
Writers(l, k, n) ==
    {i \in 1 .. n : \E j \in DOMAIN Ops(l[i]) : Names(Ops(l[i])[j], k)}

(* The value of k after the first n entries, by the contract of WriteBatch. *)
ValueAt(l, k, n) ==
    IF Writers(l, k, n) = {} THEN Absent
    ELSE WriteBatch("redb", EmptyStore, Ops(l[Max(Writers(l, k, n))]))[k]

(* The last membership entry up to n. *)
MemberAt(l, n) == Max({0} \cup {i \in 1 .. n : l[i].op = "Membership"})

(* No key is older than the index that goes with the image: each holds its
   value after some number of entries that is at least the image's own.    *)
Covers(l, image) ==
    \A k \in Keys : \E n \in image.meta.last .. LogLen :
        image.data[k] = ValueAt(l, k, n)

(* state_machine.rs "Determinism": whatever crashes, failed writes, repeated
   applies and fuzzy snapshots a replica went through, its store has every
   entry its meta row counts; at the end of the log it has the log's value. *)
NothingMissing == \A r \in Replicas : Covers(log, disk[r])

(* build_snapshot: a snapshot that can be shipped has every entry up to its
   last_log_id, although the scan runs beside the apply loop.              *)
SnapshotCovers ==
    \A r \in Replicas :
        pc[r] # "failed" /\ snapshot[r] # Absent => Covers(log, snapshot[r])

(* No replica and nobody who is sent a snapshot ever misses an entry that the
   index beside the data says is there.                                    *)
NothingLost == TypeOK /\ NothingMissing /\ SnapshotCovers

(* The membership that goes with an index is the one in force there, on disk,
   in memory and in every snapshot.                                        *)
MembershipInForce ==
    \A r \in Replicas :
        \A m \in {inner[r], disk[r].meta} \cup
                 (IF snapshot[r] = Absent THEN {} ELSE {snapshot[r].meta}) :
            m.member = MemberAt(log, m.last)

(* No snapshot install, crash or failed write takes back applied entries. *)
AppliedNeverRegresses ==
    [][\A r \in Replicas : disk[r].meta.last <= disk'[r].meta.last]_vars

(* Every replica ends up with the store of the whole log, and keeps it. *)
Converges ==
    <>[](\A r \in Replicas :
            /\ inner[r].last = LogLen
            /\ \A k \in Keys : disk[r].data[k] = ValueAt(log, k, LogLen))
==============================================================================
