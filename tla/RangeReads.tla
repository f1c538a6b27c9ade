------------------------------- MODULE RangeReads -------------------------------
(***************************************************************************)
(* Reads and writes of one range through the admin service of its members  *)
(* (crates/aresadb-cluster/src/admin.rs, range.rs, error.rs): routing, the *)
(* linearizability guard, the stale paths and what each error means.       *)
(* openraft is external: a leader that lost its majority goes on believing *)
(* it leads until it hears of another; the read index is the leader's      *)
(* commit index once a majority has answered.                              *)
(*                                                                         *)
(* A value is the log index of the write that stored it.                   *)
(***************************************************************************)
EXTENDS Integers, FiniteSets

CONSTANTS ReadMembers, IsDefault, MaxWrites

ASSUME ReadConstants == IsDefault \in BOOLEAN /\ MaxWrites \in Nat

VARIABLES
    commitIndex,    \* of the group
    appliedTo,      \* per member, in its data backend
    metric,         \* per member, last_applied of the metrics watch
    trueLeader,     \* the member a majority follows, or 0
    claims,         \* members that believe they lead
    hosted,         \* members whose directory has the range
    acked,          \* the highest log_index a client was told
    reader,         \* [pc, at, mode, floor, index, value, result, reported]
    writer          \* [pc, at, index, result]

readVars == <<commitIndex, appliedTo, metric, trueLeader, claims, hosted, acked, reader, writer>>

NoRead == [pc |-> "idle", at |-> 0, mode |-> "", floor |-> 0, index |-> 0,
           value |-> 0, result |-> "", reported |-> 0]
NoWrite == [pc |-> "idle", at |-> 0, index |-> 0, result |-> ""]

(* ReadError, WriteError and the gRPC code each becomes; Fatal is a group that
   was stopped.  Storage (also "Internal") needs a failed engine.          *)
ReadStatus == [NotLeader |-> "FailedPrecondition", QuorumUnavailable |-> "Unavailable",
               Fatal |-> "Internal"]
WriteStatus == [NotLeader |-> "FailedPrecondition", RangeNotFound |-> "NotFound",
                Fatal |-> "Internal"]

ReadsInit ==
    /\ commitIndex = 0
    /\ appliedTo = [m \in ReadMembers |-> 0] /\ metric = appliedTo
    /\ trueLeader = 0 /\ claims = {} /\ hosted = ReadMembers
    /\ acked = 0 /\ reader = NoRead /\ writer = NoWrite

-------------------------------------------------------------------------------
(* openraft *)
NewLeader(m) ==
    /\ m # trueLeader /\ m \in hosted
    /\ trueLeader' = m /\ claims' = claims \cup {m}
    /\ UNCHANGED <<commitIndex, appliedTo, metric, hosted, acked, reader, writer>>

HearsOfLeader(m) ==
    /\ m \in claims /\ m # trueLeader
    /\ claims' = claims \ {m}
    /\ UNCHANGED <<commitIndex, appliedTo, metric, trueLeader, hosted, acked, reader, writer>>

ApplyNext(m) ==
    /\ appliedTo[m] < commitIndex /\ m \in hosted
    /\ appliedTo' = [appliedTo EXCEPT ![m] = @ + 1]
    /\ UNCHANGED <<commitIndex, metric, trueLeader, claims, hosted, acked, reader, writer>>

(* The watch channel follows the state machine's task. *)
MetricsFlush(m) ==
    /\ metric[m] < appliedTo[m] /\ m \in hosted
    /\ metric' = [metric EXCEPT ![m] = appliedTo[m]]
    /\ UNCHANGED <<commitIndex, appliedTo, trueLeader, claims, hosted, acked, reader, writer>>

(* AdminService::remove_range: the range leaves the directory and its group
   stops.  While a read holds the runtime, and always for the default range,
   that takes force; without it the call is refused.                       *)
RangeRemoved(m) ==
    /\ m \in hosted
    /\ hosted' = hosted \ {m}
    /\ claims' = claims \ {m}
    /\ trueLeader' = IF trueLeader = m THEN 0 ELSE trueLeader
    /\ UNCHANGED <<commitIndex, appliedTo, metric, acked, reader, writer>>

-------------------------------------------------------------------------------
(* AdminService::write *)
BeginWrite(m) ==
    /\ writer.pc # "pending"
    /\ writer' = IF m \notin hosted
                 THEN [NoWrite EXCEPT !.pc = "done", !.at = m,
                          !.result = IF IsDefault THEN WriteStatus.Fatal
                                     ELSE WriteStatus.RangeNotFound]
                 ELSE IF m \notin claims
                 THEN [NoWrite EXCEPT !.pc = "done", !.at = m,
                                        !.result = WriteStatus.NotLeader]
                 ELSE [NoWrite EXCEPT !.pc = "pending", !.at = m]
    /\ UNCHANGED <<commitIndex, appliedTo, metric, trueLeader, claims, hosted, acked, reader>>

(* openraft commits the entry, under its own leader or a successor. *)
CommitWrite ==
    /\ writer.pc = "pending" /\ writer.index = 0
    /\ trueLeader # 0 /\ commitIndex < MaxWrites
    /\ commitIndex' = commitIndex + 1
    /\ writer' = [writer EXCEPT !.index = commitIndex']
    /\ UNCHANGED <<appliedTo, metric, trueLeader, claims, hosted, acked, reader>>

(* client_write answers when its node has applied the entry, and the response
   carries the log index; or the node learns that it no longer leads, or its
   group is stopped.                                                       *)
EndWrite ==
    /\ writer.pc = "pending"
    /\ \/ /\ writer.index # 0 /\ appliedTo[writer.at] >= writer.index
          /\ writer' = [writer EXCEPT !.pc = "done", !.result = "Ok"]
          /\ acked' = IF acked < writer.index THEN writer.index ELSE acked
       \/ /\ writer.at \in hosted \ claims
          /\ writer' = [writer EXCEPT !.pc = "done", !.result = WriteStatus.NotLeader]
          /\ UNCHANGED acked
       \/ /\ writer.at \notin hosted
          /\ writer' = [writer EXCEPT !.pc = "done", !.result = WriteStatus.Fatal]
          /\ UNCHANGED acked
    /\ UNCHANGED <<commitIndex, appliedTo, metric, trueLeader, claims, hosted, reader>>

-------------------------------------------------------------------------------
(* AdminService::read: the default range without a consistency reads the data
   backend at once; everything else looks the range up first. *)
BeginRead(m, mode) ==
    /\ reader.pc \in {"idle", "done"}
    /\ LET call == [NoRead EXCEPT !.at = m, !.mode = mode, !.floor = acked] IN
       reader' = IF IsDefault /\ mode = "Unspecified" THEN [call EXCEPT !.pc = "get"]
                 ELSE IF m \notin hosted
                 THEN [call EXCEPT !.pc = "done", !.result = "NotFound"]
                 ELSE IF mode = "Linearizable" THEN [call EXCEPT !.pc = "ensure"]
                 ELSE [call EXCEPT !.pc = "get"]
    /\ UNCHANGED <<commitIndex, appliedTo, metric, trueLeader, claims, hosted, acked, writer>>

(* A mutant: leadership is taken from the metrics, no quorum asked. *)
EnsureLinearizable_Claims ==
    /\ reader.pc = "ensure"
    /\ reader' = IF reader.at \notin claims
                 THEN [reader EXCEPT !.pc = "done", !.result = ReadStatus.NotLeader]
                 ELSE [reader EXCEPT !.pc = "wait", !.index = appliedTo[reader.at]]
    /\ UNCHANGED <<commitIndex, appliedTo, metric, trueLeader, claims, hosted, acked, writer>>

(* ensure_linearizable: the leader asks a majority, then waits for its state
   machine to reach the read index. *)
EnsureLinearizable ==
    /\ reader.pc = "ensure" /\ reader.at \in hosted
    /\ reader' = IF reader.at \notin claims
                 THEN [reader EXCEPT !.pc = "done", !.result = ReadStatus.NotLeader]
                 ELSE IF reader.at # trueLeader
                 THEN [reader EXCEPT !.pc = "done", !.result = ReadStatus.QuorumUnavailable]
                 ELSE [reader EXCEPT !.pc = "wait", !.index = commitIndex]
    /\ UNCHANGED <<commitIndex, appliedTo, metric, trueLeader, claims, hosted, acked, writer>>

IndexApplied ==
    /\ reader.pc = "wait" /\ reader.at \in hosted
    /\ metric[reader.at] >= reader.index
    /\ reader' = [reader EXCEPT !.pc = "get"]
    /\ UNCHANGED <<commitIndex, appliedTo, metric, trueLeader, claims, hosted, acked, writer>>

GroupStopped ==
    /\ reader.pc \in {"ensure", "wait"} /\ reader.at \notin hosted
    /\ reader' = [reader EXCEPT !.pc = "done", !.result = ReadStatus.Fatal]
    /\ UNCHANGED <<commitIndex, appliedTo, metric, trueLeader, claims, hosted, acked, writer>>

(* data_backend.get, for linearizable_get and stale_get alike. *)
GetValue ==
    /\ reader.pc = "get"
    /\ reader' = [reader EXCEPT !.pc = IF reader.mode = "Linearizable" THEN "report" ELSE "done",
                                !.value = appliedTo[reader.at], !.result = "Ok"]
    /\ UNCHANGED <<commitIndex, appliedTo, metric, trueLeader, claims, hosted, acked, writer>>

(* leadership_status gives the read_log_index of the response. *)
ReportIndex ==
    /\ reader.pc = "report"
    /\ reader' = [reader EXCEPT !.pc = "done", !.reported = metric[reader.at]]
    /\ UNCHANGED <<commitIndex, appliedTo, metric, trueLeader, claims, hosted, acked, writer>>

ReadsSteps ==
    \/ \E m \in ReadMembers :
          NewLeader(m) \/ HearsOfLeader(m) \/ ApplyNext(m) \/ MetricsFlush(m)
             \/ RangeRemoved(m) \/ BeginWrite(m)
    \/ \E m \in ReadMembers, mode \in {"Linearizable", "Stale", "Unspecified"} : BeginRead(m, mode)
    \/ CommitWrite \/ EndWrite
    \/ EnsureLinearizable \/ IndexApplied \/ GroupStopped \/ GetValue \/ ReportIndex

ReadsSpec == ReadsInit /\ [][ReadsSteps]_readVars

-------------------------------------------------------------------------------
(* A linearizable read returns every write acknowledged before it began, also
   one acknowledged by another leader, through elections, lagging replicas and
   a leader that does not know it was replaced; and the read_log_index of its
   response covers those writes. *)
ReadsLinearizable ==
    reader.pc = "done" /\ reader.mode = "Linearizable" /\ reader.result = "Ok" =>
        reader.floor <= reader.value /\ reader.floor <= reader.reported
================================================================================
