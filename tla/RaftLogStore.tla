----------------------------- MODULE RaftLogStore -----------------------------
(***************************************************************************)
(* LogStoreGeneric, the durable Raft log of one replica                    *)
(* (crates/aresadb-raft/src/log_store.rs), under the calls openraft makes. *)
(*                                                                         *)
(* openraft makes one call at a time.  save_vote, save_committed, append   *)
(* and truncate are one write_batch, purge is two; a batch is atomic, and  *)
(* durable when write_batch returns.  The process may die between calls,   *)
(* between a batch and the report of it, and between purge's batches; an   *)
(* error from the backend stops the replica and leaves the same disks.     *)
(*                                                                         *)
(* An entry is the term it carries; index -1 stands for None.  openraft    *)
(* and the state machine are external: the guards of the calls and the     *)
(* restart are the contract of RaftLogStorage.                             *)
(***************************************************************************)
EXTENDS Integers, FiniteSetsExt, Functions

CONSTANTS MaxIndex,    \* bound: the largest log index
          MaxTerm,     \* bound: the largest term
          MaxCrashes   \* bound on crashes

ASSUME LogConstants ==
    MaxIndex \in Nat /\ MaxTerm \in Nat \ {0} /\ MaxCrashes \in Nat

VARIABLES
    entries,     \* on disk: the log entries, index -> term
    vote,        \* on disk: META_VOTE, a term
    committed,   \* on disk: META_COMMITTED
    purged,      \* on disk: META_PURGED
    applied,     \* external, durable: the state machine's last_applied
    stage,       \* "up", "purging" (between purge's batches) or "down"
    known,       \* openraft's memory: the entries it relies on, index -> term
    voted,       \* openraft's memory: the vote it relies on
    crashes      \* crashes so far

logVars == <<entries, vote, committed, purged, applied, stage, known, voted, crashes>>

NoIndex == -1
NoEntries == [i \in {} |-> 0]

(* last_log_id_on_disk and get_log_state: the last entry of a full scan, or
   the purge pointer when there is none.                                   *)
LastLogId == IF DOMAIN entries = {} THEN purged ELSE Max(DOMAIN entries)

(* try_get_log_entries over everything after the purge pointer. *)
Readable == Restrict(entries, {i \in DOMAIN entries : purged < i})

(* The end of the log as openraft counts it. *)
LastKnown == Max(DOMAIN known \cup {purged})
------------------------------------------------------------------------------
LogInit ==
    /\ entries = NoEntries /\ vote = 0 /\ committed = NoIndex /\ purged = NoIndex
    /\ applied = NoIndex /\ stage = "up"
    /\ known = NoEntries /\ voted = 0 /\ crashes = 0

(* Down, either by a crash or by the error openraft stops on. *)
Dies == stage' = "down" /\ crashes < MaxCrashes /\ crashes' = crashes + 1

(* A call that has landed returns to openraft, or the process dies first. *)
Returns == stage' = "up" /\ UNCHANGED crashes

SaveVote(t) ==
    /\ stage = "up" /\ voted < t
    /\ vote' = t
    /\ (Returns /\ voted' = t) \/ (Dies /\ UNCHANGED voted)
    /\ UNCHANGED <<entries, committed, purged, applied, known>>

(* The entries of an append call: n of term t after the last one. *)
Written(n, t) == [i \in LastKnown + 1 .. LastKnown + n |-> t]

(* append: every entry in one batch; openraft relies on them from the
   log_io_completed callback on.  After a snapshot install the purge that goes
   with it comes first.                                                    *)
AppendEntries(n, t) ==
    /\ stage = "up" /\ t <= voted /\ LastKnown + n <= MaxIndex
    /\ LastKnown >= applied
    /\ \A i \in DOMAIN known : known[i] <= t
    /\ entries' = [i \in DOMAIN entries \cup DOMAIN Written(n, t) |->
                      IF i \in DOMAIN Written(n, t) THEN t ELSE entries[i]]
    /\ \/ Returns /\ known' = [i \in DOMAIN known \cup DOMAIN Written(n, t) |->
                                  IF i \in DOMAIN known THEN known[i] ELSE t]
       \/ Dies /\ UNCHANGED known
    /\ UNCHANGED <<vote, committed, purged, applied, voted>>

(* truncate's delete_range: every index from i on goes. *)
Kept(i) == Restrict(entries, {j \in DOMAIN entries : j < i})

(* truncate: a conflicting suffix; committed entries never conflict. *)
Truncate(i) ==
    /\ stage = "up" /\ i \in DOMAIN known /\ committed < i /\ applied < i
    /\ entries' = Kept(i)
    /\ known' = Restrict(known, {j \in DOMAIN known : j < i})
    /\ Returns \/ Dies
    /\ UNCHANGED <<vote, committed, purged, applied, voted>>

(* save_committed: an entry of the log or the end of an installed snapshot; no
   flush follows.                                                          *)
SaveCommitted(i) ==
    /\ stage = "up" /\ i \in DOMAIN known \cup {applied} /\ committed < i
    /\ committed' = i
    /\ Returns \/ Dies
    /\ UNCHANGED <<entries, vote, purged, applied, known, voted>>

(* purge, first batch: the pointer.  openraft purges what the state machine
   has applied, past the end of the log after a snapshot install.          *)
PurgePointer(i) ==
    /\ stage = "up" /\ purged < i /\ i <= applied
    /\ purged' = i
    /\ known' = Restrict(known, {j \in DOMAIN known : i < j})
    /\ stage' = "purging"
    /\ UNCHANGED <<entries, vote, committed, applied, voted, crashes>>

(* Mutant: the delete takes one entry too many. *)
Unpurged_OffByOne == Restrict(entries, {j \in DOMAIN entries : purged + 1 < j})

(* purge's delete_range: everything up to the pointer goes. *)
Unpurged == Restrict(entries, {j \in DOMAIN entries : purged < j})

(* purge, second batch. *)
PurgeEntries ==
    /\ stage = "purging"
    /\ entries' = Unpurged
    /\ Returns \/ Dies
    /\ UNCHANGED <<vote, committed, purged, applied, known, voted>>

(* The state machine applies the next committed entry. *)
ApplyEntries ==
    /\ stage = "up" /\ applied < committed
    /\ applied' = applied + 1
    /\ UNCHANGED <<entries, vote, committed, purged, stage, known, voted, crashes>>

(* The state machine installs a leader's snapshot that ends after the log. *)
InstallSnapshot(i) ==
    /\ stage = "up" /\ LastKnown < i /\ applied < i
    /\ applied' = i
    /\ UNCHANGED <<entries, vote, committed, purged, stage, known, voted, crashes>>

StoreCrash ==
    /\ stage # "down" /\ Dies
    /\ UNCHANGED <<entries, vote, committed, purged, applied, known, voted>>

(* A restart reads the log state; if the log ends before the state machine,
   openraft finishes the job with a purge of its own.                      *)
Restart ==
    /\ stage = "down"
    /\ voted' = vote
    /\ IF LastLogId < applied
       THEN purged' = applied /\ known' = NoEntries /\ stage' = "purging"
       ELSE UNCHANGED purged /\ known' = Readable /\ stage' = "up"
    /\ UNCHANGED <<entries, vote, committed, applied, crashes>>

LogSteps ==
    \/ \E t \in 1 .. MaxTerm : SaveVote(t) \/ \E n \in 1 .. 2 : AppendEntries(n, t)
    \/ \E i \in 0 .. MaxIndex : \/ Truncate(i) \/ SaveCommitted(i)
                                \/ PurgePointer(i) \/ InstallSnapshot(i)
    \/ PurgeEntries \/ ApplyEntries \/ StoreCrash \/ Restart

LogSpec == LogInit /\ [][LogSteps]_logVars

------------------------------------------------------------------------------
(* Properties. *)

(* append's contract with openraft: an entry whose flush was reported is on
   disk, with its term, until a truncate or purge removes it, whatever crash
   comes in between; and so is the vote.                                   *)
AckedSurvive ==
    /\ \A i \in DOMAIN known : i \in DOMAIN entries /\ entries[i] = known[i]
    /\ voted <= vote

(* What openraft reads back.  get_log_state: the log after the purge pointer
   has no holes, or openraft could not load its log ids.  purge in
   log_store.rs: "a crash between these two writes can only leave stale
   entries behind (harmless)": once running, nothing stale below the pointer
   can be taken for the end of the log.  read_committed: after a restart every
   entry between the state machine and the committed pointer can be applied
   again.                                                                  *)
LogReadable ==
    /\ stage = "up" => \A i \in DOMAIN known : \A j \in purged + 1 .. i : j \in DOMAIN known
    /\ stage = "up" => LastLogId = LastKnown
    /\ stage = "down" => \A i \in applied + 1 .. committed : i \in DOMAIN entries

(* The two promises of the log store to openraft, through every crash: nothing
   acknowledged is lost, and nothing else is read back.                    *)
LogKept == AckedSurvive /\ LogReadable
==============================================================================
