----------------------------- MODULE ReplicaLocks -----------------------------
(***************************************************************************)
(* The RwLocks of one ReplicaSet (src/distributed/replication.rs) taken by *)
(* concurrent calls of its methods.  A method is the sequence of its lock  *)
(* acquisitions and releases; a guard bound to a variable is held to the   *)
(* end of the method, the temporary of a statement to the end of the       *)
(* statement, and the temporaries of a tail expression to the end of it.   *)
(* parking_lot queues readers behind a waiting writer.                     *)
(***************************************************************************)
EXTENDS Integers, Sequences, FiniteSets

CONSTANTS Threads

VARIABLES
    method,     \* thread -> the method it runs, or "none"
    step,       \* thread -> steps of it done
    waiting     \* <<thread, lock>>: writers queued

lockVars == <<method, step, waiting>>

R(lock) == <<"read", lock>>
W(lock) == <<"write", lock>>
Free(lock) == <<"free", lock>>

(* Mutant: append_command locks the log before it reads the term. *)
AppendCommandLocks_LogFirst ==
    <<R("state"), Free("state"), W("log"), R("term"), Free("term"), Free("log")>>

AppendCommandLocks ==
    <<R("state"), Free("state"), R("term"), Free("term"), W("log"), Free("log")>>

RequestVoteLocks ==
    <<W("term"), W("voted"), W("state"), Free("state"), R("log"), W("heartbeat"), Free("heartbeat"),
      Free("log"), Free("voted"), Free("term")>>

AppendEntriesLocks ==
    <<W("term"), W("voted"), Free("voted"), W("state"), Free("state"), W("leader"), Free("leader"),
      W("heartbeat"), Free("heartbeat"), W("log"), R("commit"), Free("commit"),
      W("commit"), Free("commit"), Free("log"), Free("term")>>

(* handle_vote_response and handle_append_response on a newer term. *)
ResponseLocks ==
    <<R("term"), Free("term"), W("term"), Free("term"), W("voted"), Free("voted"),
      W("state"), Free("state")>>

StartElectionLocks ==
    <<W("term"), W("state"), Free("state"), W("voted"), Free("voted"), R("log"), Free("log"),
      Free("term")>>

BecomeLeaderLocks ==
    <<W("state"), Free("state"), W("leader"), Free("leader"), R("log"), Free("log"),
      W("next"), W("match"), Free("match"), Free("next")>>

(* The term and commit guards are temporaries of the tail expression. *)
CreateHeartbeatLocks ==
    <<R("log"), R("term"), R("commit"), Free("commit"), Free("term"), Free("log")>>

UnappliedLocks ==
    <<R("log"), R("commit"), Free("commit"), R("applied"), Free("applied"), Free("log")>>

Steps(m) ==
    CASE m = "append_command"     -> AppendCommandLocks
      [] m = "request_vote"       -> RequestVoteLocks
      [] m = "append_entries"     -> AppendEntriesLocks
      [] m = "response"           -> ResponseLocks
      [] m = "start_election"     -> StartElectionLocks
      [] m = "become_leader"      -> BecomeLeaderLocks
      [] m = "create_heartbeat"   -> CreateHeartbeatLocks
      [] m = "unapplied"          -> UnappliedLocks
      [] m = "none"               -> <<>>

Methods == {"append_command", "request_vote", "append_entries", "response",
            "start_election", "become_leader", "create_heartbeat", "unapplied"}

LocksInit ==
    /\ method = [t \in Threads |-> "none"]
    /\ step = [t \in Threads |-> 0]
    /\ waiting = {}

Done(t) == SubSeq(Steps(method[t]), 1, step[t])

(* How often t has taken the lock in this mode and not let go of it. *)
Holds(t, mode, lock) ==
    LET taken == {i \in 1 .. step[t] : Done(t)[i] = <<mode, lock>>}
    IN  \E i \in taken : \A j \in i .. step[t] : Done(t)[j] # Free(lock)

Holders(t, lock) ==
    {u \in Threads \ {t} : Holds(u, "read", lock) \/ Holds(u, "write", lock)}

NextStep(t) == Steps(method[t])[step[t] + 1]

(* What thread t waits for: the threads that keep it from its next step. *)
BlockedBy(t) ==
    IF step[t] = Len(Steps(method[t])) \/ NextStep(t)[1] = "free" THEN {}
    ELSE LET lock == NextStep(t)[2]
         IN  IF NextStep(t)[1] = "write" THEN Holders(t, lock)
             ELSE {u \in Threads \ {t} : Holds(u, "write", lock) \/ <<u, lock>> \in waiting}

Call(t) == \E m \in Methods :
    /\ method[t] = "none"
    /\ method' = [method EXCEPT ![t] = m]
    /\ step' = [step EXCEPT ![t] = 0]
    /\ UNCHANGED waiting

TakeLock(t) ==
    /\ step[t] < Len(Steps(method[t]))
    /\ BlockedBy(t) = {}
    /\ step' = [step EXCEPT ![t] = @ + 1]
    /\ waiting' = waiting \ {<<t, NextStep(t)[2]>>}
    /\ UNCHANGED method

(* A writer that finds the lock taken queues. *)
Queue(t) ==
    /\ step[t] < Len(Steps(method[t]))
    /\ NextStep(t)[1] = "write" /\ BlockedBy(t) # {}
    /\ <<t, NextStep(t)[2]>> \notin waiting
    /\ waiting' = waiting \cup {<<t, NextStep(t)[2]>>}
    /\ UNCHANGED <<method, step>>

Return(t) ==
    /\ method[t] # "none"
    /\ step[t] = Len(Steps(method[t]))
    /\ method' = [method EXCEPT ![t] = "none"]
    /\ step' = [step EXCEPT ![t] = 0]
    /\ UNCHANGED waiting

LocksNext == \E t \in Threads : Call(t) \/ TakeLock(t) \/ Queue(t) \/ Return(t)

LocksSpec == LocksInit /\ [][LocksNext]_lockVars

(* Threads that wait for each other for ever always include one in
   create_heartbeat, the only method that takes current_term under the log
   lock: every other pair of methods locks in one order, also when readers
   queue behind writers.                                                   *)
OnlyHeartbeatDeadlocks ==
    \A S \in (SUBSET Threads) \ {{}} :
        (\A t \in S : BlockedBy(t) \cap S # {})
            => \E t \in S : method[t] = "create_heartbeat"
================================================================================
