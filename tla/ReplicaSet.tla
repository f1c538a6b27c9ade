------------------------------ MODULE ReplicaSet ------------------------------
(***************************************************************************)
(* The v1 replica set (src/distributed/replication.rs): the message        *)
(* handlers, elections and log appends of every replica over a network     *)
(* that loses, repeats and reorders messages.  The crate has no driver:    *)
(* who calls become_leader (after a majority of granted votes) and who     *)
(* sends entries are modelled as the only sensible one, and are external.  *)
(*                                                                         *)
(* A handler that holds the current_term write lock throughout is one      *)
(* step.  A response handler takes one lock after the other: it reads      *)
(* current_term, then writes the term, the vote and the role; so does      *)
(* append_command: it reads the role, then the term, then pushes.  Such a  *)
(* call is in handling between its steps.  Nothing in the crate ever       *)
(* raises a leader's commit_index, so it stays 0 and is left out, with     *)
(* what is applied.                                                        *)
(*                                                                         *)
(* History: ballots, the votes granted as <<voter, term, candidate>>;      *)
(* leaders, <<term, replica>>; regressed, replicas whose term went back;   *)
(* erased, replicas whose vote of their own term was cleared; skewed,      *)
(* replicas that skipped an entry because they held another one; usurped,    *)
(* replicas that pushed an entry of a term they were not leading.          *)
(***************************************************************************)
EXTENDS Integers, Sequences, FiniteSets, FiniteSetsExt

CONSTANTS
    Replicas, Nobody,
    MaxTerm, MaxLog,
    Callers,       \* calls of response handlers and append_command at a time
    MaxAppends      \* AppendEntries in flight

ASSUME ReplicaConstants ==
    /\ MaxTerm \in Nat /\ MaxLog \in Nat /\ MaxAppends \in Nat
    /\ IsFiniteSet(Replicas) /\ Nobody \notin Replicas

VARIABLES
    term, voted, role, log,     \* RwLock fields, per replica
    msgs, handling,
    ballots, leaders, regressed, erased, skewed, usurped

exceptions == <<regressed, erased, skewed, usurped>>

replicaHistory == <<ballots, leaders, exceptions>>

replicaVars == <<term, voted, role, log, msgs, handling, replicaHistory>>

NotCalled == [pc |-> "idle", at |-> Nobody, term |-> 0]

ReplicaInit ==
    /\ term = [r \in Replicas |-> 0]
    /\ voted = [r \in Replicas |-> Nobody]
    /\ role = [r \in Replicas |-> "follower"]
    /\ log = [r \in Replicas |-> <<>>]
    /\ msgs = {} /\ handling = [h \in Callers |-> NotCalled]
    /\ ballots = {} /\ leaders = {}
    /\ regressed = {} /\ erased = {} /\ skewed = {} /\ usurped = {}

(* An entry is its term; its index is its place. *)
LastTerm(l) == IF l = <<>> THEN 0 ELSE l[Len(l)]

Majority(S) == 2 * Cardinality(S) > Cardinality(Replicas)

Send(m) == msgs' = msgs \cup {m}

Appends == {m \in msgs : m.type = "AppendEntries"}

-------------------------------------------------------------------------------
StartElection(r) ==
    /\ role[r] # "leader" /\ term[r] < MaxTerm
    /\ term' = [term EXCEPT ![r] = @ + 1]
    /\ role' = [role EXCEPT ![r] = "candidate"]
    /\ voted' = [voted EXCEPT ![r] = r]
    /\ ballots' = ballots \cup {<<r, term[r] + 1, r>>}
    /\ Send([type |-> "RequestVote", term |-> term[r] + 1, from |-> r,
             lastIndex |-> Len(log[r]), lastTerm |-> LastTerm(log[r])])
    /\ UNCHANGED <<log, handling, leaders, exceptions>>

(* Mutant: a vote already given in this term is forgotten. *)
HandleRequestVote_Again(r, m) ==
    LET now  == IF m.term > term[r] THEN m.term ELSE term[r]
        ok   == /\ m.term >= now
                /\ \/ m.lastTerm > LastTerm(log[r])
                   \/ m.lastTerm = LastTerm(log[r]) /\ m.lastIndex >= Len(log[r])
    IN  /\ m.type = "RequestVote" /\ m.from # r
        /\ term' = [term EXCEPT ![r] = now]
        /\ role' = [role EXCEPT ![r] = IF m.term > term[r] THEN "follower" ELSE @]
        /\ voted' = [voted EXCEPT ![r] = IF ok THEN m.from ELSE voted[r]]
        /\ ballots' = IF ok THEN ballots \cup {<<r, now, m.from>>} ELSE ballots
        /\ Send([type |-> "VoteResponse", term |-> now, granted |-> ok,
                 from |-> r, to |-> m.from])
        /\ UNCHANGED <<log, handling, leaders, exceptions>>

HandleRequestVote(r, m) ==
    LET now  == IF m.term > term[r] THEN m.term ELSE term[r]
        free == IF m.term > term[r] THEN Nobody ELSE voted[r]
        ok   == /\ m.term >= now
                /\ free \in {Nobody, m.from}
                /\ \/ m.lastTerm > LastTerm(log[r])
                   \/ m.lastTerm = LastTerm(log[r]) /\ m.lastIndex >= Len(log[r])
    IN  /\ m.type = "RequestVote" /\ m.from # r
        /\ term' = [term EXCEPT ![r] = now]
        /\ role' = [role EXCEPT ![r] = IF m.term > term[r] THEN "follower" ELSE @]
        /\ voted' = [voted EXCEPT ![r] = IF ok THEN m.from ELSE free]
        /\ ballots' = IF ok THEN ballots \cup {<<r, now, m.from>>} ELSE ballots
        /\ Send([type |-> "VoteResponse", term |-> now, granted |-> ok,
                 from |-> r, to |-> m.from])
        /\ UNCHANGED <<log, handling, leaders, exceptions>>

(* handle_append_entries: a conflict at prev truncates and fails, a gap fails;
   then entries the log is too short for are pushed and the others skipped,
   whatever their term.  The answer carries the request's own term and the
   leader does nothing with it, so it is not sent.                         *)
HandleAppendEntries(r, m) ==
    LET conflict == m.prev > 0 /\ m.prev <= Len(log[r]) /\ log[r][m.prev] # m.prevTerm
        gap      == m.prev > Len(log[r])
        skipped  == {i \in 1 .. Len(m.entries) : m.prev + i <= Len(log[r])}
        kept     == IF conflict THEN SubSeq(log[r], 1, m.prev - 1)
                    ELSE IF gap THEN log[r]
                    ELSE log[r] \o SubSeq(m.entries, Cardinality(skipped) + 1, Len(m.entries))
        success  == ~conflict /\ ~gap
    IN  /\ m.type = "AppendEntries" /\ m.from # r
        /\ m.term >= term[r]
        /\ term' = [term EXCEPT ![r] = m.term]
        /\ voted' = [voted EXCEPT ![r] = IF m.term > term[r] THEN Nobody ELSE @]
        /\ role' = [role EXCEPT ![r] = "follower"]
        /\ log' = [log EXCEPT ![r] = kept]
        /\ skewed' = IF success /\ \E i \in skipped : log[r][m.prev + i] # m.entries[i]
                     THEN skewed \cup {r} ELSE skewed
        /\ UNCHANGED <<msgs, handling, ballots, leaders, regressed, erased, usurped>>

(* An older term is answered and changes nothing else. *)
RejectAppendEntries(r, m) ==
    /\ m.type = "AppendEntries" /\ m.from # r
    /\ m.term < term[r]
    /\ Send([type |-> "AppendResponse", term |-> term[r], to |-> m.from, from |-> r])
    /\ UNCHANGED <<term, voted, role, log, handling, replicaHistory>>

(* handle_vote_response and handle_append_response: a newer term was seen under
   the read lock.                                                          *)
HandleResponse(h, r, m) ==
    /\ handling[h] = NotCalled
    /\ m.type \in {"VoteResponse", "AppendResponse"} /\ m.to = r
    /\ m.term > term[r]
    /\ handling' = [handling EXCEPT ![h] = [pc |-> "term", at |-> r, term |-> m.term]]
    /\ UNCHANGED <<term, voted, role, log, msgs, replicaHistory>>

(* The writes that follow do not look again: the first may lower the term, *)
WriteTerm(h) ==
    LET r == handling[h].at
        t == handling[h].term
    IN  /\ handling[h].pc = "term"
        /\ term' = [term EXCEPT ![r] = t]
        /\ regressed' = IF t <= term[r] THEN regressed \cup {r} ELSE regressed
        /\ handling' = [handling EXCEPT ![h].pc = "vote"]
        /\ UNCHANGED <<voted, role, log, msgs, ballots, leaders, erased, skewed, usurped>>

(* the second clears a vote given since, in the new term or a later one, *)
WriteVote(h) ==
    LET r == handling[h].at
    IN  /\ handling[h].pc = "vote"
        /\ voted' = [voted EXCEPT ![r] = Nobody]
        /\ erased' = IF <<r, term[r], voted[r]>> \in ballots THEN erased \cup {r} ELSE erased
        /\ handling' = [handling EXCEPT ![h].pc = "role"]
        /\ UNCHANGED <<term, role, log, msgs, ballots, leaders, regressed, skewed, usurped>>

(* and the third deposes a replica that stood, or was elected, since. *)
WriteRole(h) ==
    LET r == handling[h].at
    IN  /\ handling[h].pc = "role"
        /\ role' = [role EXCEPT ![r] = "follower"]
        /\ handling' = [handling EXCEPT ![h] = NotCalled]
        /\ UNCHANGED <<term, voted, log, msgs, replicaHistory>>

(* External: the driver counts the grants its request got in the term the
   replica still is in, and calls become_leader.                           *)
BecomeLeader(r) ==
    /\ role[r] = "candidate"
    /\ \E m \in msgs : m.type = "RequestVote" /\ m.from = r /\ m.term = term[r]
    /\ Majority({r} \cup {m.from : m \in {n \in msgs : n.type = "VoteResponse" /\ n.to = r
                                              /\ n.term = term[r] /\ n.granted}})
    /\ role' = [role EXCEPT ![r] = "leader"]
    /\ leaders' = leaders \cup {<<term[r], r>>}
    /\ UNCHANGED <<term, voted, log, msgs, handling, ballots, exceptions>>

(* append_command: is_leader, *)
AppendCommand(h, r) ==
    /\ handling[h] = NotCalled /\ role[r] = "leader"
    /\ handling' = [handling EXCEPT ![h] = [pc |-> "read", at |-> r, term |-> 0]]
    /\ UNCHANGED <<term, voted, role, log, msgs, replicaHistory>>

(* the current term, by now perhaps another's, *)
ReadTerm(h) ==
    /\ handling[h].pc = "read"
    /\ handling' = [handling EXCEPT ![h].pc = "push", ![h].term = term[handling[h].at]]
    /\ UNCHANGED <<term, voted, role, log, msgs, replicaHistory>>

(* and the push, whoever leads by then. *)
PushEntry(h) ==
    LET r == handling[h].at
        t == handling[h].term
        leading == role[r] = "leader" /\ term[r] = t /\ <<t, r>> \in leaders
    IN  /\ handling[h].pc = "push" /\ Len(log[r]) < MaxLog
        /\ log' = [log EXCEPT ![r] = Append(@, t)]
        /\ usurped' = IF leading THEN usurped ELSE usurped \cup {r}
        /\ handling' = [handling EXCEPT ![h] = NotCalled]
        /\ UNCHANGED <<term, voted, role, msgs, ballots, leaders, regressed, erased, skewed>>

CreateHeartbeat(r) ==
    /\ role[r] = "leader" /\ Cardinality(Appends) < MaxAppends
    /\ Send([type |-> "AppendEntries", term |-> term[r], from |-> r,
             prev |-> Len(log[r]), prevTerm |-> LastTerm(log[r]), entries |-> <<>>])
    /\ UNCHANGED <<term, voted, role, log, handling, replicaHistory>>

(* External: the same message with the entries after prev. *)
Replicate(r) == \E prev \in 0 .. Len(log[r]) :
    /\ role[r] = "leader" /\ Cardinality(Appends) < MaxAppends
    /\ Send([type |-> "AppendEntries", term |-> term[r], from |-> r,
             prev |-> prev, prevTerm |-> IF prev = 0 THEN 0 ELSE log[r][prev],
             entries |-> SubSeq(log[r], prev + 1, Len(log[r]))])
    /\ UNCHANGED <<term, voted, role, log, handling, replicaHistory>>

LoseAppend(m) ==
    /\ msgs' = msgs \ {m}
    /\ UNCHANGED <<term, voted, role, log, handling, replicaHistory>>

VoteSteps ==
    \/ \E r \in Replicas :
          \/ StartElection(r) \/ BecomeLeader(r)
          \/ \E m \in msgs : HandleRequestVote(r, m)
          \/ \E h \in Callers, m \in msgs : HandleResponse(h, r, m)
    \/ \E h \in Callers : WriteTerm(h) \/ WriteVote(h) \/ WriteRole(h)

LogSteps ==
    \/ \E m \in Appends : LoseAppend(m)
    \/ \E h \in Callers : ReadTerm(h) \/ PushEntry(h) \/ \E r \in Replicas : AppendCommand(h, r)
    \/ \E r \in Replicas :
          \/ CreateHeartbeat(r) \/ Replicate(r)
          \/ \E m \in msgs : HandleAppendEntries(r, m) \/ RejectAppendEntries(r, m)

ReplicaNext == VoteSteps \/ LogSteps

ReplicaSpec == ReplicaInit /\ [][ReplicaNext]_replicaVars

-------------------------------------------------------------------------------
(* A replica votes for two candidates of one term only if a late write of one of
   its response handlers (replication.rs:361-363, 378-380) took its term back
   or cleared the vote it had given in its term; and a term has two leaders
   only if that happened to some replica.                                  *)
OneVotePerTerm ==
    /\ \A b, c \in ballots :
          b[1] \notin regressed \cup erased /\ b[1] = c[1] /\ b[2] = c[2] => b[3] = c[3]
    /\ regressed = {} /\ erased = {} => \A l, k \in leaders : l[1] = k[1] => l[2] = k[2]

(* Two logs with the same term at the same place agree up to it, until besides
   some replica keeps an entry the leader had another one for, which it may
   hand to others once elected, or append_command pushes an entry of a term its
   replica is not leading, or no longer.                                   *)
LogsMatch ==
    regressed = {} /\ erased = {} /\ skewed = {} /\ usurped = {} =>
        \A r, q \in Replicas : \A i \in 1 .. Min({Len(log[r]), Len(log[q])}) :
            log[r][i] = log[q][i] => SubSeq(log[r], 1, i) = SubSeq(log[q], 1, i)

(* What the replica set keeps of Raft: one leader per term and matching logs,
   as far as the two parts say; these four races are the only ways to lose it. *)
RaftSafety == OneVotePerTerm /\ LogsMatch

================================================================================
