--------------------------- MODULE NodeRangesProofs ---------------------------
(***************************************************************************)
(* The directory of a node is safe for any ranges, RPCs and bounds.        *)
(*                                                                         *)
(* An action moves one actor and touches one range, so the work is done    *)
(* once: Frame carries every other range over, KeptIndexes, IndexesInsert  *)
(* and IndexesRemove carry the two indexes over, and an action only has to *)
(* show that the range it touches is still in good hands.                  *)
(***************************************************************************)
EXTENDS NodeRanges, NaturalSets

(* What the proofs need of the constants. *)
LEMMA Constants ==
    /\ Default \in RangeIds
    /\ \A i \in RangeIds : i \in Nat /\ Group[i] \in Range(Group)
    /\ "sup" \notin Tasks /\ "node" \notin Actors /\ "drain" \notin Actors
    /\ "sup" \in Actors /\ Tasks \subseteq Actors /\ Actors \subseteq Holders
    /\ {"node", "drain"} \subseteq Holders
    /\ None \notin Runtimes
BY NodeConstants DEF Range, RangeIds, Actors, Holders

(***************************************************************************)
(* Runtimes.                                                               *)
(***************************************************************************)

(* open_on_disk gives its caller a running runtime and the only Arc. *)
LEMMA OpenedIs ==
    ASSUME NEW g \in Range(Group), NEW h \in Holders
    PROVE  /\ Opened(g, h) \in Runtimes /\ Opened(g, h) # None
           /\ Opened(g, h).group = g /\ Opened(g, h).raft = "up"
           /\ Opened(g, h).arcs = {h}
<1>1. Opened(g, h) \in Runtimes
  BY DEF Opened, Runtimes
<1> QED
  BY <1>1, Constants DEF Opened

(* One more Arc, or a stopped Raft task, changes nothing else. *)
LEMMA RuntimeUpdates ==
    ASSUME NEW r \in Runtimes, NEW h \in Holders
    PROVE  /\ [r EXCEPT !.arcs = @ \cup {h}] \in Runtimes
           /\ [r EXCEPT !.arcs = @ \cup {h}].group = r.group
           /\ [r EXCEPT !.arcs = @ \cup {h}].raft = r.raft
           /\ [r EXCEPT !.arcs = @ \cup {h}].arcs = r.arcs \cup {h}
           /\ [r EXCEPT !.raft = "halted"] \in Runtimes
           /\ [r EXCEPT !.raft = "halted"].group = r.group
           /\ [r EXCEPT !.raft = "halted"].raft = "halted"
           /\ [r EXCEPT !.raft = "halted"].arcs = r.arcs
           /\ [r EXCEPT !.arcs = @ \ {h}] \in Runtimes
           /\ [r EXCEPT !.arcs = @ \ {h}].group = r.group
           /\ [r EXCEPT !.arcs = @ \ {h}].raft = r.raft
           /\ [r EXCEPT !.arcs = @ \ {h}].arcs = r.arcs \ {h}
BY DEF Runtimes

(***************************************************************************)
(* Actors.                                                                 *)
(***************************************************************************)

(* An RPC that goes to c moves alone. *)
LEMMA TaskMoves ==
    ASSUME TypeOK, NEW t \in Tasks, NEW c, task' = [task EXCEPT ![t] = c], UNCHANGED sup
    PROVE  Doing(t)' = c /\ \A a \in Actors \ {t} : Doing(a)' = Doing(a)
BY Constants DEF TypeOK, Doing, Actors

(* An RPC that only changes its step stays with its range. *)
LEMMA TaskSteps ==
    ASSUME TypeOK, NEW t \in Tasks, NEW p, Goto(t, p), task[t].pc # "idle", UNCHANGED sup
    PROVE  /\ Doing(t)'.pc = p /\ Doing(t)'.id = task[t].id
           /\ \A a \in Actors \ {t} : Doing(a)' = Doing(a)
BY Constants DEF TypeOK, Doing, Actors, Goto, Calls

(* The supervisor moves alone. *)
LEMMA SupMoves ==
    ASSUME UNCHANGED task
    PROVE  /\ Doing("sup") = sup /\ Doing("sup")' = sup'
           /\ \A a \in Actors \ {"sup"} : Doing(a)' = Doing(a)
BY Constants DEF Doing, Actors

(* A plan that has work left, or none. *)
LEMMA WorkingIs ==
    ASSUME NEW add \in SUBSET RangeIds, NEW remove \in SUBSET RangeIds
    PROVE  /\ Working(add, remove) \in Ticks
           /\ Working(add, remove).pc \in {"idle", "working"}
BY DEF Working, Ticks, Idle

(* An RPC or a tick in progress keeps shutdown from going on. *)
LEMMA Waiting ==
    ASSUME NodeInv
    PROVE  /\ \A t \in Tasks : task[t].pc # "idle" => node \in {"up", "stopping", "refusing"}
           /\ sup.pc # "off" => node \in {"up", "stopping"}
BY DEF NodeInv, StopsInOrder, TypeOK, Idle, Off

(***************************************************************************)
(* Frames.                                                                 *)
(***************************************************************************)

(* Actor a moves and touches no range but i: the others stay in good hands. *)
LEMMA Frame ==
    ASSUME Custody, NEW a \in Actors, NEW i \in RangeIds,
           \A b \in Actors \ {a} : Doing(b)' = Doing(b),
           \A j \in RangeIds \ {i} : /\ ~Keeps(a, j) /\ ~Keeps(a, j)'
                                     /\ rt'[j] = rt[j]
                                     /\ j \in by_range' <=> j \in by_range,
           node' = node, InGoodHands(i)'
    PROVE  Custody'
<1> SUFFICES ASSUME NEW j \in RangeIds, j # i PROVE InGoodHands(j)'
  BY DEF Custody
<1>1. \A b \in Actors : Keeps(b, j)' <=> Keeps(b, j)
  BY DEF Keeps
<1>2. \A b \in Actors : Owns(b, j)' <=> Owns(b, j)
  BY <1>1 DEF Owns
<1>3. \A b \in Actors : Owns(b, j) => Doing(b)' = Doing(b)
  BY DEF Owns
<1>4. InGoodHands(j)
  BY DEF Custody
<1> QED
  BY <1>1, <1>2, <1>3, <1>4 DEF InGoodHands

(* Nobody who keeps a range moves, no runtime changes, and shutdown does not go
   past the server: nothing changes hands.                                 *)
LEMMA NoHandsMove ==
    ASSUME Custody, NEW a \in Actors, UNCHANGED <<rt, by_range>>,
           \A b \in Actors \ {a} : Doing(b)' = Doing(b),
           \A i \in RangeIds : ~Keeps(a, i) /\ ~Keeps(a, i)',
           \/ node' = node
           \/ node' \in {"stopping", "refusing"} /\ node # "draining"
    PROVE  Custody'
<1> SUFFICES ASSUME NEW j \in RangeIds PROVE InGoodHands(j)'
  BY DEF Custody
<1>1. \A b \in Actors : Keeps(b, j)' <=> Keeps(b, j)
  BY DEF Keeps
<1>2. \A b \in Actors : Owns(b, j)' <=> Owns(b, j)
  BY <1>1 DEF Owns
<1>3. \A b \in Actors : Owns(b, j) => Doing(b)' = Doing(b)
  BY DEF Owns
<1>4. InGoodHands(j)
  BY DEF Custody
<1> QED
  BY <1>1, <1>2, <1>3, <1>4 DEF InGoodHands

(* The indexes agree as long as registered runtimes keep their group. *)
LEMMA KeptIndexes ==
    ASSUME IndexesAgree, KeepDirectory,
           \A j \in by_range : rt'[j] # None /\ rt'[j].group = rt[j].group
    PROVE  IndexesAgree'
BY DEF IndexesAgree, KeepDirectory, Range

(* insert puts a runtime under both of its ids. *)
LEMMA IndexesInsert ==
    ASSUME TypeOK, IndexesAgree, NEW i \in RangeIds, NEW g \in Range(Group),
           CanInsert(i, g), Insert(i, g), rt'[i] # None, rt'[i].group = g,
           \A j \in by_range : rt'[j] # None /\ rt'[j].group = rt[j].group
    PROVE  /\ IndexesAgree' /\ by_range' \subseteq RangeIds
           /\ DOMAIN by_group' \subseteq Range(Group) /\ Range(by_group') \subseteq RangeIds
<1>1. /\ DOMAIN by_group' = DOMAIN by_group \cup {g} /\ by_group'[g] = i
      /\ \A x \in DOMAIN by_group : x # g /\ by_group'[x] = by_group[x]
      /\ by_range' = by_range \cup {i} /\ i \notin by_range
  BY DEF CanInsert, Insert
<1>2. Range(by_group') = Range(by_group) \cup {i}
  BY <1>1 DEF Range
<1> QED
  BY <1>1, <1>2 DEF IndexesAgree, TypeOK, Range

(* remove takes a runtime out of both indexes. *)
LEMMA IndexesRemove ==
    ASSUME TypeOK, IndexesAgree, NEW i \in by_range, RemoveEntry(i),
           \A j \in by_range : rt'[j] # None /\ rt'[j].group = rt[j].group
    PROVE  /\ IndexesAgree' /\ by_range' \subseteq RangeIds
           /\ DOMAIN by_group' \subseteq Range(Group) /\ Range(by_group') \subseteq RangeIds
<1> DEFINE g == rt[i].group
<1>1. g \in DOMAIN by_group /\ by_group[g] = i
  BY DEF IndexesAgree, Range
<1>2. /\ DOMAIN by_group' = DOMAIN by_group \ {g}
      /\ \A x \in DOMAIN by_group' : by_group'[x] = by_group[x]
      /\ by_range' = by_range \ {i}
  BY <1>1 DEF RemoveEntry, Restrict
<1>3. \A x \in DOMAIN by_group : by_group[x] = i => x = g
  BY <1>1 DEF IndexesAgree
<1>4. Range(by_group') = Range(by_group) \ {i}
  BY <1>1, <1>2, <1>3 DEF Range
<1>5. \A j \in by_range \ {i} : rt[j].group # g
  BY <1>1 DEF IndexesAgree, Range
<1> QED
  BY <1>1, <1>2, <1>4, <1>5 DEF IndexesAgree, TypeOK, Range

(***************************************************************************)
(* The admin service.                                                      *)
(***************************************************************************)

(* The four parts of NodeInv after a step of the RPC in t that is not at its
   start.                                                                  *)
LEMMA TaskOrder ==
    ASSUME NodeInv, NEW t \in Tasks, task[t].pc # "idle", UNCHANGED <<sup, beat, node>>
    PROVE  StopsInOrder'
BY Waiting DEF NodeInv, StopsInOrder

(* An RPC that is starting finds the server accepting. *)
LEMMA StartedOrder ==
    ASSUME NodeInv, NEW t \in Tasks, NEW c, StartRpc(t, c), UNCHANGED <<sup, beat, node>>
    PROVE  StopsInOrder'
BY DEF NodeInv, StopsInOrder, StartRpc

(* add_range before open_on_disk owns nothing yet. *)
LEMMA AddRangeInv ==
    ASSUME NodeInv, NEW t \in Tasks, NEW a \in AdminAdds, AddRange(t, a[1], a[2])
    PROVE  NodeInv'
<1>1. a[1] \in RangeIds /\ a[2] \in Range(Group)
  BY NodeConstants
<1> DEFINE c == [pc |-> "opening", id |-> a[1], group |-> a[2]]
<1>2. /\ StartRpc(t, c) /\ KeepDirectory
      /\ UNCHANGED <<rt, sup, catalog, replica, beat, node>>
  BY DEF AddRange
<1>3. c \in Calls
  BY <1>1 DEF Calls
<1>4. TypeOK'
  BY <1>2, <1>3, NodeConstants DEF NodeInv, TypeOK, StartRpc, KeepDirectory
<1>5. IndexesAgree'
  BY <1>2, KeptIndexes DEF NodeInv, IndexesAgree
<1>6. Doing(t)' = c /\ \A b \in Actors \ {t} : Doing(b)' = Doing(b)
  BY <1>2, TaskMoves DEF NodeInv, StartRpc
<1>8. Doing(t) = Idle
  BY <1>2, Constants DEF StartRpc, Doing
<1>7. Custody'
  BY <1>2, <1>6, <1>8, NoHandsMove, Constants DEF NodeInv, Keeps, Idle, KeepDirectory
<1> QED
  BY <1>2, <1>4, <1>5, <1>7, StartedOrder DEF NodeInv

(* add_range owns the runtime that it opened, which nobody else had open. *)
LEMMA OpenRangeInv == ASSUME NodeInv, NEW t \in Tasks, OpenRange(t) PROVE NodeInv'
<1> USE Constants
<1>1. PICK i \in RangeIds : task[t].id = i /\ task[t].group \in Range(Group)
  BY DEF OpenRange, NodeInv, TypeOK, Calls
<1> DEFINE o == Opened(task[t].group, t)
<1>2. o \in Runtimes /\ o.raft = "up" /\ o.arcs = {t}
  BY <1>1, OpenedIs
<1>3. Doing(t) = task[t] /\ InGoodHands(i)
  BY DEF Doing, NodeInv, Custody
<1>4. TypeOK'
  BY <1>1, <1>2 DEF NodeInv, OpenRange, TypeOK, KeepDirectory, Goto, Finish, Calls, Idle
<1>5. IndexesAgree'
  BY <1>1, KeptIndexes DEF NodeInv, OpenRange, TypeOK, IndexesAgree
<1>6. Custody'
  <2>1. CASE rt[i] = None
    <3>1. /\ Doing(t)'.pc = "opened" /\ Doing(t)'.id = i
          /\ \A a \in Actors \ {t} : Doing(a)' = Doing(a)
      BY <1>1, <2>1, TaskSteps DEF NodeInv, OpenRange
    <3>2. /\ rt' = [rt EXCEPT ![i] = o] /\ rt'[i] = o
          /\ UNCHANGED <<by_range, node>>
      BY <1>1, <2>1 DEF OpenRange, KeepDirectory, NodeInv, TypeOK
    <3>3. InGoodHands(i)'
      BY <1>2, <1>3, <2>1, <3>1, <3>2 DEF Keeps, Owns, InGoodHands
    <3> QED
      BY <1>1, <1>3, <3>1, <3>2, <3>3, Frame DEF NodeInv, Keeps, OpenRange
  <2>2. CASE rt[i] # None
    <3>1. Doing(t)' = Idle /\ \A a \in Actors \ {t} : Doing(a)' = Doing(a)
      BY <1>1, <2>2, TaskMoves DEF NodeInv, OpenRange, Finish
    <3> QED
      BY <1>1, <1>3, <2>2, <3>1, NoHandsMove
         DEF NodeInv, Keeps, OpenRange, KeepDirectory, Idle
  <2> QED
    BY <2>1, <2>2
<1> QED
  BY <1>4, <1>5, <1>6, TaskOrder DEF NodeInv, OpenRange

(* insert moves a runtime from its opener to the directory, or drops it. *)
LEMMA RegisterRangeInv == ASSUME NodeInv, NEW t \in Tasks, RegisterRange(t) PROVE NodeInv'
<1> USE Constants
<1>1. PICK i \in RangeIds : task[t].id = i
  BY DEF RegisterRange, NodeInv, TypeOK, Calls
<1>2. Doing(t) = task[t] /\ InGoodHands(i) /\ Owns(t, i)
  BY <1>1 DEF Doing, NodeInv, Custody, Owns, Keeps, RegisterRange
<1>3. /\ rt[i] \in Runtimes /\ rt[i].raft = "up" /\ t \in rt[i].arcs /\ i \notin by_range
      /\ \A b \in Actors : Owns(b, i) => b = t
  BY <1>2 DEF InGoodHands, Owns, NodeInv, TypeOK, RegisterRange
<1>4. CASE CanInsert(i, rt[i].group)
  <2>1. Insert(i, rt[i].group) /\ Goto(t, "holding") /\ UNCHANGED rt
    BY <1>1, <1>4 DEF RegisterRange
  <2>2. rt[i].group \in Range(Group)
    BY <1>3 DEF Runtimes
  <2>3. /\ IndexesAgree' /\ by_range' \subseteq RangeIds
        /\ DOMAIN by_group' \subseteq Range(Group) /\ Range(by_group') \subseteq RangeIds
    BY <1>3, <1>4, <2>1, <2>2, IndexesInsert DEF NodeInv, IndexesAgree
  <2>4. TypeOK'
    BY <2>1, <2>3 DEF NodeInv, TypeOK, RegisterRange, Goto, Calls
  <2>5. /\ Doing(t)'.pc = "holding" /\ Doing(t)'.id = i
        /\ \A a \in Actors \ {t} : Doing(a)' = Doing(a)
    BY <1>1, <2>1, TaskSteps DEF NodeInv, RegisterRange
  <2>6. by_range' = by_range \cup {i} /\ UNCHANGED node
    BY <2>1 DEF Insert, RegisterRange
  <2>7. InGoodHands(i)'
    BY <1>2, <1>3, <2>1, <2>5, <2>6 DEF InGoodHands, Keeps, Owns
  <2>8. Custody'
    BY <1>2, <2>1, <2>5, <2>6, <2>7, Frame DEF NodeInv, Keeps, Owns
  <2> QED
    BY <2>3, <2>4, <2>8, TaskOrder DEF NodeInv, RegisterRange
<1>5. CASE ~CanInsert(i, rt[i].group)
  <2>1. /\ KeepDirectory /\ Finish(t) /\ rt' = [rt EXCEPT ![i] = Dropped(i, rt[i], t)]
        /\ UNCHANGED <<sup, catalog, replica, beat, node, count>>
    BY <1>1, <1>5 DEF RegisterRange
  <2>2. /\ Dropped(i, rt[i], t) \in Runtimes /\ rt'[i] = Dropped(i, rt[i], t)
        /\ rt'[i].arcs = rt[i].arcs \ {t} /\ rt'[i].raft = "up"
    <3>1. /\ Dropped(i, rt[i], t) \in Runtimes
          /\ Dropped(i, rt[i], t).arcs = rt[i].arcs \ {t}
          /\ Dropped(i, rt[i], t).raft = "up"
      BY <1>3, RuntimeUpdates DEF Dropped
    <3> QED
      BY <2>1, <3>1 DEF NodeInv, TypeOK
  <2>3. TypeOK'
    BY <2>1, <2>2 DEF NodeInv, TypeOK, KeepDirectory, Finish, Calls, Idle
  <2>4. IndexesAgree'
    BY <1>3, <2>1, KeptIndexes DEF NodeInv, IndexesAgree, TypeOK
  <2>5. Doing(t)' = Idle /\ \A a \in Actors \ {t} : Doing(a)' = Doing(a)
    BY <2>1, TaskMoves DEF NodeInv, Finish
  <2>6. InGoodHands(i)'
    BY <1>2, <1>3, <2>1, <2>2, <2>5 DEF InGoodHands, Keeps, Owns, Idle, KeepDirectory
  <2>7. Custody'
    BY <1>2, <2>1, <2>5, <2>6, Frame DEF NodeInv, TypeOK, Keeps, Owns, Idle, KeepDirectory
  <2> QED
    BY <2>1, <2>3, <2>4, <2>7, TaskOrder DEF NodeInv, RegisterRange
<1> QED
  BY <1>4, <1>5

(* A read takes one Arc on a registered runtime. *)
LEMMA ReadInv ==
    ASSUME NodeInv, NEW t \in Tasks, NEW i \in RangeIds, Read(t, i) PROVE NodeInv'
<1> USE Constants
<1> DEFINE c == [pc |-> "holding", id |-> i]
           r == [rt[i] EXCEPT !.arcs = @ \cup {t}]
<1>1. /\ StartRpc(t, c) /\ KeepDirectory /\ rt' = [rt EXCEPT ![i] = r]
      /\ i \in by_range /\ UNCHANGED <<sup, catalog, replica, beat, node>>
  BY DEF Read
<1>2. Doing(t) = Idle /\ InGoodHands(i) /\ rt[i] \in Runtimes
  BY <1>1 DEF Doing, NodeInv, Custody, StartRpc, InGoodHands, TypeOK
<1>3. /\ r \in Runtimes /\ rt'[i] = r /\ r.group = rt[i].group
      /\ r.raft = rt[i].raft /\ r.arcs = rt[i].arcs \cup {t}
  <2>1. rt'[i] = r
    BY <1>1 DEF NodeInv, TypeOK
  <2> QED
    BY <1>2, <2>1, RuntimeUpdates
<1> HIDE DEF r
<1>4. TypeOK'
  BY <1>1, <1>3, NodeConstants DEF NodeInv, TypeOK, KeepDirectory, StartRpc, Calls
<1>5. IndexesAgree'
  BY <1>1, <1>3, KeptIndexes DEF NodeInv, IndexesAgree, TypeOK
<1>6. Doing(t)' = c /\ \A a \in Actors \ {t} : Doing(a)' = Doing(a)
  BY <1>1, TaskMoves DEF NodeInv, StartRpc
<1>7. InGoodHands(i)'
  BY <1>1, <1>2, <1>3, <1>6 DEF InGoodHands, Keeps, Owns, Idle, KeepDirectory
<1>8. Custody'
  BY <1>1, <1>2, <1>6, <1>7, Frame DEF NodeInv, TypeOK, Keeps, Idle, KeepDirectory
<1> QED
  BY <1>1, <1>4, <1>5, <1>8, StartedOrder DEF NodeInv

(* A write takes no Arc. *)
LEMMA WriteInv ==
    ASSUME NodeInv, NEW t \in Tasks, NEW i \in RangeIds, Write(t, i) PROVE NodeInv'
<1> DEFINE c == [pc |-> "writing"]
<1>1. /\ StartRpc(t, c) /\ KeepDirectory
      /\ UNCHANGED <<rt, sup, catalog, replica, beat, node>>
  BY DEF Write
<1>2. TypeOK'
  <2>1. c \in Calls
    BY DEF Calls
  <2> QED
    BY <1>1, <2>1, NodeConstants DEF NodeInv, TypeOK, StartRpc, KeepDirectory
<1>3. IndexesAgree'
  BY <1>1, KeptIndexes DEF NodeInv, IndexesAgree
<1>4. Doing(t) = Idle /\ Doing(t)' = c /\ \A b \in Actors \ {t} : Doing(b)' = Doing(b)
  BY <1>1, TaskMoves, Constants DEF NodeInv, StartRpc, Doing
<1>5. Custody'
  BY <1>1, <1>4, NoHandsMove, Constants DEF NodeInv, Keeps, Idle, KeepDirectory
<1> QED
  BY <1>1, <1>2, <1>3, <1>5, StartedOrder DEF NodeInv

LEMMA WriteAnswerInv == ASSUME NodeInv, NEW t \in Tasks, WriteAnswer(t) PROVE NodeInv'
<1>1. /\ task[t].pc = "writing" /\ Finish(t) /\ KeepDirectory
      /\ UNCHANGED <<rt, sup, catalog, replica, beat, node, count>>
  BY DEF WriteAnswer
<1>2. TypeOK'
  BY <1>1 DEF NodeInv, TypeOK, Finish, Calls, Idle, KeepDirectory
<1>3. IndexesAgree'
  BY <1>1, KeptIndexes DEF NodeInv, IndexesAgree
<1>4. /\ Doing(t) = task[t] /\ Doing(t)' = Idle
      /\ \A b \in Actors \ {t} : Doing(b)' = Doing(b)
  BY <1>1, TaskMoves, Constants DEF NodeInv, Finish, Doing
<1>5. Custody'
  BY <1>1, <1>4, NoHandsMove, Constants DEF NodeInv, Keeps, Idle, KeepDirectory
<1> QED
  BY <1>1, <1>2, <1>3, <1>5, TaskOrder DEF NodeInv

(* An RPC that ends gives up the one Arc it kept. *)
LEMMA ReturnInv == ASSUME NodeInv, NEW t \in Tasks, Return(t) PROVE NodeInv'
<1> USE Constants
<1>1. PICK i \in RangeIds : task[t].id = i
  BY DEF Return, NodeInv, TypeOK, Calls
<1>2. Doing(t) = task[t] /\ InGoodHands(i) /\ Keeps(t, i)
  BY <1>1 DEF Doing, NodeInv, Custody, Keeps, Return
<1>3. rt[i] \in Runtimes /\ t \in rt[i].arcs
  BY <1>2 DEF InGoodHands, NodeInv, TypeOK
<1> DEFINE d == Dropped(i, rt[i], t)
<1>4. /\ KeepDirectory /\ Finish(t) /\ rt' = [rt EXCEPT ![i] = d] /\ rt'[i] = d
      /\ UNCHANGED <<sup, catalog, replica, beat, node, count>>
  BY <1>1 DEF Return, NodeInv, TypeOK
<1>5. \/ d = None /\ rt[i].arcs = {t} /\ i \notin by_range /\ rt[i].raft = "halted"
      \/ /\ d \in Runtimes /\ d.group = rt[i].group
         /\ d.raft = rt[i].raft /\ d.arcs = rt[i].arcs \ {t}
  <2>1. by_range' = by_range
    BY <1>4 DEF KeepDirectory
  <2> QED
    BY <1>3, <2>1, RuntimeUpdates DEF Dropped
<1> HIDE DEF d
<1>6. TypeOK'
  BY <1>4, <1>5 DEF NodeInv, TypeOK, KeepDirectory, Finish, Calls, Idle
<1>7. IndexesAgree'
  BY <1>4, <1>5, KeptIndexes DEF NodeInv, IndexesAgree, TypeOK
<1>8. Doing(t)' = Idle /\ \A a \in Actors \ {t} : Doing(a)' = Doing(a)
  BY <1>4, TaskMoves DEF NodeInv, Finish
<1>9. InGoodHands(i)'
  BY <1>2, <1>3, <1>4, <1>5, <1>8
     DEF InGoodHands, Keeps, Owns, Idle, KeepDirectory, Return
<1>10. Custody'
  BY <1>1, <1>2, <1>4, <1>8, <1>9, Frame DEF NodeInv, TypeOK, Keeps, Idle, KeepDirectory
<1> QED
  BY <1>4, <1>6, <1>7, <1>10, TaskOrder DEF NodeInv, Return

(* remove_range becomes the owner of the range it takes out of the directory. *)
LEMMA RemoveRangeInv ==
    ASSUME NodeInv, NEW t \in Tasks, NEW i \in RangeIds, NEW force \in BOOLEAN,
           RemoveRange(t, i, force)
    PROVE  NodeInv'
<1> USE Constants
<1> DEFINE c == [pc |-> "removing", id |-> i, force |-> force]
           r == [rt[i] EXCEPT !.arcs = @ \cup {t}]
<1>1. /\ StartRpc(t, c) /\ RemoveEntry(i) /\ rt' = [rt EXCEPT ![i] = r]
      /\ i \in by_range /\ UNCHANGED <<sup, catalog, replica, beat, node>>
  BY DEF RemoveRange
<1>2. Doing(t) = Idle /\ InGoodHands(i) /\ rt[i] \in Runtimes
  BY <1>1 DEF Doing, NodeInv, Custody, StartRpc, InGoodHands, TypeOK
<1>3. /\ r \in Runtimes /\ rt'[i] = r /\ r.group = rt[i].group
      /\ r.raft = rt[i].raft /\ r.arcs = rt[i].arcs \cup {t}
  <2>1. rt'[i] = r
    BY <1>1 DEF NodeInv, TypeOK
  <2> QED
    BY <1>2, <2>1, RuntimeUpdates
<1> HIDE DEF r
<1>4. /\ IndexesAgree' /\ by_range' \subseteq RangeIds
      /\ DOMAIN by_group' \subseteq Range(Group) /\ Range(by_group') \subseteq RangeIds
  BY <1>1, <1>3, IndexesRemove DEF NodeInv, IndexesAgree, TypeOK
<1>5. TypeOK'
  BY <1>1, <1>3, <1>4, NodeConstants DEF NodeInv, TypeOK, StartRpc, Calls
<1>6. Doing(t)' = c /\ \A a \in Actors \ {t} : Doing(a)' = Doing(a)
  BY <1>1, TaskMoves DEF NodeInv, StartRpc
<1>7. by_range' = by_range \ {i}
  BY <1>1 DEF RemoveEntry
<1>8. InGoodHands(i)'
  BY <1>1, <1>2, <1>3, <1>6, <1>7 DEF InGoodHands, Keeps, Owns, Idle
<1>9. Custody'
  BY <1>1, <1>2, <1>6, <1>7, <1>8, Frame DEF NodeInv, TypeOK, Keeps, Idle
<1> QED
  BY <1>1, <1>4, <1>5, <1>9, StartedOrder DEF NodeInv

(* try_unwrap: the owner closes alone, puts the range back or lets it go. *)
LEMMA UnwrapInv == ASSUME NodeInv, NEW t \in Tasks, Unwrap(t) PROVE NodeInv'
<1> USE Constants
<1>1. PICK i \in RangeIds : task[t].id = i
  BY DEF Unwrap, NodeInv, TypeOK, Calls
<1> DEFINE halted == [rt[i] EXCEPT !.raft = "halted"]
<1>2. Doing(t) = task[t] /\ InGoodHands(i) /\ Owns(t, i)
  BY <1>1 DEF Doing, NodeInv, Custody, Owns, Keeps, Unwrap
<1>3. /\ rt[i] \in Runtimes /\ rt[i].raft = "up" /\ t \in rt[i].arcs /\ i \notin by_range
      /\ \A b \in Actors : Owns(b, i) => b = t
  BY <1>2 DEF InGoodHands, Owns, NodeInv, TypeOK, Unwrap
<1>4. /\ halted \in Runtimes /\ halted.group = rt[i].group /\ halted.raft = "halted"
      /\ halted.arcs = rt[i].arcs
  BY <1>3, RuntimeUpdates
<1>5. UNCHANGED <<sup, catalog, replica, beat, node, count>> /\ task[t].pc # "idle"
  BY DEF Unwrap
<1>6. CASE rt[i].arcs = {t}
  <2>1. rt' = [rt EXCEPT ![i] = halted] /\ KeepDirectory /\ Goto(t, "closing")
    BY <1>1, <1>6 DEF Unwrap
  <2>2. rt'[i] = halted
    BY <2>1 DEF NodeInv, TypeOK
  <2> HIDE DEF halted
  <2>3. TypeOK'
    BY <1>4, <1>5, <2>1 DEF NodeInv, TypeOK, KeepDirectory, Goto, Calls, Unwrap
  <2>4. IndexesAgree'
    BY <1>3, <2>1, KeptIndexes DEF NodeInv, IndexesAgree, TypeOK
  <2>5. /\ Doing(t)'.pc = "closing" /\ Doing(t)'.id = i
        /\ \A a \in Actors \ {t} : Doing(a)' = Doing(a)
    BY <1>1, <1>5, <2>1, TaskSteps DEF NodeInv
  <2>6. InGoodHands(i)'
    BY <1>2, <1>3, <1>4, <1>5, <1>6, <2>1, <2>2, <2>5
       DEF InGoodHands, Keeps, Owns, KeepDirectory
  <2>7. Custody'
    BY <1>2, <1>5, <2>1, <2>5, <2>6, Frame DEF NodeInv, TypeOK, Keeps, Owns, KeepDirectory
  <2> QED
    BY <1>5, <2>3, <2>4, <2>7, TaskOrder DEF NodeInv
<1>7. CASE rt[i].arcs # {t}
  <2>1. /\ Finish(t) /\ rt'[i] \in Runtimes /\ rt'[i].arcs = rt[i].arcs \ {t}
        /\ rt'[i].group = rt[i].group /\ rt' = [rt EXCEPT ![i] = rt'[i]]
        /\ \/ KeepDirectory
           \/ /\ CanInsert(i, rt[i].group) /\ Insert(i, rt[i].group)
              /\ rt'[i].raft = "up"
    <3>1. CASE task[t].force
      <4>1. rt' = [rt EXCEPT ![i] = Dropped(i, halted, t)] /\ KeepDirectory /\ Finish(t)
        BY <1>1, <1>7, <3>1 DEF Unwrap
      <4>2. rt'[i] = [halted EXCEPT !.arcs = @ \ {t}]
        <5>1. rt'[i] = Dropped(i, halted, t)
          BY <4>1 DEF NodeInv, TypeOK
        <5> QED
          BY <1>4, <1>7, <5>1 DEF Dropped
      <4> HIDE DEF halted
      <4>3. /\ rt'[i] \in Runtimes /\ rt'[i].arcs = rt[i].arcs \ {t}
            /\ rt'[i].group = rt[i].group
        BY <1>4, <4>2 DEF Runtimes
      <4> QED
        BY <4>1, <4>2, <4>3
    <3>2. CASE ~task[t].force
      <4>1. /\ rt' = [rt EXCEPT ![i] = Dropped(i, rt[i], t)] /\ Finish(t)
            /\ IF CanInsert(i, rt[i].group) THEN Insert(i, rt[i].group) ELSE KeepDirectory
        BY <1>1, <1>7, <3>2 DEF Unwrap
      <4>2. rt'[i] = [rt[i] EXCEPT !.arcs = @ \ {t}]
        <5>1. rt'[i] = Dropped(i, rt[i], t)
          BY <4>1 DEF NodeInv, TypeOK
        <5> QED
          BY <1>3, <1>7, <5>1 DEF Dropped
      <4>3. /\ rt'[i] \in Runtimes /\ rt'[i].arcs = rt[i].arcs \ {t}
            /\ rt'[i].group = rt[i].group /\ rt'[i].raft = "up"
        BY <1>3, <4>2 DEF Runtimes
      <4> QED
        BY <4>1, <4>2, <4>3
    <3> QED
      BY <3>1, <3>2
  <2>2. rt[i].group \in Range(Group) /\ \A j \in RangeIds \ {i} : rt'[j] = rt[j]
    BY <1>3, <2>1 DEF Runtimes, NodeInv, TypeOK
  <2>3. /\ IndexesAgree' /\ by_range' \subseteq RangeIds
        /\ DOMAIN by_group' \subseteq Range(Group) /\ Range(by_group') \subseteq RangeIds
    <3>1. \A j \in by_range : rt'[j] # None /\ rt'[j].group = rt[j].group
      BY <1>3, <2>2 DEF NodeInv, IndexesAgree, TypeOK
    <3>2. CASE KeepDirectory
      <4>1. IndexesAgree'
        BY <3>1, <3>2, KeptIndexes DEF NodeInv
      <4> QED
        BY <3>2, <4>1 DEF NodeInv, TypeOK, KeepDirectory
    <3>3. CASE CanInsert(i, rt[i].group) /\ Insert(i, rt[i].group)
      BY <2>1, <2>2, <3>1, <3>3, IndexesInsert DEF NodeInv
    <3> QED
      BY <2>1, <3>2, <3>3
  <2>4. TypeOK'
    BY <1>5, <2>1, <2>3 DEF NodeInv, TypeOK, Finish, Calls, Idle
  <2>5. Doing(t)' = Idle /\ \A a \in Actors \ {t} : Doing(a)' = Doing(a)
    BY <1>5, <2>1, TaskMoves DEF NodeInv, Finish
  <2>6. /\ \A j \in RangeIds \ {i} : j \in by_range' <=> j \in by_range
        /\ i \in by_range' => rt'[i].raft = "up"
    BY <1>3, <2>1 DEF KeepDirectory, Insert
  <2>7. InGoodHands(i)'
    BY <1>2, <1>3, <1>5, <2>1, <2>5, <2>6 DEF InGoodHands, Keeps, Owns, Idle
  <2>8. Custody'
    BY <1>2, <1>5, <2>2, <2>5, <2>6, <2>7, Frame DEF NodeInv, Keeps, Owns, Idle
  <2> QED
    BY <1>5, <2>3, <2>4, <2>8, TaskOrder DEF NodeInv
<1> QED
  BY <1>6, <1>7

(* shutdown(self) ends with nobody left who keeps the runtime. *)
LEMMA CloseOwnedInv == ASSUME NodeInv, NEW t \in Tasks, CloseOwned(t) PROVE NodeInv'
<1> USE Constants
<1>1. PICK i \in RangeIds : task[t].id = i
  BY DEF CloseOwned, NodeInv, TypeOK, Calls
<1>2. Doing(t) = task[t] /\ InGoodHands(i) /\ Owns(t, i) /\ Doing(t).pc = "closing"
  BY <1>1 DEF Doing, NodeInv, Custody, Owns, Keeps, CloseOwned
<1>3. /\ rt[i].arcs = {t} /\ i \notin by_range
      /\ \A b \in Actors : Keeps(b, i) => b = t
  BY <1>2 DEF InGoodHands
<1>4. /\ rt' = [rt EXCEPT ![i] = None] /\ Finish(t) /\ KeepDirectory /\ rt'[i] = None
      /\ UNCHANGED <<sup, catalog, replica, beat, node, count>>
  BY <1>1 DEF CloseOwned, NodeInv, TypeOK
<1>5. TypeOK'
  BY <1>4 DEF NodeInv, TypeOK, KeepDirectory, Finish, Calls, Idle
<1>6. IndexesAgree'
  BY <1>3, <1>4, KeptIndexes DEF NodeInv, IndexesAgree, TypeOK
<1>7. Doing(t)' = Idle /\ \A a \in Actors \ {t} : Doing(a)' = Doing(a)
  BY <1>4, TaskMoves DEF NodeInv, Finish
<1>8. InGoodHands(i)'
  BY <1>3, <1>4, <1>7 DEF InGoodHands, Keeps, Owns, Idle, KeepDirectory
<1>9. Custody'
  BY <1>2, <1>4, <1>7, <1>8, Frame DEF NodeInv, TypeOK, Keeps, Owns, Idle, KeepDirectory
<1> QED
  BY <1>4, <1>5, <1>6, <1>9, TaskOrder DEF NodeInv, CloseOwned

(***************************************************************************)
(* The PD supervisor.                                                      *)
(***************************************************************************)

(* A tick in progress keeps the node running. *)
LEMMA SupOrder ==
    ASSUME NodeInv, sup.pc # "off", UNCHANGED <<beat, node>> PROVE StopsInOrder'
BY Waiting DEF NodeInv, StopsInOrder

(* list_ranges and plan_reconcile touch no range. *)
LEMMA SupThinksInv == ASSUME NodeInv, SupAsk \/ SupAnswer \/ SupPlan PROVE NodeInv'
<1> USE Constants
<1>1. /\ KeepDirectory /\ UNCHANGED <<rt, task, catalog, replica, beat, node, count>>
      /\ sup.pc \in {"idle", "asking", "fetched"}
  BY DEF SupAsk, SupAnswer, SupPlan, Idle
<1>2. sup' \in Ticks /\ sup'.pc \in {"asking", "fetched", "working", "idle"}
  <2>1. CASE SupAsk
    BY <2>1 DEF SupAsk, Ticks
  <2>3. CASE SupAnswer
    BY <2>3 DEF SupAnswer, NodeInv, TypeOK, Ticks, Idle
  <2>2. CASE SupPlan
    <3>1. sup.pd \in SUBSET RangeIds
      BY <2>2, NodeConstants DEF SupPlan, NodeInv, TypeOK, Ticks
    <3>2. ToAdd(sup.pd, by_range) \in SUBSET RangeIds
      BY <3>1 DEF ToAdd
    <3>3. ToRemove(sup.pd, by_range) \in SUBSET RangeIds
      BY DEF ToRemove, NodeInv, TypeOK
    <3> QED
      BY <2>2, <3>2, <3>3, WorkingIs DEF SupPlan
  <2> QED
    BY <2>1, <2>2, <2>3
<1>3. TypeOK'
  BY <1>1, <1>2 DEF NodeInv, TypeOK, KeepDirectory
<1>4. IndexesAgree'
  BY <1>1, KeptIndexes DEF NodeInv, IndexesAgree
<1>5. Custody'
  BY <1>1, <1>2, SupMoves, NoHandsMove DEF NodeInv, Keeps, KeepDirectory
<1> QED
  BY <1>1, <1>3, <1>4, <1>5, SupOrder DEF NodeInv

(* The supervisor owns the runtime that it opened. *)
LEMMA SupOpenInv == ASSUME NodeInv, SupOpen PROVE NodeInv'
<1> USE Constants
<1>1. sup.add \in SUBSET RangeIds /\ sup.remove \in SUBSET RangeIds /\ sup.add # {}
  BY DEF SupOpen, NodeInv, TypeOK, Ticks
<1>2. Min(sup.add) \in sup.add
  BY <1>1, MinNat
<1>3. PICK i \in RangeIds : Min(sup.add) = i
  BY <1>1, <1>2
<1> DEFINE o == Opened(Group[i], "sup")
<1>4. o \in Runtimes /\ o.raft = "up" /\ o.arcs = {"sup"}
  BY OpenedIs
<1>5. /\ KeepDirectory /\ UNCHANGED <<task, catalog, replica, beat, node, count>>
      /\ sup.pc = "working" /\ InGoodHands(i)
  BY DEF SupOpen, NodeInv, Custody
<1>6. CASE rt[i] = None
  <2>1. /\ rt' = [rt EXCEPT ![i] = o]
        /\ sup' = [pc |-> "opened", id |-> i, add |-> sup.add \ {i}, remove |-> sup.remove]
    BY <1>3, <1>6 DEF SupOpen
  <2>2. rt'[i] = o /\ sup' \in Ticks /\ sup'.pc = "opened" /\ sup'.id = i
    BY <1>1, <2>1 DEF NodeInv, TypeOK, Ticks
  <2>3. TypeOK'
    BY <1>4, <1>5, <2>1, <2>2 DEF NodeInv, TypeOK, KeepDirectory
  <2>4. IndexesAgree'
    BY <1>5, <1>6, <2>1, KeptIndexes DEF NodeInv, IndexesAgree, TypeOK
  <2>5. InGoodHands(i)'
    BY <1>4, <1>5, <1>6, <2>2, SupMoves DEF InGoodHands, Keeps, Owns, KeepDirectory
  <2>6. Custody'
    BY <1>5, <2>1, <2>2, <2>5, SupMoves, Frame DEF NodeInv, TypeOK, Keeps, KeepDirectory
  <2> QED
    BY <1>5, <2>3, <2>4, <2>6, SupOrder DEF NodeInv
<1>7. CASE rt[i] # None
  <2>1. UNCHANGED rt /\ sup' = Working(sup.add \ {i}, sup.remove)
    BY <1>3, <1>7 DEF SupOpen
  <2>2. sup' \in Ticks /\ sup'.pc \in {"idle", "working"}
    BY <1>1, <2>1, WorkingIs
  <2>3. TypeOK'
    BY <1>5, <2>1, <2>2 DEF NodeInv, TypeOK, KeepDirectory
  <2>4. IndexesAgree'
    BY <1>5, <2>1, KeptIndexes DEF NodeInv, IndexesAgree
  <2>5. Custody'
    BY <1>5, <2>1, <2>2, SupMoves, NoHandsMove DEF NodeInv, Keeps, KeepDirectory
  <2> QED
    BY <1>5, <2>3, <2>4, <2>5, SupOrder DEF NodeInv
<1> QED
  BY <1>6, <1>7

(* open_and_register hands the runtime over to the directory, or drops it. *)
LEMMA SupRegisterInv == ASSUME NodeInv, SupRegister PROVE NodeInv'
<1> USE Constants
<1>1. PICK i \in RangeIds : sup.id = i
  BY DEF SupRegister, NodeInv, TypeOK, Ticks
<1>2. /\ Doing("sup") = sup /\ Doing("sup")' = sup' /\ InGoodHands(i) /\ Owns("sup", i)
      /\ \A b \in Actors \ {"sup"} : Doing(b)' = Doing(b)
  <2>1. /\ Doing("sup") = sup /\ Doing("sup")' = sup'
        /\ \A b \in Actors \ {"sup"} : Doing(b)' = Doing(b)
    BY SupMoves DEF SupRegister
  <2> QED
    BY <1>1, <2>1 DEF NodeInv, Custody, Owns, Keeps, SupRegister
<1>3. /\ rt[i] \in Runtimes /\ rt[i].raft = "up" /\ "sup" \in rt[i].arcs /\ i \notin by_range
      /\ \A b \in Actors : Owns(b, i) => b = "sup"
  BY <1>2 DEF InGoodHands, Owns, NodeInv, TypeOK, SupRegister
<1>4. /\ UNCHANGED <<task, catalog, replica, beat, node, count>> /\ sup.pc = "opened"
      /\ IF CanInsert(i, rt[i].group) THEN Insert(i, rt[i].group) ELSE KeepDirectory
      /\ rt' = [rt EXCEPT ![i] = Dropped(i, rt[i], "sup")]
  BY <1>1 DEF SupRegister
<1>5. rt'[i] = [rt[i] EXCEPT !.arcs = @ \ {"sup"}]
  <2>1. rt'[i] = Dropped(i, rt[i], "sup")
    BY <1>4 DEF NodeInv, TypeOK
  <2> QED
    BY <1>3, <2>1 DEF Dropped
<1>6. /\ rt'[i] \in Runtimes /\ rt'[i].group = rt[i].group /\ rt'[i].raft = "up"
      /\ rt'[i].arcs = rt[i].arcs \ {"sup"} /\ rt[i].group \in Range(Group)
      /\ rt' = [rt EXCEPT ![i] = rt'[i]] /\ \A j \in RangeIds \ {i} : rt'[j] = rt[j]
  <2>1. rt' = [rt EXCEPT ![i] = rt'[i]] /\ \A j \in RangeIds \ {i} : rt'[j] = rt[j]
    BY <1>4 DEF NodeInv, TypeOK
  <2> QED
    BY <1>3, <1>5, <2>1 DEF Runtimes
<1>7. sup' \in Ticks /\ sup'.pc \in {"idle", "working"}
  BY WorkingIs DEF SupRegister, NodeInv, TypeOK, Ticks
<1>8. /\ IndexesAgree' /\ by_range' \subseteq RangeIds
      /\ DOMAIN by_group' \subseteq Range(Group) /\ Range(by_group') \subseteq RangeIds
  <2>1. \A j \in by_range : rt'[j] # None /\ rt'[j].group = rt[j].group
    BY <1>3, <1>6 DEF NodeInv, IndexesAgree, TypeOK
  <2>2. CASE KeepDirectory
    <3>1. IndexesAgree'
      BY <2>1, <2>2, KeptIndexes DEF NodeInv
    <3> QED
      BY <2>2, <3>1 DEF NodeInv, TypeOK, KeepDirectory
  <2>3. CASE CanInsert(i, rt[i].group) /\ Insert(i, rt[i].group)
    BY <1>6, <2>1, <2>3, IndexesInsert DEF NodeInv
  <2> QED
    BY <1>4, <2>2, <2>3
<1>9. TypeOK'
  BY <1>4, <1>6, <1>7, <1>8 DEF NodeInv, TypeOK
<1>10. \A j \in RangeIds \ {i} : j \in by_range' <=> j \in by_range
  BY <1>4 DEF KeepDirectory, Insert
<1>11. InGoodHands(i)'
  BY <1>2, <1>3, <1>4, <1>6, <1>7 DEF InGoodHands, Keeps, Owns
<1>12. Custody'
  BY <1>2, <1>4, <1>6, <1>7, <1>10, <1>11, Frame DEF NodeInv, Keeps, Owns
<1> QED
  BY <1>4, <1>8, <1>9, <1>12, SupOrder DEF NodeInv

(* remove_and_shutdown owns the range it takes out, and skips one already gone. *)
LEMMA SupRemoveInv == ASSUME NodeInv, SupRemove PROVE NodeInv'
<1> USE Constants
<1>1. sup.remove \in SUBSET RangeIds /\ sup.pc = "working"
  BY DEF SupRemove, NodeInv, TypeOK, Ticks
<1>2. PICK i : i = Min(sup.remove)
  OBVIOUS
<1>3. UNCHANGED <<task, catalog, replica, beat, node, count>>
  BY DEF SupRemove
<1>4. CASE i \in by_range
  <2> DEFINE r == [rt[i] EXCEPT !.arcs = @ \cup {"sup"}]
  <2>1. /\ RemoveEntry(i) /\ rt' = [rt EXCEPT ![i] = r]
        /\ sup' = [pc |-> "removing", id |-> i, remove |-> sup.remove \ {i}]
    BY <1>2, <1>4 DEF SupRemove
  <2>2. i \in RangeIds /\ InGoodHands(i) /\ rt[i] \in Runtimes
    BY <1>4 DEF NodeInv, Custody, InGoodHands, TypeOK
  <2>3. /\ r \in Runtimes /\ rt'[i] = r /\ r.group = rt[i].group
        /\ r.raft = rt[i].raft /\ r.arcs = rt[i].arcs \cup {"sup"}
    <3>1. rt'[i] = r
      BY <2>1, <2>2 DEF NodeInv, TypeOK
    <3> QED
      BY <2>2, <3>1, RuntimeUpdates
  <2> HIDE DEF r
  <2>4. /\ IndexesAgree' /\ by_range' \subseteq RangeIds
        /\ DOMAIN by_group' \subseteq Range(Group) /\ Range(by_group') \subseteq RangeIds
    BY <1>4, <2>1, <2>3, IndexesRemove DEF NodeInv, IndexesAgree, TypeOK
  <2>5. sup' \in Ticks /\ sup'.pc = "removing" /\ sup'.id = i
    BY <1>1, <2>1, <2>2 DEF Ticks
  <2>6. TypeOK'
    BY <1>3, <2>1, <2>3, <2>4, <2>5 DEF NodeInv, TypeOK
  <2>7. by_range' = by_range \ {i}
    BY <2>1 DEF RemoveEntry
  <2>8. InGoodHands(i)'
    BY <1>1, <1>3, <1>4, <2>2, <2>3, <2>5, <2>7, SupMoves DEF InGoodHands, Keeps, Owns
  <2>9. Custody'
    BY <1>1, <1>3, <2>1, <2>2, <2>5, <2>7, <2>8, SupMoves, Frame DEF NodeInv, TypeOK, Keeps
  <2> QED
    BY <1>1, <1>3, <2>4, <2>6, <2>9, SupOrder DEF NodeInv
<1>5. CASE i \notin by_range
  <2>1. /\ UNCHANGED rt /\ KeepDirectory /\ sup' = Working({}, sup.remove \ {i})
    BY <1>2, <1>5 DEF SupRemove
  <2>2. sup' \in Ticks /\ sup'.pc \in {"idle", "working"}
    BY <1>1, <2>1, WorkingIs
  <2>3. TypeOK'
    BY <1>3, <2>1, <2>2 DEF NodeInv, TypeOK, KeepDirectory
  <2>4. IndexesAgree'
    BY <2>1, KeptIndexes DEF NodeInv, IndexesAgree
  <2>5. Custody'
    BY <1>1, <1>3, <2>1, <2>2, SupMoves, NoHandsMove DEF NodeInv, Keeps, KeepDirectory
  <2> QED
    BY <1>1, <1>3, <2>3, <2>4, <2>5, SupOrder DEF NodeInv
<1> QED
  BY <1>4, <1>5

(* The supervisor closes alone, or stops the Raft task and lets go. *)
LEMMA SupUnwrapInv == ASSUME NodeInv, SupUnwrap PROVE NodeInv'
<1> USE Constants
<1>1. PICK i \in RangeIds : sup.id = i
  BY DEF SupUnwrap, NodeInv, TypeOK, Ticks
<1>2. /\ Doing("sup") = sup /\ Doing("sup")' = sup'
      /\ \A b \in Actors \ {"sup"} : Doing(b)' = Doing(b)
  BY SupMoves DEF SupUnwrap
<1>3. InGoodHands(i) /\ Owns("sup", i)
  BY <1>1, <1>2 DEF NodeInv, Custody, Owns, Keeps, SupUnwrap
<1>4. /\ rt[i] \in Runtimes /\ "sup" \in rt[i].arcs /\ i \notin by_range
      /\ \A b \in Actors : Owns(b, i) => b = "sup"
  BY <1>3 DEF InGoodHands, Owns, NodeInv, TypeOK
<1>5. /\ UNCHANGED <<task, catalog, replica, beat, node, count>> /\ KeepDirectory
      /\ sup.pc = "removing"
  BY DEF SupUnwrap
<1>6. /\ rt'[i] \in Runtimes /\ rt' = [rt EXCEPT ![i] = rt'[i]]
      /\ sup' \in Ticks
      /\ \/ /\ rt[i].arcs = {"sup"} /\ rt'[i].arcs = {"sup"}
            /\ sup'.pc = "closing" /\ sup'.id = i
         \/ /\ rt'[i].arcs = rt[i].arcs \ {"sup"} /\ sup'.pc \in {"idle", "working"}
  <2>1. CASE rt[i].arcs = {"sup"}
    <3>1. /\ rt' = [rt EXCEPT ![i] = [rt[i] EXCEPT !.raft = "halted"]]
          /\ sup' = [sup EXCEPT !.pc = "closing"]
      BY <1>1, <2>1 DEF SupUnwrap
    <3>2. rt'[i] = [rt[i] EXCEPT !.raft = "halted"]
      BY <3>1 DEF NodeInv, TypeOK
    <3>3. rt'[i] \in Runtimes /\ rt'[i].arcs = {"sup"}
      BY <1>4, <2>1, <3>2 DEF Runtimes
    <3>4. sup' \in Ticks /\ sup'.pc = "closing" /\ sup'.id = i
      BY <1>1, <1>5, <3>1 DEF NodeInv, TypeOK, Ticks
    <3> QED
      BY <2>1, <3>1, <3>2, <3>3, <3>4
  <2>2. CASE rt[i].arcs # {"sup"}
    <3> DEFINE h == [rt[i] EXCEPT !.raft = "halted"]
    <3>1. /\ rt' = [rt EXCEPT ![i] = [h EXCEPT !.arcs = @ \ {"sup"}]]
          /\ sup' = Working({}, sup.remove)
      BY <1>1, <2>2 DEF SupUnwrap
    <3>2. rt'[i] = [h EXCEPT !.arcs = @ \ {"sup"}]
      BY <3>1 DEF NodeInv, TypeOK
    <3>3. h \in Runtimes /\ h.arcs = rt[i].arcs
      BY <1>4 DEF Runtimes
    <3> HIDE DEF h
    <3>4. rt'[i] \in Runtimes /\ rt'[i].arcs = rt[i].arcs \ {"sup"}
      BY <3>2, <3>3 DEF Runtimes
    <3>5. sup.remove \in SUBSET RangeIds
      BY <1>5 DEF NodeInv, TypeOK, Ticks
    <3>6. sup' \in Ticks /\ sup'.pc \in {"idle", "working"}
      BY <3>1, <3>5, WorkingIs
    <3> QED
      BY <3>1, <3>2, <3>4, <3>6
  <2> QED
    BY <2>1, <2>2
<1>7. TypeOK'
  BY <1>5, <1>6 DEF NodeInv, TypeOK, KeepDirectory
<1>8. IndexesAgree'
  BY <1>4, <1>5, <1>6, KeptIndexes DEF NodeInv, IndexesAgree, TypeOK
<1>9. InGoodHands(i)'
  BY <1>2, <1>3, <1>4, <1>5, <1>6 DEF InGoodHands, Keeps, Owns, KeepDirectory
<1>10. Custody'
  BY <1>2, <1>3, <1>5, <1>6, <1>9, Frame DEF NodeInv, TypeOK, Keeps, Owns, KeepDirectory
<1> QED
  BY <1>5, <1>7, <1>8, <1>10, SupOrder DEF NodeInv

(* The supervisor closes a runtime that only it keeps. *)
LEMMA SupCloseInv == ASSUME NodeInv, SupClose PROVE NodeInv'
<1> USE Constants
<1>1. PICK i \in RangeIds : sup.id = i
  BY DEF SupClose, NodeInv, TypeOK, Ticks
<1>2. /\ Doing("sup") = sup /\ Doing("sup")' = sup'
      /\ \A b \in Actors \ {"sup"} : Doing(b)' = Doing(b)
  BY SupMoves DEF SupClose
<1>3. InGoodHands(i) /\ Owns("sup", i) /\ Doing("sup").pc = "closing"
  BY <1>1, <1>2 DEF NodeInv, Custody, Owns, Keeps, SupClose
<1>4. /\ rt[i].arcs = {"sup"} /\ i \notin by_range
      /\ \A b \in Actors : Keeps(b, i) => b = "sup"
  BY <1>3 DEF InGoodHands
<1>5. /\ rt' = [rt EXCEPT ![i] = None] /\ KeepDirectory /\ rt'[i] = None
      /\ UNCHANGED <<task, catalog, replica, beat, node, count>> /\ sup.pc # "off"
  BY <1>1 DEF SupClose, NodeInv, TypeOK
<1>6. sup' \in Ticks /\ sup'.pc \in {"idle", "working"}
  BY WorkingIs DEF SupClose, NodeInv, TypeOK, Ticks
<1>7. TypeOK'
  BY <1>5, <1>6 DEF NodeInv, TypeOK, KeepDirectory
<1>8. IndexesAgree'
  BY <1>4, <1>5, KeptIndexes DEF NodeInv, IndexesAgree, TypeOK
<1>9. InGoodHands(i)'
  BY <1>2, <1>4, <1>5, <1>6 DEF InGoodHands, Keeps, Owns, KeepDirectory
<1>10. Custody'
  BY <1>2, <1>3, <1>5, <1>6, <1>9, Frame DEF NodeInv, TypeOK, Keeps, Owns, KeepDirectory
<1> QED
  BY <1>5, <1>7, <1>8, <1>10, SupOrder DEF NodeInv

(***************************************************************************)
(* The placement driver and the node.                                      *)
(***************************************************************************)

(* Reassignments, replication, heartbeats and the first steps of shutdown leave
   every range where it is.                                                *)
LEMMA OutsideInv ==
    ASSUME NodeInv,
           \/ Replicate \/ BeginShutdown \/ SupStop \/ ServerRefuses
           \/ BeatCall \/ BeatAnswer \/ BeatStop
           \/ \E i \in Assignable : Reassign(i)
    PROVE  NodeInv'
<1> USE Constants
<1>1. /\ KeepDirectory /\ UNCHANGED <<rt, task>>
      /\ (sup' = sup) \/ (sup = Idle /\ sup' = Off)
      /\ (node' = node) \/ (node' \in {"stopping", "refusing"} /\ node # "draining")
  <2>1. CASE Replicate
    BY <2>1 DEF Replicate
  <2>2. CASE BeginShutdown
    BY <2>2 DEF BeginShutdown
  <2>3. CASE SupStop
    BY <2>3 DEF SupStop
  <2>4. CASE \E i \in Assignable : Reassign(i)
    BY <2>4 DEF Reassign
  <2>5. CASE ServerRefuses
    BY <2>5 DEF ServerRefuses
  <2>6. CASE BeatCall \/ BeatAnswer \/ BeatStop
    BY <2>6 DEF BeatCall, BeatAnswer, BeatStop
  <2> QED
    BY <2>1, <2>2, <2>3, <2>4, <2>5, <2>6
<1>2. TypeOK'
  BY NodeConstants DEF NodeInv, TypeOK, Replicate, BeginShutdown, SupStop, Reassign,
       ServerRefuses, BeatCall, BeatAnswer, BeatStop, KeepDirectory, Ticks, Off
<1>3. IndexesAgree'
  BY <1>1, KeptIndexes DEF NodeInv, IndexesAgree
<1>4. Custody'
  <2>1. CASE sup' = sup
    <3> SUFFICES ASSUME NEW j \in RangeIds PROVE InGoodHands(j)'
      BY DEF Custody
    <3>1. /\ InGoodHands(j) /\ \A b \in Actors : Doing(b)' = Doing(b)
      BY <1>1, <2>1 DEF NodeInv, Custody, Doing
    <3> QED
      BY <1>1, <3>1 DEF InGoodHands, Keeps, Owns, KeepDirectory
  <2>2. CASE sup = Idle /\ sup' = Off
    BY <1>1, <2>2, SupMoves, NoHandsMove DEF NodeInv, Keeps, Idle, Off, KeepDirectory
  <2> QED
    BY <1>1, <2>1, <2>2
<1>5. StopsInOrder'
  BY DEF NodeInv, StopsInOrder, Replicate, BeginShutdown, SupStop, Reassign,
         ServerRefuses, BeatCall, BeatAnswer, BeatStop, KeepDirectory
<1> QED
  BY <1>2, <1>3, <1>4, <1>5 DEF NodeInv

(* With the RPCs and the supervisor gone, no Arc belongs to an actor. *)
LEMMA NobodyKeeps ==
    ASSUME NodeInv, sup = Off, \A t \in Tasks : task[t] = Idle
    PROVE  /\ \A a \in Actors, i \in RangeIds : ~Keeps(a, i)
           /\ \A i \in RangeIds : rt[i] # None => rt[i].arcs \cap Actors = {}
<1>1. \A a \in Actors : Doing(a) \in {Off, Idle}
  BY Constants DEF Doing, Actors
<1>2. \A a \in Actors, i \in RangeIds : ~Keeps(a, i)
  BY <1>1 DEF Keeps, Off, Idle
<1> QED
  BY <1>2 DEF NodeInv, Custody, InGoodHands

(* No actor keeps anything, the directory is empty and the Arcs left belong to
   shutdown: every range is in good hands.                                 *)
LEMMA EmptyHands ==
    ASSUME by_range' = {}, sup' = Off, \A t \in Tasks : task'[t] = Idle,
           \A i \in RangeIds : rt'[i] # None =>
               /\ rt'[i].arcs \cap Actors = {} /\ "node" \notin rt'[i].arcs
               /\ "drain" \in rt'[i].arcs => node' = "draining"
    PROVE  Custody'
<1>1. \A a \in Actors : Doing(a)' \in {Off, Idle}
  BY Constants DEF Doing, Actors
<1>2. \A a \in Actors, i \in RangeIds : ~Keeps(a, i)'
  BY <1>1 DEF Keeps, Off, Idle
<1> QED
  BY <1>2 DEF Custody, InGoodHands, Owns

(* With no RPC and no supervisor left, drain takes every registered runtime. *)
LEMMA ServerStopInv == ASSUME NodeInv, ServerStop PROVE NodeInv'
<1> USE Constants
<1>1. /\ sup = Off /\ beat = "off" /\ \A t \in Tasks : task[t] = Idle
  BY DEF ServerStop, NodeInv, StopsInOrder
<1>2. /\ by_range' = {} /\ by_group' = Empty /\ node' = "draining"
      /\ UNCHANGED <<task, sup, catalog, replica, beat, count>>
  BY DEF ServerStop
<1>3. \A i \in RangeIds :
          /\ rt'[i] \in Runtimes \cup {None}
          /\ rt'[i] # None => rt'[i].arcs \cap Actors = {} /\ "node" \notin rt'[i].arcs
  <2> SUFFICES ASSUME NEW i \in RangeIds
               PROVE  /\ rt'[i] \in Runtimes \cup {None}
                      /\ rt'[i] # None =>
                            rt'[i].arcs \cap Actors = {} /\ "node" \notin rt'[i].arcs
    OBVIOUS
  <2>1. /\ rt[i] \in Runtimes \cup {None} /\ InGoodHands(i)
        /\ rt[i] # None => rt[i].arcs \cap Actors = {}
    BY <1>1, NobodyKeeps DEF NodeInv, TypeOK, Custody
  <2>2. CASE i \in by_range
    <3>1. rt[i] \in Runtimes
      BY <2>1, <2>2 DEF InGoodHands
    <3>2. rt'[i] = [rt[i] EXCEPT !.arcs = (@ \ {"node"}) \cup {"drain"}]
      BY <2>2 DEF ServerStop
    <3>3. rt'[i] \in Runtimes /\ rt'[i].arcs = (rt[i].arcs \ {"node"}) \cup {"drain"}
      BY <3>1, <3>2 DEF Runtimes
    <3> QED
      BY <2>1, <3>1, <3>3
  <2>3. CASE i \notin by_range /\ i = Default /\ rt[i] # None
    <3>1. rt'[i] = Dropped(i, rt[i], "node")
      BY <2>3 DEF ServerStop
    <3>2. rt'[i] = None \/ rt'[i] = [rt[i] EXCEPT !.arcs = @ \ {"node"}]
      BY <3>1 DEF Dropped
    <3>3. rt'[i] # None => rt'[i] \in Runtimes /\ rt'[i].arcs = rt[i].arcs \ {"node"}
      BY <2>1, <2>3, <3>2 DEF Runtimes
    <3> QED
      BY <2>1, <2>3, <3>3
  <2>4. CASE i \notin by_range /\ ~(i = Default /\ rt[i] # None)
    <3>1. rt'[i] = rt[i]
      BY <2>4 DEF ServerStop
    <3> QED
      BY <2>1, <2>4, <3>1 DEF InGoodHands
  <2> QED
    BY <2>2, <2>3, <2>4
<1>4. TypeOK'
  <2>1. rt' \in [RangeIds -> Runtimes \cup {None}]
    BY <1>3 DEF ServerStop
  <2> QED
    BY <1>2, <2>1 DEF NodeInv, TypeOK, Empty, Range
<1>5. IndexesAgree'
  BY <1>2 DEF IndexesAgree, Empty, Range
<1>6. Custody'
  BY <1>1, <1>2, <1>3, EmptyHands
<1>7. StopsInOrder'
  BY <1>1, <1>2 DEF StopsInOrder
<1> QED
  BY <1>4, <1>5, <1>6, <1>7 DEF NodeInv

(* Once the directory is drained, closing a runtime or ending keeps the rest. *)
LEMMA DrainInv == ASSUME NodeInv, NEW i \in RangeIds, Drain(i) PROVE NodeInv'
<1> USE Constants
<1>1. /\ sup = Off /\ (\A t \in Tasks : task[t] = Idle) /\ by_range = {}
  BY DEF Drain, NodeInv, StopsInOrder
<1> DEFINE h == [rt[i] EXCEPT !.raft = "halted"]
<1>2. /\ KeepDirectory /\ UNCHANGED <<task, sup, catalog, replica, beat, node, count>>
      /\ rt' = [rt EXCEPT ![i] = Dropped(i, h, "drain")]
      /\ node = "draining" /\ rt[i] \in Runtimes
  BY DEF Drain, NodeInv, TypeOK
<1>3. h \in Runtimes /\ h.arcs = rt[i].arcs
  BY <1>2 DEF Runtimes
<1>4. rt'[i] = None \/ rt'[i] = [h EXCEPT !.arcs = @ \ {"drain"}]
  <2>1. rt'[i] = Dropped(i, h, "drain")
    BY <1>2 DEF NodeInv, TypeOK
  <2> HIDE DEF h
  <2> QED
    BY <2>1 DEF Dropped
<1> HIDE DEF h
<1>5. /\ rt'[i] \in Runtimes \cup {None} /\ rt' = [rt EXCEPT ![i] = rt'[i]]
      /\ rt'[i] # None => rt'[i].arcs \subseteq rt[i].arcs
  <2>1. rt' = [rt EXCEPT ![i] = rt'[i]]
    BY <1>2 DEF NodeInv, TypeOK
  <2> QED
    BY <1>3, <1>4, <2>1 DEF Runtimes
<1>6. TypeOK'
  BY <1>2, <1>5 DEF NodeInv, TypeOK, KeepDirectory
<1>7. IndexesAgree'
  BY <1>1, <1>2, KeptIndexes DEF NodeInv
<1>8. \A j \in RangeIds : rt'[j] # None =>
          rt'[j].arcs \cap Actors = {} /\ "node" \notin rt'[j].arcs
  <2>1. \A j \in RangeIds : rt[j] # None =>
            rt[j].arcs \cap Actors = {} /\ "node" \notin rt[j].arcs
    BY <1>1, <1>2, NobodyKeeps DEF NodeInv, Custody, InGoodHands
  <2>2. \A j \in RangeIds \ {i} : rt'[j] = rt[j]
    BY <1>5 DEF NodeInv, TypeOK
  <2> QED
    BY <1>2, <1>5, <2>1, <2>2
<1>9. Custody'
  BY <1>1, <1>2, <1>8, EmptyHands DEF KeepDirectory
<1> QED
  BY <1>1, <1>2, <1>6, <1>7, <1>9 DEF NodeInv, StopsInOrder, KeepDirectory

(* shutdown ends when drain has given up its last Arc. *)
LEMMA EndShutdownInv == ASSUME NodeInv, EndShutdown PROVE NodeInv'
<1>1. /\ sup = Off /\ (\A t \in Tasks : task[t] = Idle) /\ by_range = {}
      /\ UNCHANGED <<rt, task, sup, catalog, replica, beat, count>> /\ KeepDirectory
      /\ node = "draining" /\ node' = "off"
  BY DEF EndShutdown, NodeInv, StopsInOrder
<1>2. TypeOK' /\ IndexesAgree'
  BY <1>1, KeptIndexes DEF NodeInv, TypeOK, KeepDirectory
<1>3. \A i \in RangeIds : rt[i] # None =>
          /\ rt[i].arcs \cap Actors = {} /\ "node" \notin rt[i].arcs
          /\ "drain" \notin rt[i].arcs
  BY <1>1, NobodyKeeps DEF NodeInv, Custody, InGoodHands, EndShutdown
<1>4. Custody'
  BY <1>1, <1>3, EmptyHands DEF KeepDirectory
<1> QED
  BY <1>1, <1>2, <1>4 DEF NodeInv, StopsInOrder, KeepDirectory

(* A node starts with the default range and nothing else in the directory. *)
LEMMA StartInv == ASSUME NodeInv, Start PROVE NodeInv'
<1> USE Constants
<1> DEFINE o == Opened(Group[Default], "node")
<1>1. /\ (\A t \in Tasks : task[t] = Idle) /\ by_range = {} /\ sup = Off
      /\ node = "off" /\ rt[Default] = None
  BY DEF Start, NodeInv, StopsInOrder
<1>2. o \in Runtimes /\ o.raft = "up" /\ o.arcs = {"node"} /\ o.group = Group[Default]
  BY OpenedIs
<1>3. /\ rt' = [rt EXCEPT ![Default] = o] /\ Insert(Default, Group[Default])
      /\ sup' = Idle /\ beat' = "idle" /\ node' = "up"
      /\ UNCHANGED <<task, catalog, replica, count>>
  BY DEF Start, DefaultRuntime
<1>4. rt'[Default] = o /\ \A j \in RangeIds \ {Default} : rt'[j] = rt[j]
  BY <1>3 DEF NodeInv, TypeOK
<1>5. CanInsert(Default, Group[Default])
  BY <1>1 DEF CanInsert, NodeInv, IndexesAgree, Range
<1>6. /\ IndexesAgree' /\ by_range' \subseteq RangeIds
      /\ DOMAIN by_group' \subseteq Range(Group) /\ Range(by_group') \subseteq RangeIds
  BY <1>1, <1>2, <1>3, <1>4, <1>5, IndexesInsert DEF NodeInv
<1>7. TypeOK'
  BY <1>2, <1>3, <1>6 DEF NodeInv, TypeOK, Ticks, Idle
<1>8. Custody'
  <2>1. \A a \in Actors : Doing(a)' = Idle
    BY <1>1, <1>3 DEF Doing, Actors
  <2>2. \A a \in Actors, i \in RangeIds : ~Keeps(a, i)'
    BY <2>1 DEF Keeps, Idle
  <2>3. \A i \in RangeIds \ {Default} : rt[i] # None =>
            /\ rt[i].arcs \cap Actors = {} /\ "node" \notin rt[i].arcs
            /\ "drain" \notin rt[i].arcs
    BY <1>1, NobodyKeeps DEF NodeInv, Custody, InGoodHands
  <2>4. by_range' = {Default}
    BY <1>1, <1>3 DEF Insert
  <2> QED
    BY <1>2, <1>3, <1>4, <2>2, <2>3, <2>4 DEF Custody, InGoodHands, Owns
<1> QED
  BY <1>3, <1>6, <1>7, <1>8 DEF NodeInv, StopsInOrder

(* Nobody keeps a runtime whose files close by themselves. *)
LEMMA FadeInv == ASSUME NodeInv, NEW i \in RangeIds, Fade(i) PROVE NodeInv'
<1> USE Constants
<1>1. /\ rt' = [rt EXCEPT ![i] = None] /\ KeepDirectory /\ rt'[i] = None
      /\ UNCHANGED <<task, sup, catalog, replica, beat, node, count>>
      /\ rt[i] # None /\ rt[i].arcs = {} /\ i \notin by_range
  BY DEF Fade, NodeInv, TypeOK
<1>2. TypeOK'
  BY <1>1 DEF NodeInv, TypeOK, KeepDirectory
<1>3. IndexesAgree'
  BY <1>1, KeptIndexes DEF NodeInv, IndexesAgree, TypeOK
<1>4. \A b \in Actors : Doing(b)' = Doing(b)
  BY <1>1 DEF Doing
<1>5. Custody'
  <2> SUFFICES ASSUME NEW j \in RangeIds PROVE InGoodHands(j)'
    BY DEF Custody
  <2>1. InGoodHands(j) /\ InGoodHands(i)
    BY DEF NodeInv, Custody
  <2>2. CASE j = i
    BY <1>1, <1>4, <2>1, <2>2 DEF InGoodHands, Keeps, Owns, KeepDirectory
  <2>3. CASE j # i
    <3>1. rt'[j] = rt[j]
      BY <1>1, <2>3 DEF NodeInv, TypeOK
    <3> QED
      BY <1>1, <1>4, <2>1, <3>1 DEF InGoodHands, Keeps, Owns, KeepDirectory
  <2> QED
    BY <2>2, <2>3
<1> QED
  BY <1>1, <1>2, <1>3, <1>5 DEF NodeInv, StopsInOrder, KeepDirectory

(***************************************************************************)
(* The theorems.                                                           *)
(***************************************************************************)

(* start_with_pd begins with the default range in good hands. *)
LEMMA InitInv == Init => NodeInv
<1> SUFFICES ASSUME Init PROVE NodeInv
  OBVIOUS
<1> USE Constants
<1> DEFINE o == Opened(Group[Default], "node")
<1>1. o \in Runtimes /\ o.raft = "up" /\ o.arcs = {"node"} /\ o.group = Group[Default]
  BY OpenedIs
<1> HIDE DEF o
<1>2. /\ rt = [i \in RangeIds |-> IF i = Default THEN o ELSE None]
      /\ by_range = {Default} /\ by_group = [g \in {Group[Default]} |-> Default]
      /\ sup = Idle /\ task = [t \in Tasks |-> Idle] /\ node = "up"
  BY DEF Init, DefaultRuntime, o
<1>3. Range(by_group) = {Default}
  BY <1>2 DEF Range
<1>4. TypeOK
  BY <1>1, <1>2, <1>3, NodeConstants DEF Init, TypeOK, Calls, Ticks, Idle
<1>5. IndexesAgree
  BY <1>1, <1>2, <1>3 DEF IndexesAgree
<1>6. \A a \in Actors : Doing(a) = Idle
  BY <1>2 DEF Doing, Actors
<1>7. \A a \in Actors, i \in RangeIds : ~Keeps(a, i)
  BY <1>6 DEF Keeps, Idle
<1>8. Custody
  BY <1>1, <1>2, <1>7 DEF Custody, InGoodHands, Owns
<1> QED
  BY <1>2, <1>4, <1>5, <1>8 DEF NodeInv, StopsInOrder

(* A step that changes nothing keeps everything. *)
LEMMA StutterInv == ASSUME NodeInv, UNCHANGED vars PROVE NodeInv'
<1>1. \A b \in Actors : Doing(b)' = Doing(b)
  BY DEF Doing, vars
<1>2. Custody'
  BY <1>1 DEF NodeInv, Custody, InGoodHands, Keeps, Owns, vars
<1>3. TypeOK' /\ IndexesAgree' /\ StopsInOrder'
  BY DEF NodeInv, TypeOK, IndexesAgree, StopsInOrder, vars
<1> QED
  BY <1>2, <1>3 DEF NodeInv

(* Whatever the constants, RPCs, the supervisor, the placement driver, shutdown
   and restart keep every range of the node in good hands and the two indexes
   of RangeDirectory in step.                                              *)
THEOREM NodeSafe == Spec => []NodeInv
<1>1. NodeInv /\ [Next]_vars => NodeInv'
  <2> SUFFICES ASSUME NodeInv, [Next]_vars PROVE NodeInv'
    OBVIOUS
  <2>1. ASSUME NEW t \in Tasks, TaskStep(t) PROVE NodeInv'
    BY <2>1, OpenRangeInv, RegisterRangeInv, ReturnInv, UnwrapInv, CloseOwnedInv
       DEF TaskStep
  <2>2. ASSUME NEW t \in Tasks, NEW a \in AdminAdds, AddRange(t, a[1], a[2]) PROVE NodeInv'
    BY <2>2, AddRangeInv
  <2>3. ASSUME NEW t \in Tasks, NEW i \in RangeIds, Read(t, i) PROVE NodeInv'
    BY <2>3, ReadInv
  <2>11. ASSUME NEW t \in Tasks, NEW i \in RangeIds, Write(t, i) PROVE NodeInv'
    BY <2>11, WriteInv
  <2>12. ASSUME NEW t \in Tasks, WriteAnswer(t) PROVE NodeInv'
    BY <2>12, WriteAnswerInv
  <2>4. ASSUME NEW t \in Tasks, NEW i \in RangeIds, NEW force \in BOOLEAN,
               RemoveRange(t, i, force)
        PROVE  NodeInv'
    BY <2>4, RemoveRangeInv
  <2>5. CASE SupStep \/ SupAnswer
    BY <2>5, SupThinksInv, SupOpenInv, SupRegisterInv, SupRemoveInv, SupUnwrapInv, SupCloseInv
       DEF SupStep
  <2>6. CASE NodeStep
    BY <2>6, OutsideInv, ServerStopInv, EndShutdownInv, DrainInv DEF NodeStep
  <2>7. CASE \/ SupStop \/ BeginShutdown \/ Replicate \/ BeatCall \/ BeatAnswer
             \/ BeatStop \/ \E i \in Assignable : Reassign(i)
    BY <2>7, OutsideInv
  <2>8. CASE Start
    BY <2>8, StartInv
  <2>9. ASSUME NEW i \in RangeIds, Fade(i) PROVE NodeInv'
    BY <2>9, FadeInv
  <2>10. CASE UNCHANGED vars
    BY <2>10, StutterInv
  <2> QED
    BY <2>1, <2>2, <2>3, <2>4, <2>5, <2>6, <2>7, <2>8, <2>9, <2>10, <2>11, <2>12
       DEF Next
<1> QED
  BY <1>1, InitInv, PTL DEF Spec

(* RangeDirectory: by_range and by_group always list the same runtimes, each
   under its own ids.                                                      *)
THEOREM IndexesInStep == Spec => []IndexesAgree
<1>1. NodeInv => IndexesAgree
  BY DEF NodeInv
<1> QED
  BY <1>1, NodeSafe, PTL

(* remove_range, remove_and_shutdown and drain never close a range that can
   still be found in the directory.                                        *)
THEOREM NeverRoutesToStopped == Spec => []RegisteredIsAlive
<1>1. NodeInv => RegisteredIsAlive
  <2> SUFFICES ASSUME NodeInv, NEW i \in by_range
               PROVE  /\ rt[i] # None /\ rt[i].raft = "up"
                      /\ \A t \in Tasks : ~(task[t].pc = "closing" /\ task[t].id = i)
                      /\ ~(sup.pc = "closing" /\ sup.id = i)
    BY DEF RegisteredIsAlive
  <2>1. i \in RangeIds /\ InGoodHands(i)
    BY DEF NodeInv, TypeOK, Custody
  <2>2. \A a \in Actors : ~Owns(a, i)
    BY <2>1 DEF InGoodHands
  <2>3. Doing("sup") = sup /\ \A t \in Tasks : Doing(t) = task[t]
    BY Constants DEF Doing
  <2> QED
    BY <2>1, <2>2, <2>3, Constants DEF InGoodHands, Owns, Keeps
<1> QED
  BY <1>1, NodeSafe, PTL

(* ClusterNode::shutdown returns only when no Arc is left on any runtime. *)
THEOREM ShutdownLeavesNoArc == Spec => []ShutdownCloses
<1>1. NodeInv => ShutdownCloses
  <2> SUFFICES ASSUME NodeInv, node = "off", NEW i \in RangeIds, rt[i] # None
               PROVE  rt[i].arcs = {}
    BY DEF ShutdownCloses
  <2>1. rt[i].arcs \cap Actors = {}
    BY NobodyKeeps DEF NodeInv, StopsInOrder
  <2>2. "node" \notin rt[i].arcs /\ "drain" \notin rt[i].arcs
    BY DEF NodeInv, Custody, InGoodHands
  <2>3. rt[i].arcs \subseteq Holders
    BY DEF NodeInv, TypeOK, Runtimes
  <2> QED
    BY <2>1, <2>2, <2>3 DEF Holders
<1> QED
  BY <1>1, NodeSafe, PTL

(* Whatever RPCs, reconcile ticks, shutdowns and restarts interleave, the node
   keeps its directory, its runtimes and its shutdown safe.                *)
THEOREM DirectoryIsSafe == Spec => []DirectorySafe
<1>1. NodeInv /\ RegisteredIsAlive /\ ShutdownCloses => DirectorySafe
  BY DEF DirectorySafe
<1> QED
  BY <1>1, NodeSafe, NeverRoutesToStopped, ShutdownLeavesNoArc, PTL
==============================================================================
