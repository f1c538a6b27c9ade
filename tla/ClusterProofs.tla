---------------------------- MODULE ClusterProofs ----------------------------
(***************************************************************************)
(* What holds of the components of a cluster node for every value of their *)
(* constants: the storage engines, the log store, the reads of a range,    *)
(* the state machines of a range's replicas and the encoding of keys.      *)
(*                                                                         *)
(* Each part states the inductive invariant it rests on, has one lemma per *)
(* operation and ends in the theorem.                                      *)
(***************************************************************************)
EXTENDS EngineCalls, RaftLogStore, RangeReads, RangeGroup, KeyEncoding, NaturalSets

-----------------------------------------------------------------------------
(* The engines.  A fold over the ops of a batch and "the last op decides" are
   the same function; that is what makes the three engines comparable.     *)


(* What the ops with an index in s leave on key k, the last one deciding. *)
LastOp(base0, ops, s, k) ==
    LET hits == {i \in s : Names(ops[i], k)}
    IN  IF hits = {} THEN base0[k] ELSE Outcome(ops[Max(hits)])

LEMMA MaxOfIndices ==
    ASSUME NEW n \in Nat, NEW s \in SUBSET (1 .. n), s # {}
    PROVE  Max(s) \in s /\ \A y \in s : y <= Max(s)
<1>1. s \in SUBSET (0 .. n)
  OBVIOUS
<1> QED
  BY <1>1, MaxNat

(* Only one index is the largest. *)
LEMMA MaxIsOnly ==
    ASSUME NEW n \in Nat, NEW s \in SUBSET (1 .. n), NEW x \in s, \A y \in s : y <= x
    PROVE  Max(s) = x
<1> DEFINE m == Max(s)
<1>1. m \in s /\ \A y \in s : y <= m
  BY MaxOfIndices
<1> HIDE DEF m
<1>2. x \in Nat /\ m \in Nat /\ x <= m /\ m <= x
  BY <1>1
<1>3. m = x
  BY <1>2
<1> QED
  BY <1>3 DEF m

(* Taking the last index off: its op decides if it names the key. *)
LEMMA LastOpStep ==
    ASSUME NEW n \in Nat, NEW s \in SUBSET (1 .. n), s # {}, NEW b, NEW ops, NEW k
    PROVE  LastOp(b, ops, s, k) =
              IF Names(ops[Max(s)], k) THEN Outcome(ops[Max(s)])
              ELSE LastOp(b, ops, s \ {Max(s)}, k)
<1> DEFINE x == Max(s)
           hits == {i \in s : Names(ops[i], k)}
           rest == {i \in s \ {x} : Names(ops[i], k)}
<1>1. x \in s /\ \A y \in s : y <= x
  BY MaxOfIndices
<1> HIDE DEF x
<1>2. CASE Names(ops[x], k)
  <2>1. x \in hits /\ hits \in SUBSET (1 .. n) /\ \A y \in hits : y <= x
    BY <1>1, <1>2
  <2>2. Max(hits) = x
    <3> HIDE DEF hits
    <3> QED
      BY <2>1, MaxIsOnly
  <2>3. LastOp(b, ops, s, k) = Outcome(ops[x])
    BY <2>1, <2>2 DEF LastOp
  <2> QED
    BY <1>2, <2>3 DEF x
<1>3. CASE ~Names(ops[x], k)
  <2>1. hits = rest
    BY <1>3
  <2>2. LastOp(b, ops, s, k) = LastOp(b, ops, s \ {x}, k)
    BY <2>1 DEF LastOp
  <2> QED
    BY <1>3, <2>2 DEF x
<1> QED
  BY <1>2, <1>3

(* Running the ops of a batch one by one leaves on every key what the last op
   that names it leaves: the fold of InOrder, for a batch of any length.   *)
LEMMA InOrderIs ==
    ASSUME NEW n \in Nat, NEW b, NEW ops, DOMAIN ops = 1 .. n, b = [k \in Keys |-> b[k]]
    PROVE  InOrder(b, ops) = [k \in Keys |-> LastOp(b, ops, 1 .. n, k)]
<1> DEFINE Left(s) == [k \in Keys |-> LastOp(b, ops, s, k)]
           Entry(f, s) == IF s = {} THEN b ELSE Execute(f[s \ {Max(s)}], ops[Max(s)])
           Rec(f) == f = [s \in SUBSET (1 .. n) |-> Entry(f, s)]
           C == [s \in SUBSET (1 .. n) |-> Left(s)]
<1>1. Left({}) = b
  BY DEF LastOp
<1>2. ASSUME NEW s \in SUBSET (1 .. n), s # {}
      PROVE  Left(s) = Execute(Left(s \ {Max(s)}), ops[Max(s)])
  <2>1. \A k \in Keys : LastOp(b, ops, s, k) =
              IF Names(ops[Max(s)], k) THEN Outcome(ops[Max(s)])
              ELSE LastOp(b, ops, s \ {Max(s)}, k)
    BY <1>2, LastOpStep
  <2> QED
    BY <2>1 DEF Execute
<1>3. Rec(C)
  <2>1. ASSUME NEW s \in SUBSET (1 .. n) PROVE Left(s) = Entry(C, s)
    <3>1. CASE s = {}
      BY <1>1, <3>1
    <3>2. CASE s # {}
      <4>1. s \ {Max(s)} \in SUBSET (1 .. n)
        OBVIOUS
      <4>2. C[s \ {Max(s)}] = Left(s \ {Max(s)})
        <5> HIDE DEF Left
        <5> QED
          BY <4>1
      <4> HIDE DEF Left, C
      <4> QED
        BY <1>2, <3>2, <4>2
    <3> QED
      BY <3>1, <3>2
  <2> HIDE DEF Left, Entry
  <2> QED
    BY <2>1
<1>4. PICK f : Rec(f) /\ InOrder(b, ops) = f[1 .. n]
  <2> DEFINE iter == CHOOSE f : Rec(f)
  <2>1. Rec(iter)
    <3> HIDE DEF Rec, C
    <3> QED
      BY <1>3
  <2>2. InOrder(b, ops) = iter[1 .. n]
    BY DEF InOrder, FoldLeft, MapThenFoldSet
  <2> HIDE DEF iter, Rec
  <2> QED
    BY <2>1, <2>2
<1>5. \A s \in SUBSET (1 .. n) : f[s] = Entry(f, s)
  <2> HIDE DEF Entry
  <2> QED
    BY <1>4
<1> DEFINE S == {m \in Nat : \A s \in SUBSET (1 .. m) : s \in SUBSET (1 .. n) => f[s] = Left(s)}
<1>6. 0 \in S
  <2>1. \A s \in SUBSET (1 .. 0) : s = {}
    OBVIOUS
  <2>2. f[{}] = b
    BY <1>5
  <2> HIDE DEF Left
  <2> QED
    BY <2>1, <2>2, <1>1
<1>7. ASSUME NEW m \in Nat, m \in S PROVE m + 1 \in S
  <2> SUFFICES ASSUME NEW s \in SUBSET (1 .. m + 1), s \in SUBSET (1 .. n), s # {}
               PROVE  f[s] = Left(s)
    <3>1. f[{}] = Left({})
      BY <1>1, <1>5
    <3>2. \A s \in SUBSET (1 .. m + 1) : s \in SUBSET (1 .. n) => f[s] = Left(s)
      <4> HIDE DEF Left
      <4> QED
        BY <3>1
    <3> HIDE DEF Left
    <3> QED
      BY <3>2
  <2>1. Max(s) \in s /\ \A y \in s : y <= Max(s)
    BY MaxOfIndices
  <2>2. s \ {Max(s)} \in SUBSET (1 .. m) /\ s \ {Max(s)} \in SUBSET (1 .. n)
    BY <2>1
  <2>3. f[s \ {Max(s)}] = Left(s \ {Max(s)})
    <3> HIDE DEF Left
    <3> QED
      BY <1>7, <2>2
  <2>4. f[s] = Execute(f[s \ {Max(s)}], ops[Max(s)])
    BY <1>5
  <2> HIDE DEF Left
  <2> QED
    BY <1>2, <2>3, <2>4
<1>8. n \in S
  <2> HIDE DEF S
  <2> QED
    BY <1>6, <1>7, Inductive
<1>9. f[1 .. n] = Left(1 .. n)
  <2> HIDE DEF Left
  <2> QED
    BY <1>8
<1> QED
  BY <1>4, <1>9

(* memory and redb: the last op that names a key decides. *)
LEMMA DirectEngine ==
    ASSUME NEW n \in Nat, NEW b, NEW ops, DOMAIN ops = 1 .. n, NEW e, e # "lsm"
    PROVE  WriteBatch(e, b, ops) = [k \in Keys |-> LastOp(b, ops, 1 .. n, k)]
BY DEF WriteBatch, LastOp, Reaches

(* LSM: if the range deletes come first, a range delete that reaches nothing
   on disk had nothing to undo.                                            *)
LEMMA LsmEngine ==
    ASSUME NEW n \in Nat, NEW b, NEW ops, DOMAIN ops = 1 .. n, RangeDeletesFirst(ops)
    PROVE  WriteBatch("lsm", b, ops) = [k \in Keys |-> LastOp(b, ops, 1 .. n, k)]
<1> SUFFICES ASSUME NEW k \in Keys
             PROVE  WriteBatch("lsm", b, ops)[k] = LastOp(b, ops, 1 .. n, k)
  BY DEF WriteBatch
<1> DEFINE named == {i \in 1 .. n : Names(ops[i], k)}
           hits == {i \in 1 .. n : Reaches("lsm", b, ops[i], k)}
<1>1. WriteBatch("lsm", b, ops)[k] = IF hits = {} THEN b[k] ELSE Outcome(ops[Max(hits)])
  BY DEF WriteBatch
<1>2. LastOp(b, ops, 1 .. n, k) = IF named = {} THEN b[k] ELSE Outcome(ops[Max(named)])
  BY DEF LastOp
<1>3. CASE b[k] # Absent
  <2>1. hits = named
    BY <1>3 DEF Reaches
  <2> QED
    BY <1>1, <1>2, <2>1
<1>4. CASE b[k] = Absent
  <2>1. hits = {i \in named : ops[i].op # "DeleteRange"}
    BY <1>4 DEF Reaches
  <2>2. CASE named = {}
    BY <1>1, <1>2, <2>1, <2>2
  <2>3. CASE named # {}
    <3> DEFINE x == Max(named)
    <3>1. named \in SUBSET (1 .. n)
      OBVIOUS
    <3>2. x \in named /\ \A y \in named : y <= x
      <4> HIDE DEF named
      <4> QED
        BY <2>3, <3>1, MaxOfIndices
    <3> HIDE DEF x
    <3>3. x \in 1 .. n
      BY <3>2
    <3>4. CASE ops[x].op # "DeleteRange"
      <4>1. x \in hits /\ hits \in SUBSET (1 .. n) /\ \A y \in hits : y <= x
        <5> HIDE DEF named, hits
        <5> QED
          BY <2>1, <3>1, <3>2, <3>4
      <4>2. Max(hits) = x
        <5> HIDE DEF hits
        <5> QED
          BY <4>1, MaxIsOnly
      <4> HIDE DEF hits, named
      <4> QED
        BY <1>1, <1>2, <2>3, <4>1, <4>2 DEF x
    <3>5. CASE ops[x].op = "DeleteRange"
      <4>1. \A i \in named : ops[i].op = "DeleteRange"
        <5> SUFFICES ASSUME NEW i \in named PROVE ops[i].op = "DeleteRange"
          OBVIOUS
        <5>1. i \in 1 .. n /\ i <= x
          BY <3>2
        <5>2. i = x \/ i < x
          BY <3>3, <5>1
        <5> HIDE DEF named
        <5> QED
          BY <3>3, <3>5, <5>1, <5>2 DEF RangeDeletesFirst
      <4>2. hits = {}
        <5> HIDE DEF named, hits
        <5> QED
          BY <2>1, <4>1
      <4>3. Outcome(ops[x]) = Absent
        BY <3>5 DEF Outcome
      <4> HIDE DEF named, hits
      <4> QED
        BY <1>1, <1>2, <1>4, <2>3, <4>2, <4>3 DEF x
    <3> QED
      BY <3>4, <3>5
  <2> QED
    BY <2>2, <2>3
<1> QED
  BY <1>3, <1>4

(* Every engine leaves what the ops one by one leave. *)
LEMMA EngineInOrder ==
    ASSUME NEW n \in Nat, NEW b, NEW ops, DOMAIN ops = 1 .. n, b = [k \in Keys |-> b[k]],
           RangeDeletesFirst(ops), NEW e
    PROVE  WriteBatch(e, b, ops) = InOrder(b, ops)
<1>1. InOrder(b, ops) = [k \in Keys |-> LastOp(b, ops, 1 .. n, k)]
  BY InOrderIs
<1>2. CASE e # "lsm"
  BY <1>1, <1>2, DirectEngine
<1>3. CASE e = "lsm"
  <2>1. WriteBatch("lsm", b, ops) = [k \in Keys |-> LastOp(b, ops, 1 .. n, k)]
    BY LsmEngine
  <2> QED
    BY <1>1, <1>3, <2>1
<1> QED
  BY <1>2, <1>3

(* The batches of StorageBatches are sequences of ops. *)
LEMMA BatchIs ==
    ASSUME NEW ops \in WriteBatches
    PROVE  /\ \E n \in Nat : DOMAIN ops = 1 .. n
           /\ RangesFirst => RangeDeletesFirst(ops)
<1>1. /\ ops \in UNION {[1 .. n -> WriteOps] : n \in 0 .. MaxOps}
      /\ RangesFirst => RangeDeletesFirst(ops)
  BY DEF WriteBatches
<1>2. PICK n \in 0 .. MaxOps : ops \in [1 .. n -> WriteOps]
  BY <1>1
<1>3. DOMAIN ops = 1 .. n /\ n \in Nat
  BY <1>2, BatchConstants
<1> QED
  BY <1>1, <1>3

(* write_batch of the three engines: a batch whose range deletes come first
   leaves on every engine what its ops one by one leave, so that no caller can
   tell the engines apart, whatever the keys, values and length.           *)
THEOREM EnginesInOrder == RangesFirst => (BatchSpec => [](BatchInOrder /\ EnginesAgree))
<1> SUFFICES ASSUME RangesFirst PROVE BatchSpec => [](BatchInOrder /\ EnginesAgree)
  OBVIOUS
<1> DEFINE Inv == BatchInOrder /\ base = [k \in Keys |-> base[k]]
                  /\ \A e \in Engines : store[e] = [k \in Keys |-> store[e][k]]
<1>1. BatchInit => Inv
  <2> SUFFICES ASSUME BatchInit PROVE Inv
    OBVIOUS
  <2>1. base = [k \in Keys |-> base[k]] /\ \A e \in Engines : store[e] = base
    BY DEF BatchInit, EmptyStore
  <2>2. 0 \in Nat /\ DOMAIN batch = 1 .. 0
    BY DEF BatchInit
  <2>3. InOrder(base, batch) = [k \in Keys |-> LastOp(base, batch, 1 .. 0, k)]
    BY <2>1, <2>2, InOrderIs
  <2>4. \A k : LastOp(base, batch, 1 .. 0, k) = base[k]
    BY DEF LastOp
  <2>5. InOrder(base, batch) = base
    BY <2>1, <2>3, <2>4
  <2> QED
    BY <2>1, <2>5 DEF BatchInOrder
<1>2. Inv /\ [BatchNext]_batchVars => Inv'
  <2> SUFFICES ASSUME Inv, [BatchNext]_batchVars PROVE Inv'
    OBVIOUS
  <2>1. CASE UNCHANGED batchVars
    BY <2>1 DEF batchVars, BatchInOrder
  <2>2. CASE BatchNext
    <3>1. PICK ops \in WriteBatches : Write(ops)
      BY <2>2 DEF BatchNext
    <3>2. \A e \in Engines : store[e] = store["memory"]
      BY DEF BatchInOrder, Engines
    <3>3. base' = store["memory"] /\ batch' = ops
      BY <3>1 DEF Write
    <3>4. \A e \in Engines : store'[e] = WriteBatch(e, base', batch')
      BY <3>1, <3>2, <3>3 DEF Write
    <3>5. base' = [k \in Keys |-> base'[k]]
      BY <3>3 DEF Engines
    <3>6. \A e \in Engines : store'[e] = [k \in Keys |-> store'[e][k]]
      BY <3>4 DEF WriteBatch
    <3>7. \A e \in Engines : store'[e] = InOrder(base', batch')
      BY <3>3, <3>4, <3>5, BatchIs, EngineInOrder
    <3> QED
      BY <3>5, <3>6, <3>7 DEF BatchInOrder
  <2> QED
    BY <2>1, <2>2
<1>3. Inv => BatchInOrder /\ EnginesAgree
  BY DEF BatchInOrder, EnginesAgree
<1> QED
  BY <1>1, <1>2, <1>3, PTL DEF BatchSpec

-----------------------------------------------------------------------------
(* The callers' batches: the range deletes come first, as every caller in the
   repository writes them.                                                 *)
CallersDeleteFirst == \A ops \in CallBatches : RangeDeletesFirst(ops)

(* The answer of a finished call, if nothing raced with it. *)
AnswerExact(e, tk) ==
    tk.pc = "done" /\ tk.clean =>
        /\ tk.call.op = "scan" =>
              tk.rows = Rows(tk.state, {k \in Keys : RangeContains(tk.call.range, k)})
        /\ tk.call.op = "get" => tk.rows = Rows(tk.state, {tk.call.key})
        /\ tk.call.op = "snapshot" =>
              \A r \in CallRanges : {k \in DOMAIN tk.rows : RangeContains(r, k)}
                                       = DOMAIN Rows(tk.state, ScanKeys(e, r))

(* What a call under way is holding. *)
TaskTyped(tk) == tk.pc \in {"run", "staged"} => tk.call \in Calls

EngineInv ==
    /\ content = [k \in Keys |-> content[k]] /\ serial = [k \in Keys |-> serial[k]]
    /\ task = [t \in EngineThreads |-> task[t]]
    /\ raced \/ content = serial
    /\ \A t \in EngineThreads : TaskTyped(task[t]) /\ AnswerExact(kind, task[t])

(* EngineInv states BatchesSerial call by call. *)
LEMMA AnswersSerial ==
    ASSUME EngineInv
    PROVE  BatchesSerial
BY DEF EngineInv, BatchesSerial, AnswerExact, SnapshotScan

(* A step of thread t that leaves the rows alone. *)
LEMMA ThreadMoves ==
    ASSUME EngineInv, NEW t \in EngineThreads, NEW tk,
           task' = [task EXCEPT ![t] = tk], TaskTyped(tk), AnswerExact(kind, tk),
           UNCHANGED kind, raced' \/ content' = serial',
           content' = [k \in Keys |-> content'[k]], serial' = [k \in Keys |-> serial'[k]]
    PROVE  EngineInv'
<1>1. task' = [u \in EngineThreads |-> IF u = t THEN tk ELSE task[u]]
  BY DEF EngineInv
<1>2. \A u \in EngineThreads : TaskTyped(task'[u]) /\ AnswerExact(kind', task'[u])
  <2> SUFFICES ASSUME NEW u \in EngineThreads
               PROVE  TaskTyped(task'[u]) /\ AnswerExact(kind', task'[u])
    OBVIOUS
  <2>1. CASE u = t
    BY <1>1, <2>1
  <2>2. CASE u # t
    <3>1. task'[u] = task[u]
      BY <1>1, <2>2
    <3> QED
      BY <3>1 DEF EngineInv
  <2> QED
    BY <2>1, <2>2
<1>3. task' = [u \in EngineThreads |-> task'[u]]
  BY <1>1
<1> QED
  BY <1>2, <1>3 DEF EngineInv

(* The four forms of a slice range walk the keys the range contains. *)
LEMMA ScanKeysExact ==
    ASSUME NEW e, NEW r \in CallRanges
    PROVE  ScanKeys(e, r) = {k \in Keys : RangeContains(r, k)}
<1>1. r.start \in Nat /\ r.end \in Nat
  BY EngineConstants
<1>2. \A k \in Keys : k \in Nat /\ k > 0
  BY StoreConstants DEF Keys
<1> QED
  BY <1>1, <1>2 DEF ScanKeys, RangeContains

(* What a call holds, by its operation. *)
LEMMA CallArguments ==
    ASSUME NEW c \in Calls
    PROVE  /\ c.op = "scan" => c.range \in CallRanges
           /\ c.op = "write" => c.ops \in CallBatches
BY DEF Calls

(* A batch is written as if alone if nothing was committed since its staging,
   or if it has no range to read.                                          *)
LEMMA WriteFrom ==
    ASSUME NEW n \in Nat, NEW ops, DOMAIN ops = 1 .. n, NEW e, NEW from, NEW s,
           from = s \/ \A i \in 1 .. n : ops[i].op # "DeleteRange"
    PROVE  [k \in Keys |-> IF \E i \in DOMAIN ops : Reaches(e, from, ops[i], k)
                           THEN WriteBatch(e, from, ops)[k] ELSE s[k]]
              = WriteBatch(e, s, ops)
<1> SUFFICES ASSUME NEW k \in Keys
             PROVE  (IF \E i \in DOMAIN ops : Reaches(e, from, ops[i], k)
                     THEN WriteBatch(e, from, ops)[k] ELSE s[k]) = WriteBatch(e, s, ops)[k]
  BY DEF WriteBatch
<1> DEFINE old == {i \in DOMAIN ops : Reaches(e, from, ops[i], k)}
           new == {i \in DOMAIN ops : Reaches(e, s, ops[i], k)}
<1>1. old = new
  BY DEF Reaches
<1>2. WriteBatch(e, from, ops)[k] = IF old = {} THEN from[k] ELSE Outcome(ops[Max(old)])
  BY DEF WriteBatch
<1>3. WriteBatch(e, s, ops)[k] = IF new = {} THEN s[k] ELSE Outcome(ops[Max(new)])
  BY DEF WriteBatch
<1>4. (\E i \in DOMAIN ops : Reaches(e, from, ops[i], k)) <=> old # {}
  OBVIOUS
<1> HIDE DEF old, new
<1> QED
  BY <1>1, <1>2, <1>3, <1>4
-----------------------------------------------------------------------------
(* One lemma per step: it preserves EngineInv. *)

LEMMA BeginCallStep ==
    ASSUME EngineInv, NEW t \in EngineThreads, BeginCall(t)
    PROVE  EngineInv'
<1>1. PICK call \in Calls :
         task' = [task EXCEPT ![t] = IF opened THEN [pc |-> "run", call |-> call, base |-> content]
                                     ELSE [pc |-> "refused", call |-> call]]
  BY DEF BeginCall
<1> DEFINE tk == IF opened THEN [pc |-> "run", call |-> call, base |-> content]
                 ELSE [pc |-> "refused", call |-> call]
<1>2. TaskTyped(tk) /\ AnswerExact(kind, tk)
  BY DEF TaskTyped, AnswerExact
<1>3. UNCHANGED <<kind, content, serial, raced>>
  BY DEF BeginCall
<1>4. task' = [task EXCEPT ![t] = tk]
  BY <1>1
<1>5. /\ raced' \/ content' = serial'
      /\ content' = [k \in Keys |-> content'[k]]
      /\ serial' = [k \in Keys |-> serial'[k]]
  BY <1>3 DEF EngineInv
<1> HIDE DEF tk
<1> QED
  BY <1>2, <1>3, <1>4, <1>5, ThreadMoves

(* The finished read is exact if its rows are those of the contents. *)
LEMMA AnswersExactly ==
    ASSUME EngineInv, NEW t \in EngineThreads, NEW op, NEW rows, TaskAnswers(t, op, rows),
           AnswerExact(kind, [pc |-> "done", call |-> task[t].call, state |-> serial,
                              clean |-> ~raced, rows |-> rows])
    PROVE  EngineInv'
<1> DEFINE tk == [pc |-> "done", call |-> task[t].call, state |-> serial, clean |-> ~raced, rows |-> rows]
<1>1. task' = [task EXCEPT ![t] = tk]
  BY DEF TaskAnswers, EngineInv
<1>2. TaskTyped(tk)
  BY DEF TaskTyped
<1>3. UNCHANGED <<kind, content, serial, raced>>
  BY DEF TaskAnswers
<1>4. /\ raced' \/ content' = serial'
      /\ content' = [k \in Keys |-> content'[k]]
      /\ serial' = [k \in Keys |-> serial'[k]]
  BY <1>3 DEF EngineInv
<1>5. AnswerExact(kind, tk)
  OBVIOUS
<1> HIDE DEF tk
<1> QED
  BY <1>1, <1>2, <1>3, <1>4, <1>5, ThreadMoves

LEMMA ReadStep ==
    ASSUME EngineInv, NEW t \in EngineThreads, task[t].pc = "run",
           GetTask(t) \/ ScanTask(t) \/ SnapshotTask(t) \/ FlushTask(t)
    PROVE  EngineInv'
<1>1. raced \/ content = serial
  BY DEF EngineInv
<1>2. task[t].call \in Calls
  BY DEF EngineInv, TaskTyped
<1>3. CASE GetTask(t)
  <2>1. task[t].call.op = "get"
    BY <1>3 DEF GetTask, TaskAnswers
  <2> QED
    BY <1>1, <1>3, <2>1, AnswersExactly DEF GetTask, AnswerExact
<1>4. CASE ScanTask(t)
  <2>1. task[t].call.op = "scan"
    BY <1>4 DEF ScanTask, TaskAnswers
  <2>2. ScanKeys(kind, task[t].call.range) = {k \in Keys : RangeContains(task[t].call.range, k)}
    BY <1>2, <2>1, CallArguments, ScanKeysExact
  <2> QED
    BY <1>1, <1>4, <2>1, <2>2, AnswersExactly DEF ScanTask, AnswerExact
<1>5. CASE SnapshotTask(t)
  <2>1. task[t].call.op = "snapshot"
    BY <1>5 DEF SnapshotTask, TaskAnswers
  <2>2. \A r \in CallRanges : {k \in DOMAIN Rows(content, Keys) : RangeContains(r, k)}
                                 = DOMAIN Rows(content, ScanKeys(kind, r))
    BY ScanKeysExact DEF Rows
  <2> QED
    BY <1>1, <1>5, <2>1, <2>2, AnswersExactly DEF SnapshotTask, AnswerExact
<1>6. CASE FlushTask(t)
  <2>1. task[t].call.op = "flush"
    BY <1>6 DEF FlushTask, TaskAnswers
  <2> QED
    BY <1>6, <2>1, AnswersExactly DEF FlushTask, AnswerExact
<1> QED
  BY <1>3, <1>4, <1>5, <1>6

LEMMA StageStep ==
    ASSUME EngineInv, NEW t \in EngineThreads, StageBatch(t)
    PROVE  EngineInv'
<1> DEFINE tk == [pc |-> "staged", call |-> task[t].call, base |-> content]
<1>1. task' = [task EXCEPT ![t] = tk]
  BY DEF StageBatch, EngineInv
<1>2. TaskTyped(tk) /\ AnswerExact(kind, tk)
  BY DEF EngineInv, StageBatch, TaskTyped, AnswerExact
<1>3. UNCHANGED <<kind, content, serial, raced>>
  BY DEF StageBatch
<1>4. /\ raced' \/ content' = serial'
      /\ content' = [k \in Keys |-> content'[k]]
      /\ serial' = [k \in Keys |-> serial'[k]]
  BY <1>3 DEF EngineInv
<1> HIDE DEF tk
<1> QED
  BY <1>1, <1>2, <1>3, <1>4, ThreadMoves

LEMMA CommitStep ==
    ASSUME CallersDeleteFirst, EngineInv, NEW t \in EngineThreads,
           task[t].pc \in {"run", "staged"}, CommitBatch(t)
    PROVE  EngineInv'
<1> DEFINE ops == task[t].call.ops
           from == IF kind = "lsm" THEN task[t].base ELSE content
           tk == [pc |-> "done", call |-> task[t].call, state |-> serial',
                  clean |-> ~raced', rows |-> Rows(content', {})]
<1>1. ops \in CallBatches /\ task[t].call.op = "write"
  <2>1. task[t].call \in Calls /\ task[t].call.op = "write"
    BY DEF EngineInv, TaskTyped, CommitBatch
  <2> QED
    BY <2>1, CallArguments
<1>2. PICK n \in Nat : DOMAIN ops = 1 .. n
  <2>1. ops \in Seq(WriteOps)
    BY <1>1, EngineConstants
  <2>2. Len(ops) \in Nat /\ DOMAIN ops = 1 .. Len(ops)
    <3> HIDE DEF ops
    <3> QED
      BY <2>1
  <2> QED
    BY <2>2
<1>3. content' = [k \in Keys |-> IF \E i \in DOMAIN ops : Reaches(kind, from, ops[i], k)
                                 THEN WriteBatch(kind, from, ops)[k] ELSE content[k]]
  BY DEF CommitBatch, WrittenBy
<1>4. serial' = InOrder(serial, ops)
  BY DEF CommitBatch
<1>5. raced' = (raced \/ (kind = "lsm" /\ task[t].base # content
                             /\ \E i \in DOMAIN ops : ops[i].op = "DeleteRange"))
  BY DEF CommitBatch
<1>6. content' = [k \in Keys |-> content'[k]]
  <2> HIDE DEF ops, from
  <2> QED
    BY <1>3
<1>7. serial' = [k \in Keys |-> serial'[k]]
  <2>1. serial = [k \in Keys |-> serial[k]]
    BY DEF EngineInv
  <2>2. serial' = [k \in Keys |-> LastOp(serial, ops, 1 .. n, k)]
    <3> HIDE DEF ops
    <3> QED
      BY <1>2, <1>4, <2>1, InOrderIs
  <2> HIDE DEF ops
  <2> QED
    BY <2>2
<1>8. raced' \/ content' = serial'
  <2> SUFFICES ASSUME ~raced' PROVE content' = serial'
    OBVIOUS
  <2>1. content = serial /\ content = [k \in Keys |-> content[k]]
    BY <1>5 DEF EngineInv
  <2>2. from = content \/ \A i \in 1 .. n : ops[i].op # "DeleteRange"
    BY <1>2, <1>5
  <2>3. content' = WriteBatch(kind, content, ops)
    <3> HIDE DEF ops, from
    <3> QED
      BY <1>2, <1>3, <2>2, WriteFrom
  <2>4. RangeDeletesFirst(ops)
    BY <1>1 DEF CallersDeleteFirst
  <2>5. WriteBatch(kind, content, ops) = InOrder(content, ops)
    <3> HIDE DEF ops
    <3> QED
      BY <1>2, <2>1, <2>4, EngineInOrder
  <2> HIDE DEF ops
  <2> QED
    BY <1>4, <2>1, <2>3, <2>5
<1>9. task' = [task EXCEPT ![t] = tk]
  BY DEF CommitBatch, EngineInv
<1>10. TaskTyped(tk) /\ AnswerExact(kind, tk)
  BY <1>1 DEF TaskTyped, AnswerExact
<1>11. UNCHANGED kind
  BY DEF CommitBatch
<1> HIDE DEF tk
<1> QED
  BY <1>6, <1>7, <1>8, <1>9, <1>10, <1>11, ThreadMoves

(* StorageBackend under concurrent calls: for any number of threads, keys and
   calls, batches that put their range deletes first leave what running them
   one after the other leaves, and every read answers from such a state, close
   and open included; on the LSM engine as long as no batch commits between
   the staging of a range delete and its commit.                           *)
THEOREM EngineSerial == CallersDeleteFirst => (EngineSpec => []BatchesSerial)
<1> SUFFICES ASSUME CallersDeleteFirst PROVE EngineSpec => []BatchesSerial
  OBVIOUS
<1>1. EngineInit => EngineInv
  <2> SUFFICES ASSUME EngineInit PROVE EngineInv
    OBVIOUS
  <2>1. /\ content = [k \in Keys |-> content[k]] /\ serial = [k \in Keys |-> serial[k]]
        /\ content = serial
    BY DEF EngineInit, EmptyStore
  <2>2. task = [t \in EngineThreads |-> NoTask]
    BY DEF EngineInit
  <2>3. \A t \in EngineThreads : TaskTyped(task[t]) /\ AnswerExact(kind, task[t])
    BY <2>2 DEF NoTask, TaskTyped, AnswerExact
  <2> QED
    BY <2>1, <2>2, <2>3 DEF EngineInv
<1>2. EngineInv /\ [EngineSteps]_engineVars => EngineInv'
  <2> SUFFICES ASSUME EngineInv, [EngineSteps]_engineVars PROVE EngineInv'
    OBVIOUS
  <2>1. CASE UNCHANGED <<kind, content, serial, raced, task>>
    BY <2>1 DEF EngineInv
  <2>2. CASE \E t \in EngineThreads : BeginCall(t)
    BY <2>2, BeginCallStep
  <2>3. CASE \E t \in EngineThreads : /\ task[t].pc = "run"
                                      /\ GetTask(t) \/ ScanTask(t) \/ SnapshotTask(t) \/ FlushTask(t)
    BY <2>3, ReadStep
  <2>4. CASE \E t \in EngineThreads : StageBatch(t)
    BY <2>4, StageStep
  <2>5. CASE \E t \in EngineThreads : task[t].pc \in {"run", "staged"} /\ CommitBatch(t)
    BY <2>5, CommitStep
  <2>6. (UNCHANGED engineVars) \/ CloseBackend \/ OpenBackend => UNCHANGED <<kind, content, serial, raced, task>>
    BY DEF engineVars, CloseBackend, OpenBackend
  <2> QED
    BY <2>1, <2>2, <2>3, <2>4, <2>5, <2>6 DEF EngineSteps
<1>3. EngineInv => BatchesSerial
  BY AnswersSerial
<1> QED
  BY <1>1, <1>2, <1>3, PTL DEF EngineSpec
-----------------------------------------------------------------------------
(* The log store.  What openraft reads back after a crash depends on the shape
   of the rows that no call is looking at, so LogInv describes them: the rows
   on disk are one stretch of indexes, those after the purge pointer start
   right after it, and a running store has no rows past the ones openraft
   knows.                                                                  *)


Indices == 0 .. MaxIndex
Pointers == -1 .. MaxIndex

LogTypes ==
    /\ entries \in [DOMAIN entries -> 1 .. MaxTerm] /\ DOMAIN entries \subseteq Indices
    /\ known \in [DOMAIN known -> 1 .. MaxTerm] /\ DOMAIN known \subseteq Indices
    /\ vote \in 0 .. MaxTerm /\ voted \in 0 .. MaxTerm
    /\ committed \in Pointers /\ purged \in Pointers /\ applied \in Pointers
    /\ stage \in {"up", "purging", "down"} /\ crashes \in Nat

(* What openraft knows starts after the purge pointer and has no holes. *)
KnownStretch ==
    \A i \in DOMAIN known : purged < i /\ \A j \in purged + 1 .. i : j \in DOMAIN known

(* The rows are one stretch; if they pass the pointer, they do without a gap. *)
RowsStretch ==
    /\ \A i, k \in DOMAIN entries : \A j \in i .. k : j \in DOMAIN entries
    /\ \A i \in DOMAIN entries : \A j \in purged + 1 .. i : j \in DOMAIN entries

(* A running store has no row after the pointer that openraft does not know,
   and stale rows below it only if they reach up to it.                    *)
NothingUnknown ==
    /\ stage # "down" => \A i \in DOMAIN entries : purged < i => i \in DOMAIN known
    /\ stage = "up" => \/ DOMAIN entries = {}
                       \/ DOMAIN known # {}
                       \/ purged \in DOMAIN entries

(* What is committed can be applied again. *)
Replayable ==
    /\ purged <= applied
    /\ \A i \in applied + 1 .. committed : i \in DOMAIN entries

LogInv == /\ LogTypes /\ AckedSurvive /\ KnownStretch /\ RowsStretch
          /\ NothingUnknown /\ Replayable

-----------------------------------------------------------------------------
(* Max finds the largest of a set of pointers. *)
LEMMA MaxPointer ==
    ASSUME NEW m \in Nat, NEW S \in SUBSET (-1 .. m), S # {}
    PROVE  Max(S) \in S /\ \A y \in S : y <= Max(S)
<1> DEFINE T == {n \in 0 .. m + 1 : n - 1 \in S}
<1>1. \A s \in S : s + 1 \in 0 .. m + 1 /\ (s + 1) - 1 = s
  OBVIOUS
<1>2. T # {} /\ T \in SUBSET (0 .. m + 1) /\ m + 1 \in Nat
  <2>1. PICK s \in S : TRUE
    OBVIOUS
  <2>2. s + 1 \in T
    BY <1>1
  <2>3. T # {}
    BY <2>2
  <2>4. T \in SUBSET (0 .. m + 1)
    OBVIOUS
  <2>5. m + 1 \in Nat
    OBVIOUS
  <2> HIDE DEF T
  <2> QED
    BY <2>3, <2>4, <2>5
<1>3. Max(T) \in T /\ \A y \in T : y <= Max(T)
  BY <1>2, MaxNat
<1>4. \A y \in S : y + 1 \in T
  BY <1>1
<1>5. Max(T) - 1 \in S /\ \A y \in S : y <= Max(T) - 1
  BY <1>3, <1>4
<1> QED
  BY <1>5 DEF Max

(* LastKnown is the largest index openraft knows, or the purge pointer. *)
LEMMA LastKnownIs ==
    ASSUME LogTypes, KnownStretch
    PROVE  /\ LastKnown \in Pointers
           /\ LastKnown \in DOMAIN known \/ (LastKnown = purged /\ DOMAIN known = {})
           /\ \A i \in DOMAIN known : i <= LastKnown
           /\ \A i \in purged + 1 .. LastKnown : i \in DOMAIN known
           /\ purged <= LastKnown
<1> DEFINE S == DOMAIN known \cup {purged}
<1>1. S # {} /\ S \in SUBSET (-1 .. MaxIndex) /\ MaxIndex \in Nat
  BY LogConstants DEF LogTypes, Indices, Pointers
<1>2. Max(S) \in S /\ \A y \in S : y <= Max(S)
  BY <1>1, MaxPointer
<1>3. LastKnown = Max(S)
  BY DEF LastKnown
<1>4. LastKnown \in Int /\ purged \in Int /\ DOMAIN known \subseteq Int
  BY <1>1, <1>2, <1>3, LogConstants DEF LogTypes, Indices, Pointers
<1>5. LastKnown \in DOMAIN known \/ (LastKnown = purged /\ DOMAIN known = {})
  BY <1>2, <1>3, <1>4 DEF KnownStretch
<1>6. \A i \in purged + 1 .. LastKnown : i \in DOMAIN known
  BY <1>4, <1>5 DEF KnownStretch
<1>7. LastKnown \in Pointers
  BY <1>1, <1>2, <1>3 DEF Pointers
<1> QED
  BY <1>2, <1>3, <1>5, <1>6, <1>7

(* Restrict gives what is left of a map. *)
LEMMA RestrictIs ==
    ASSUME NEW f, NEW S
    PROVE  DOMAIN Restrict(f, S) = S /\ \A x \in S : Restrict(f, S)[x] = f[x]
BY DEF Restrict

LEMMA RestrictTyped ==
    ASSUME NEW V, NEW f, f \in [DOMAIN f -> V], NEW S \in SUBSET DOMAIN f
    PROVE  Restrict(f, S) \in [DOMAIN Restrict(f, S) -> V]
BY DEF Restrict
-----------------------------------------------------------------------------
(* One lemma per call: it preserves LogInv. *)

LEMMA SaveVoteStep ==
    ASSUME LogInv, NEW t \in 1 .. MaxTerm, SaveVote(t)
    PROVE  LogInv'
<1> USE LogConstants
<1>1. LogTypes'
  BY DEF LogInv, LogTypes, SaveVote, Returns, Dies, Indices, Pointers
<1>2. AckedSurvive'
  BY DEF LogInv, LogTypes, AckedSurvive, SaveVote
<1>3. KnownStretch' /\ RowsStretch' /\ Replayable'
  BY DEF LogInv, KnownStretch, RowsStretch, Replayable, SaveVote
<1>4. NothingUnknown'
  BY DEF LogInv, NothingUnknown, SaveVote, Returns, Dies
<1> QED
  BY <1>1, <1>2, <1>3, <1>4 DEF LogInv

LEMMA AppendStep ==
    ASSUME LogInv, NEW t \in 1 .. MaxTerm, NEW n \in 1 .. 2, AppendEntries(n, t)
    PROVE  LogInv'
<1> USE LogConstants
<1> DEFINE New == LastKnown + 1 .. LastKnown + n
<1>1. DOMAIN Written(n, t) = New
  BY DEF Written
<1>2. /\ LastKnown \in Pointers
      /\ LastKnown \in DOMAIN known \/ (LastKnown = purged /\ DOMAIN known = {})
      /\ \A i \in DOMAIN known : i <= LastKnown
      /\ \A i \in purged + 1 .. LastKnown : i \in DOMAIN known
      /\ purged <= LastKnown
  BY LastKnownIs DEF LogInv
<1>3. New \subseteq Indices /\ \A i \in New : i \notin DOMAIN known /\ purged < i
  <2>1. LastKnown + n <= MaxIndex /\ LastKnown \in Int /\ LastKnown >= -1 /\ purged \in Int
    BY <1>2 DEF AppendEntries, Pointers, LogInv, LogTypes
  <2> QED
    BY <1>2, <2>1 DEF Indices
<1>4. /\ DOMAIN entries' = DOMAIN entries \cup New
      /\ \A i \in DOMAIN entries' : entries'[i] = IF i \in New THEN t ELSE entries[i]
      /\ entries' \in [DOMAIN entries' -> 1 .. MaxTerm]
  BY <1>1 DEF AppendEntries, LogInv, LogTypes
<1>5. UNCHANGED <<vote, committed, purged, applied, voted>> /\ stage = "up"
  BY DEF AppendEntries
<1>6. \/ UNCHANGED known /\ stage' = "down"
      \/ /\ stage' = "up" /\ DOMAIN known' = DOMAIN known \cup New
         /\ \A i \in DOMAIN known' : known'[i] = IF i \in DOMAIN known THEN known[i] ELSE t
         /\ known' \in [DOMAIN known' -> 1 .. MaxTerm]
  BY <1>1 DEF AppendEntries, Returns, Dies, LogInv, LogTypes
<1>7. LogTypes'
  <2>1. crashes' \in Nat
    BY DEF AppendEntries, Returns, Dies, LogInv, LogTypes
  <2> QED
    BY <1>3, <1>4, <1>5, <1>6, <2>1 DEF LogInv, LogTypes, Indices, Pointers
<1>8. AckedSurvive'
  BY <1>3, <1>4, <1>5, <1>6 DEF LogInv, AckedSurvive
<1>9. KnownStretch'
  <2>1. CASE UNCHANGED known
    BY <1>5, <2>1 DEF LogInv, KnownStretch
  <2>2. CASE DOMAIN known' = DOMAIN known \cup New
    <3>1. purged \in Int /\ LastKnown \in Int /\ DOMAIN known \subseteq Int
      BY <1>2 DEF LogInv, LogTypes, Indices, Pointers
    <3>2. ASSUME NEW i \in DOMAIN known', NEW j \in purged + 1 .. i
          PROVE  j \in DOMAIN known'
      BY <1>2, <2>2, <3>1
    <3>3. \A i \in DOMAIN known' : purged < i
      BY <1>3, <2>2 DEF LogInv, KnownStretch
    <3> QED
      BY <1>5, <3>2, <3>3 DEF KnownStretch
  <2> QED
    BY <1>6, <2>1, <2>2
<1>10. DOMAIN known \subseteq DOMAIN entries
  BY DEF LogInv, AckedSurvive
<1>11. \A i \in DOMAIN entries : i <= LastKnown
  BY <1>2, <1>5 DEF LogInv, LogTypes, NothingUnknown, Indices, Pointers
<1>12. DOMAIN entries # {} => LastKnown \in DOMAIN entries
  BY <1>2, <1>5, <1>10 DEF LogInv, NothingUnknown
<1>13. RowsStretch'
  <2>1. ASSUME NEW i \in DOMAIN entries', NEW k \in DOMAIN entries', NEW j \in i .. k
        PROVE  j \in DOMAIN entries'
    <3>1. i \in Int /\ k \in Int /\ LastKnown \in Int /\ j \in Int
      BY <1>2, <1>3, <1>4 DEF LogInv, LogTypes, Indices, Pointers
    <3>2. CASE k \in DOMAIN entries
      <4>1. i \in DOMAIN entries
        BY <1>4, <1>11, <3>1, <3>2
      <4> QED
        BY <1>4, <3>2, <4>1 DEF LogInv, RowsStretch
    <3>3. CASE k \in New /\ i \in DOMAIN entries
      <4>1. CASE j <= LastKnown
        <5>1. LastKnown \in DOMAIN entries /\ j \in i .. LastKnown
          BY <1>12, <3>1, <3>3, <4>1
        <5> QED
          BY <1>4, <3>3, <5>1 DEF LogInv, RowsStretch
      <4>2. CASE j > LastKnown
        BY <1>4, <3>1, <3>3, <4>2
      <4> QED
        BY <3>1, <4>1, <4>2
    <3>4. CASE k \in New /\ i \in New
      BY <1>4, <3>1, <3>4
    <3> QED
      BY <1>4, <3>2, <3>3, <3>4
  <2>2. ASSUME NEW i \in DOMAIN entries', NEW j \in purged + 1 .. i
        PROVE  j \in DOMAIN entries'
    <3>1. i \in Int /\ purged \in Int /\ LastKnown \in Int /\ j \in Int
      BY <1>2, <1>3, <1>4 DEF LogInv, LogTypes, Indices, Pointers
    <3>2. CASE j <= LastKnown
      BY <1>2, <1>4, <1>10, <3>1, <3>2
    <3>3. CASE j > LastKnown
      BY <1>4, <1>11, <3>1, <3>3
    <3> QED
      BY <3>1, <3>2, <3>3
  <2> QED
    BY <1>5, <2>1, <2>2 DEF RowsStretch
<1>14. NothingUnknown'
  BY <1>3, <1>4, <1>5, <1>6, <1>2 DEF LogInv, NothingUnknown
<1>15. Replayable'
  BY <1>4, <1>5 DEF LogInv, Replayable
<1> QED
  BY <1>7, <1>8, <1>9, <1>13, <1>14, <1>15 DEF LogInv

LEMMA TruncateStep ==
    ASSUME LogInv, NEW i \in Indices, Truncate(i)
    PROVE  LogInv'
<1> USE LogConstants
<1>1. /\ DOMAIN entries' = {j \in DOMAIN entries : j < i}
      /\ \A j \in DOMAIN entries' : entries'[j] = entries[j]
      /\ entries' \in [DOMAIN entries' -> 1 .. MaxTerm]
  BY RestrictIs, RestrictTyped DEF Truncate, Kept, LogInv, LogTypes
<1>2. /\ DOMAIN known' = {j \in DOMAIN known : j < i}
      /\ \A j \in DOMAIN known' : known'[j] = known[j]
      /\ known' \in [DOMAIN known' -> 1 .. MaxTerm]
  BY RestrictIs, RestrictTyped DEF Truncate, LogInv, LogTypes
<1>3. /\ UNCHANGED <<vote, committed, purged, applied, voted>>
      /\ stage = "up" /\ stage' \in {"up", "down"} /\ crashes' \in Nat
      /\ i \in DOMAIN known /\ committed < i
  BY DEF Truncate, Returns, Dies, LogInv, LogTypes
<1>4. /\ purged \in Int /\ committed \in Int /\ applied \in Int /\ i \in Int
      /\ DOMAIN known \subseteq Int /\ DOMAIN entries \subseteq Int
  BY DEF LogInv, LogTypes, Indices, Pointers
<1>5. i \in DOMAIN entries /\ purged < i
  BY <1>3 DEF LogInv, AckedSurvive, KnownStretch
<1>6. LogTypes'
  BY <1>1, <1>2, <1>3 DEF LogInv, LogTypes
<1>7. AckedSurvive'
  BY <1>1, <1>2, <1>3 DEF LogInv, AckedSurvive
<1>8. KnownStretch'
  BY <1>2, <1>3, <1>4 DEF LogInv, KnownStretch
<1>9. RowsStretch'
  BY <1>1, <1>3, <1>4 DEF LogInv, RowsStretch
<1>10. NothingUnknown'
  <2>1. \A j \in DOMAIN entries' : purged < j => j \in DOMAIN known'
    BY <1>1, <1>2, <1>3, <1>4 DEF LogInv, NothingUnknown
  <2>2. ASSUME DOMAIN entries' # {}, DOMAIN known' = {}
        PROVE  purged \in DOMAIN entries'
    <3>1. PICK j \in DOMAIN entries : j < i /\ j <= purged
      BY <1>1, <1>4, <2>1, <2>2
    <3>2. purged \in j .. i
      BY <1>4, <1>5, <3>1
    <3>3. purged \in DOMAIN entries
      BY <1>5, <3>2 DEF LogInv, RowsStretch
    <3> QED
      BY <1>1, <1>5, <3>3
  <2> QED
    BY <1>3, <2>1, <2>2 DEF NothingUnknown
<1>11. Replayable'
  BY <1>1, <1>3, <1>4 DEF LogInv, Replayable
<1> QED
  BY <1>6, <1>7, <1>8, <1>9, <1>10, <1>11 DEF LogInv

LEMMA SaveCommittedStep ==
    ASSUME LogInv, NEW i \in Indices, SaveCommitted(i)
    PROVE  LogInv'
<1> USE LogConstants
<1>1. /\ UNCHANGED <<entries, vote, purged, applied, known, voted>>
      /\ stage = "up" /\ stage' \in {"up", "down"} /\ crashes' \in Nat
      /\ committed' = i /\ (i \in DOMAIN known \/ i = applied)
  BY DEF SaveCommitted, Returns, Dies, LogInv, LogTypes
<1>2. LogTypes'
  BY <1>1 DEF LogInv, LogTypes, Indices, Pointers
<1>3. AckedSurvive' /\ KnownStretch' /\ RowsStretch' /\ NothingUnknown'
  BY <1>1 DEF LogInv, AckedSurvive, KnownStretch, RowsStretch, NothingUnknown
<1>4. ASSUME NEW j \in applied + 1 .. i
      PROVE  j \in DOMAIN entries
  <2>1. purged \in Int /\ applied \in Int /\ i \in Int /\ j \in Int /\ purged <= applied
    BY DEF LogInv, LogTypes, Replayable, Indices, Pointers
  <2>2. i \in DOMAIN known /\ j \in purged + 1 .. i
    BY <1>1, <2>1
  <2> QED
    BY <2>2 DEF LogInv, KnownStretch, AckedSurvive
<1>5. Replayable'
  BY <1>1, <1>4 DEF LogInv, Replayable
<1> QED
  BY <1>2, <1>3, <1>5 DEF LogInv

LEMMA PurgePointerStep ==
    ASSUME LogInv, NEW i \in Indices, PurgePointer(i)
    PROVE  LogInv'
<1> USE LogConstants
<1>1. /\ DOMAIN known' = {j \in DOMAIN known : i < j}
      /\ \A j \in DOMAIN known' : known'[j] = known[j]
      /\ known' \in [DOMAIN known' -> 1 .. MaxTerm]
  BY RestrictIs, RestrictTyped DEF PurgePointer, LogInv, LogTypes
<1>2. /\ UNCHANGED <<entries, vote, committed, applied, voted, crashes>>
      /\ stage = "up" /\ stage' = "purging" /\ purged' = i /\ purged < i /\ i <= applied
  BY DEF PurgePointer
<1>3. /\ purged \in Int /\ committed \in Int /\ applied \in Int /\ i \in Int
      /\ DOMAIN known \subseteq Int /\ DOMAIN entries \subseteq Int
  BY DEF LogInv, LogTypes, Indices, Pointers
<1>4. LogTypes'
  BY <1>1, <1>2 DEF LogInv, LogTypes, Indices, Pointers
<1>5. AckedSurvive'
  BY <1>1, <1>2 DEF LogInv, AckedSurvive
<1>6. KnownStretch'
  BY <1>1, <1>2, <1>3 DEF LogInv, KnownStretch
<1>7. RowsStretch'
  BY <1>2, <1>3 DEF LogInv, RowsStretch
<1>8. NothingUnknown'
  BY <1>1, <1>2, <1>3 DEF LogInv, NothingUnknown
<1>9. Replayable'
  BY <1>2, <1>3 DEF LogInv, Replayable
<1> QED
  BY <1>4, <1>5, <1>6, <1>7, <1>8, <1>9 DEF LogInv

LEMMA PurgeEntriesStep ==
    ASSUME LogInv, PurgeEntries
    PROVE  LogInv'
<1> USE LogConstants
<1>1. /\ DOMAIN entries' = {j \in DOMAIN entries : purged < j}
      /\ \A j \in DOMAIN entries' : entries'[j] = entries[j]
      /\ entries' \in [DOMAIN entries' -> 1 .. MaxTerm]
  BY RestrictIs, RestrictTyped DEF PurgeEntries, Unpurged, LogInv, LogTypes
<1>2. /\ UNCHANGED <<vote, committed, purged, applied, known, voted>>
      /\ stage = "purging" /\ stage' \in {"up", "down"} /\ crashes' \in Nat
  BY DEF PurgeEntries, Returns, Dies, LogInv, LogTypes
<1>3. /\ purged \in Int /\ committed \in Int /\ applied \in Int
      /\ DOMAIN known \subseteq Int /\ DOMAIN entries \subseteq Int
  BY DEF LogInv, LogTypes, Indices, Pointers
<1>4. LogTypes'
  BY <1>1, <1>2 DEF LogInv, LogTypes
<1>5. AckedSurvive'
  BY <1>1, <1>2 DEF LogInv, AckedSurvive, KnownStretch
<1>6. KnownStretch'
  BY <1>2 DEF LogInv, KnownStretch
<1>7. RowsStretch'
  BY <1>1, <1>2, <1>3 DEF LogInv, RowsStretch
<1>8. NothingUnknown'
  <2>1. \A j \in DOMAIN entries' : j \in DOMAIN known'
    BY <1>1, <1>2 DEF LogInv, NothingUnknown
  <2>2. DOMAIN entries' = {} \/ DOMAIN known' # {}
    BY <2>1
  <2> QED
    BY <2>1, <2>2 DEF NothingUnknown
<1>9. Replayable'
  BY <1>1, <1>2, <1>3 DEF LogInv, Replayable
<1> QED
  BY <1>4, <1>5, <1>6, <1>7, <1>8, <1>9 DEF LogInv

LEMMA MachineStep ==
    ASSUME LogInv, ApplyEntries \/ \E i \in Indices : InstallSnapshot(i)
    PROVE  LogInv'
<1> USE LogConstants
<1>1. /\ UNCHANGED <<entries, vote, committed, purged, stage, known, voted, crashes>>
      /\ applied' \in Pointers /\ applied < applied'
  BY DEF ApplyEntries, InstallSnapshot, LogInv, LogTypes, Indices, Pointers
<1>2. LogTypes'
  BY <1>1 DEF LogInv, LogTypes
<1>3. AckedSurvive' /\ KnownStretch' /\ RowsStretch' /\ NothingUnknown'
  BY <1>1 DEF LogInv, AckedSurvive, KnownStretch, RowsStretch, NothingUnknown
<1>4. Replayable'
  BY <1>1 DEF LogInv, LogTypes, Replayable, Pointers
<1> QED
  BY <1>2, <1>3, <1>4 DEF LogInv

LEMMA CrashStep ==
    ASSUME LogInv, StoreCrash
    PROVE  LogInv'
<1>1. /\ UNCHANGED <<entries, vote, committed, purged, applied, known, voted>>
      /\ stage' = "down" /\ crashes' \in Nat
  BY LogConstants DEF StoreCrash, Dies, LogInv, LogTypes
<1>2. LogTypes'
  BY <1>1 DEF LogInv, LogTypes
<1>3. AckedSurvive' /\ KnownStretch' /\ RowsStretch' /\ NothingUnknown' /\ Replayable'
  BY <1>1 DEF LogInv, AckedSurvive, KnownStretch, RowsStretch, NothingUnknown, Replayable
<1> QED
  BY <1>2, <1>3 DEF LogInv

(* LastLogId is the largest row, or the purge pointer. *)
LEMMA LastLogIdIs ==
    ASSUME LogTypes
    PROVE  /\ LastLogId \in Pointers
           /\ DOMAIN entries = {} => LastLogId = purged
           /\ DOMAIN entries # {} => LastLogId \in DOMAIN entries
           /\ \A i \in DOMAIN entries : i <= LastLogId
<1>1. DOMAIN entries \in SUBSET (0 .. MaxIndex) /\ MaxIndex \in Nat
  BY LogConstants DEF LogTypes, Indices
<1>2. CASE DOMAIN entries = {}
  BY <1>2 DEF LastLogId, LogTypes
<1>3. CASE DOMAIN entries # {}
  <2>1. Max(DOMAIN entries) \in DOMAIN entries /\ \A y \in DOMAIN entries : y <= Max(DOMAIN entries)
    BY <1>1, <1>3, MaxNat
  <2>2. LastLogId = Max(DOMAIN entries)
    BY <1>3 DEF LastLogId
  <2> QED
    BY <1>1, <1>3, <2>1, <2>2 DEF Pointers
<1> QED
  BY <1>2, <1>3

LEMMA RestartStep ==
    ASSUME LogInv, Restart
    PROVE  LogInv'
<1> USE LogConstants
<1>1. /\ UNCHANGED <<entries, vote, committed, applied, crashes>> /\ voted' = vote
  BY DEF Restart
<1>2. /\ purged \in Int /\ committed \in Int /\ applied \in Int /\ LastLogId \in Int
      /\ DOMAIN entries \subseteq Int /\ purged <= applied
  BY LastLogIdIs DEF LogInv, LogTypes, Indices, Pointers, Replayable
<1>3. CASE LastLogId < applied
  <2>1. purged' = applied /\ known' = NoEntries /\ stage' = "purging"
    BY <1>3 DEF Restart
  <2>2. DOMAIN known' = {} /\ known' \in [DOMAIN known' -> 1 .. MaxTerm]
    BY <2>1 DEF NoEntries
  <2>3. \A i \in DOMAIN entries : i < applied
    BY <1>2, <1>3, LastLogIdIs DEF LogInv
  <2>4. LogTypes'
    BY <1>1, <2>1, <2>2 DEF LogInv, LogTypes
  <2>5. AckedSurvive' /\ KnownStretch'
    BY <1>1, <2>2 DEF LogInv, LogTypes, AckedSurvive, KnownStretch
  <2>6. RowsStretch'
    BY <1>1, <1>2, <2>1, <2>3 DEF LogInv, RowsStretch
  <2>7. NothingUnknown' /\ Replayable'
    BY <1>1, <1>2, <2>1, <2>3 DEF LogInv, NothingUnknown, Replayable
  <2> QED
    BY <2>4, <2>5, <2>6, <2>7 DEF LogInv
<1>4. CASE ~(LastLogId < applied)
  <2>1. UNCHANGED purged /\ known' = Readable /\ stage' = "up"
    BY <1>4 DEF Restart
  <2>2. /\ DOMAIN known' = {i \in DOMAIN entries : purged < i}
        /\ \A i \in DOMAIN known' : known'[i] = entries[i]
        /\ known' \in [DOMAIN known' -> 1 .. MaxTerm]
    BY <2>1, RestrictIs, RestrictTyped DEF Readable, LogInv, LogTypes
  <2>3. LogTypes'
    BY <1>1, <2>1, <2>2 DEF LogInv, LogTypes
  <2>4. AckedSurvive'
    BY <1>1, <2>2 DEF LogInv, LogTypes, AckedSurvive
  <2>5. KnownStretch'
    BY <1>2, <2>1, <2>2 DEF LogInv, RowsStretch, KnownStretch
  <2>6. RowsStretch' /\ Replayable'
    BY <1>1, <2>1 DEF LogInv, RowsStretch, Replayable
  <2>7. DOMAIN entries # {} /\ DOMAIN known' = {} => purged \in DOMAIN entries
    BY <1>2, <1>4, <2>2, LastLogIdIs DEF LogInv
  <2>8. NothingUnknown'
    BY <1>1, <2>1, <2>2, <2>7 DEF NothingUnknown
  <2> QED
    BY <2>3, <2>4, <2>5, <2>6, <2>8 DEF LogInv
<1> QED
  BY <1>3, <1>4
-----------------------------------------------------------------------------
(* LogInv holds at every moment of every sequence of calls and crashes. *)
THEOREM LogSafe == LogSpec => []LogInv
<1>1. LogInit => LogInv
  <2> SUFFICES ASSUME LogInit PROVE LogInv
    OBVIOUS
  <2>1. DOMAIN entries = {} /\ DOMAIN known = {}
    BY DEF LogInit, NoEntries
  <2>2. entries \in [DOMAIN entries -> 1 .. MaxTerm] /\ known \in [DOMAIN known -> 1 .. MaxTerm]
    BY <2>1 DEF LogInit, NoEntries
  <2>3. LogTypes
    BY <2>1, <2>2, LogConstants DEF LogInit, LogTypes, NoIndex, Indices, Pointers
  <2> QED
    BY <2>1, <2>3 DEF LogInit, LogInv, AckedSurvive, KnownStretch, RowsStretch, NothingUnknown,
                      Replayable, NoIndex
<1>2. LogInv /\ [LogSteps]_logVars => LogInv'
  <2> SUFFICES ASSUME LogInv, [LogSteps]_logVars PROVE LogInv'
    OBVIOUS
  <2>1. CASE UNCHANGED logVars
    BY <2>1 DEF logVars, LogInv, LogTypes, AckedSurvive, KnownStretch, RowsStretch, NothingUnknown,
                Replayable, Indices, Pointers
  <2>2. CASE \E t \in 1 .. MaxTerm : SaveVote(t) \/ \E n \in 1 .. 2 : AppendEntries(n, t)
    BY <2>2, SaveVoteStep, AppendStep
  <2>3. CASE \E i \in 0 .. MaxIndex : \/ Truncate(i) \/ SaveCommitted(i)
                                      \/ PurgePointer(i) \/ InstallSnapshot(i)
    BY <2>3, TruncateStep, SaveCommittedStep, PurgePointerStep, MachineStep DEF Indices
  <2>4. CASE PurgeEntries \/ ApplyEntries \/ StoreCrash \/ Restart
    BY <2>4, PurgeEntriesStep, MachineStep, CrashStep, RestartStep
  <2> QED
    BY <2>1, <2>2, <2>3, <2>4 DEF LogSteps
<1> QED
  BY <1>1, <1>2, PTL DEF LogSpec

(* LogKept, the log store's two promises to openraft: what was acknowledged
   survives every crash, and what is read back has no holes, ends where
   openraft's own log ends and holds all that is committed and not applied. *)
THEOREM LogIsKept == LogSpec => []LogKept
<1>1. LogInv => LogKept
  <2> SUFFICES ASSUME LogInv PROVE LogKept
    OBVIOUS
  <2> USE LogConstants
  <2>1. ASSUME stage = "up" PROVE LastLogId = LastKnown
    <3>1. /\ LastKnown \in Int /\ LastLogId \in Int /\ purged \in Int
          /\ DOMAIN entries \subseteq Int /\ DOMAIN known \subseteq DOMAIN entries
      <4>1. LastKnown \in Pointers /\ LastLogId \in Pointers
        BY LastKnownIs, LastLogIdIs DEF LogInv
      <4>2. purged \in Int /\ DOMAIN entries \subseteq Int
        BY DEF LogInv, LogTypes, Indices, Pointers
      <4>3. DOMAIN known \subseteq DOMAIN entries
        BY DEF LogInv, AckedSurvive
      <4> QED
        BY <4>1, <4>2, <4>3 DEF Pointers
    <3>2. /\ LastKnown \in DOMAIN known \/ (LastKnown = purged /\ DOMAIN known = {})
          /\ \A i \in DOMAIN known : i <= LastKnown
          /\ purged <= LastKnown
      BY LastKnownIs DEF LogInv
    <3>3. /\ DOMAIN entries = {} => LastLogId = purged
          /\ DOMAIN entries # {} => LastLogId \in DOMAIN entries
          /\ \A i \in DOMAIN entries : i <= LastLogId
      BY LastLogIdIs DEF LogInv
    <3>4. \A i \in DOMAIN entries : i <= LastKnown
      BY <2>1, <3>1, <3>2 DEF LogInv, NothingUnknown
    <3>5. DOMAIN entries # {} => LastKnown \in DOMAIN entries
      BY <2>1, <3>1, <3>2 DEF LogInv, NothingUnknown
    <3> QED
      BY <3>1, <3>2, <3>3, <3>4, <3>5
  <2>2. LogReadable
    BY <2>1 DEF LogInv, KnownStretch, Replayable, LogReadable
  <2> QED
    BY <2>2 DEF LogInv, LogKept
<1> QED
  BY <1>1, LogSafe, PTL
-----------------------------------------------------------------------------
(* The reads of a range.  ReadInv follows the floor of a linearizable read,
   the highest index acknowledged when it began, to the read index, to the
   metrics of the member that serves it and into the answer.               *)


(* What the indexes are, and the order between them: the metrics follow the
   state machine, which follows the commit index; nothing is acknowledged
   before it is committed.                                                 *)
IndexOrder ==
    /\ commitIndex \in Nat /\ acked \in Nat
    /\ appliedTo \in [ReadMembers -> Nat] /\ metric \in [ReadMembers -> Nat]
    /\ \A m \in ReadMembers : metric[m] <= appliedTo[m] /\ appliedTo[m] <= commitIndex
    /\ acked <= commitIndex

ReaderTypes ==
    /\ reader \in [pc : {"idle", "ensure", "wait", "get", "report", "done"},
                   at : ReadMembers \cup {0}, mode : {"", "Linearizable", "Stale", "Unspecified"},
                   floor : Nat, index : Nat, value : Nat,
                   result : {"", "Ok", "NotFound", "FailedPrecondition", "Unavailable", "Internal"},
                   reported : Nat]
    /\ reader.pc # "idle" => reader.at \in ReadMembers

WriterTypes ==
    /\ writer \in [pc : {"idle", "pending", "done"}, at : ReadMembers \cup {0}, index : Nat,
                   result : {"", "Ok", "NotFound", "FailedPrecondition", "Internal"}]
    /\ writer.index <= commitIndex

(* How far the floor of a linearizable read has been carried: up to the read
   index, from there to the metrics of the member, and on to the answer.   *)
FloorReached ==
    /\ reader.floor <= acked
    /\ reader.mode = "Linearizable" =>
          /\ reader.pc = "wait" => reader.floor <= reader.index
          /\ reader.pc \in {"get", "report"} => reader.floor <= metric[reader.at]
          /\ reader.pc = "report" => reader.floor <= reader.value

ReadInv == IndexOrder /\ ReaderTypes /\ WriterTypes /\ FloorReached /\ ReadsLinearizable

-----------------------------------------------------------------------------
(* The numbers a read works with. *)
LEMMA ReaderNumbers ==
    ASSUME IndexOrder, ReaderTypes
    PROVE  /\ reader.floor \in Nat /\ reader.index \in Nat /\ reader.value \in Nat
           /\ reader.reported \in Nat /\ commitIndex \in Nat /\ acked \in Nat
           /\ acked <= commitIndex
           /\ reader.pc # "idle" =>
                 /\ reader.at \in ReadMembers
                 /\ metric[reader.at] \in Nat /\ appliedTo[reader.at] \in Nat
                 /\ metric[reader.at] <= appliedTo[reader.at]
<1>1. /\ reader.floor \in Nat /\ reader.index \in Nat /\ reader.value \in Nat
      /\ reader.reported \in Nat
      /\ reader.pc # "idle" => reader.at \in ReadMembers
  BY DEF ReaderTypes
<1>2. /\ commitIndex \in Nat /\ acked \in Nat /\ acked <= commitIndex
      /\ \A m \in ReadMembers : metric[m] \in Nat /\ appliedTo[m] \in Nat /\ metric[m] <= appliedTo[m]
  BY DEF IndexOrder
<1> QED
  BY <1>1, <1>2

(* A step that leaves every index alone. *)
LEMMA IndexesStay ==
    ASSUME ReadInv, UNCHANGED <<commitIndex, appliedTo, metric, acked>>
    PROVE  IndexOrder' /\ acked <= acked' /\ \A n \in ReadMembers : metric[n] <= metric'[n]
<1>1. IndexOrder'
  BY DEF ReadInv, IndexOrder
<1>2. acked <= acked' /\ \A n \in ReadMembers : metric[n] <= metric'[n]
  <2>1. acked \in Nat /\ metric \in [ReadMembers -> Nat]
    BY DEF ReadInv, IndexOrder
  <2> QED
    BY <2>1
<1> QED
  BY <1>1, <1>2

(* A step that leaves the reader alone and only lets the indexes grow keeps
   the floor where it was.                                                 *)
LEMMA IndexesGrow ==
    ASSUME ReadInv, IndexOrder', WriterTypes', UNCHANGED reader, acked <= acked',
           \A m \in ReadMembers : metric[m] <= metric'[m]
    PROVE  ReadInv'
<1>1. ReaderTypes'
  BY DEF ReadInv, ReaderTypes
<1>2. ReadsLinearizable'
  BY DEF ReadInv, ReadsLinearizable
<1>3. FloorReached'
  <2>1. IndexOrder /\ ReaderTypes /\ FloorReached
    BY DEF ReadInv
  <2>2. reader.pc # "idle" => metric[reader.at] <= metric'[reader.at] /\ metric'[reader.at] \in Nat
    BY <2>1, ReaderNumbers DEF IndexOrder
  <2>3. acked' \in Nat
    BY DEF IndexOrder
  <2> QED
    BY <2>1, <2>2, <2>3, ReaderNumbers DEF FloorReached
<1> QED
  BY <1>1, <1>2, <1>3 DEF ReadInv

(* A step of the reader leaves the group and the writer alone. *)
LEMMA ReaderMoves ==
    ASSUME ReadInv, UNCHANGED <<commitIndex, appliedTo, metric, acked, writer>>,
           ReaderTypes', FloorReached', ReadsLinearizable'
    PROVE  ReadInv'
BY DEF ReadInv, IndexOrder, WriterTypes

LEMMA GroupStep ==
    ASSUME ReadInv, NEW m \in ReadMembers,
           NewLeader(m) \/ HearsOfLeader(m) \/ RangeRemoved(m)
    PROVE  ReadInv'
<1>1. UNCHANGED <<commitIndex, appliedTo, metric, acked, reader, writer>>
  BY DEF NewLeader, HearsOfLeader, RangeRemoved
<1>2. WriterTypes'
  BY <1>1 DEF ReadInv, WriterTypes
<1> QED
  BY <1>1, <1>2, IndexesStay, IndexesGrow

LEMMA ApplyNextStep ==
    ASSUME ReadInv, NEW m \in ReadMembers, ApplyNext(m)
    PROVE  ReadInv'
<1>1. IndexOrder'
  BY DEF ReadInv, IndexOrder, ApplyNext
<1>2. WriterTypes'
  BY DEF ReadInv, WriterTypes, ApplyNext
<1>3. UNCHANGED reader /\ acked <= acked' /\ \A n \in ReadMembers : metric[n] <= metric'[n]
  BY DEF ReadInv, IndexOrder, ApplyNext
<1> QED
  BY <1>1, <1>2, <1>3, IndexesGrow

LEMMA MetricsFlushStep ==
    ASSUME ReadInv, NEW m \in ReadMembers, MetricsFlush(m)
    PROVE  ReadInv'
<1>1. IndexOrder'
  BY DEF ReadInv, IndexOrder, MetricsFlush
<1>2. WriterTypes'
  BY DEF ReadInv, WriterTypes, MetricsFlush
<1>3. UNCHANGED reader /\ acked <= acked' /\ \A n \in ReadMembers : metric[n] <= metric'[n]
  BY DEF ReadInv, IndexOrder, MetricsFlush
<1> QED
  BY <1>1, <1>2, <1>3, IndexesGrow

LEMMA BeginWriteStep ==
    ASSUME ReadInv, NEW m \in ReadMembers, BeginWrite(m)
    PROVE  ReadInv'
<1>1. UNCHANGED <<commitIndex, appliedTo, metric, acked, reader>>
  BY DEF BeginWrite
<1>2. IndexOrder'
  BY <1>1, IndexesStay
<1>3. WriterTypes'
  <2>1. writer' \in [pc : {"idle", "pending", "done"}, at : ReadMembers \cup {0}, index : Nat,
                     result : {"", "Ok", "NotFound", "FailedPrecondition", "Internal"}]
    BY DEF BeginWrite, NoWrite, WriteStatus
  <2>2. writer'.index = 0
    BY DEF BeginWrite, NoWrite
  <2>3. commitIndex' \in Nat
    BY <1>2 DEF IndexOrder
  <2>4. writer'.index <= commitIndex'
    BY <2>2, <2>3
  <2> QED
    BY <2>1, <2>4 DEF WriterTypes
<1> QED
  BY <1>1, <1>3, IndexesStay, IndexesGrow

LEMMA CommitWriteStep ==
    ASSUME ReadInv, CommitWrite
    PROVE  ReadInv'
<1>1. IndexOrder'
  BY DEF ReadInv, IndexOrder, CommitWrite
<1>2. WriterTypes'
  <2>1. commitIndex' \in Nat
    BY <1>1 DEF IndexOrder
  <2>2. writer'.index = commitIndex'
    BY DEF ReadInv, WriterTypes, CommitWrite
  <2>3. writer' \in [pc : {"idle", "pending", "done"}, at : ReadMembers \cup {0}, index : Nat,
                     result : {"", "Ok", "NotFound", "FailedPrecondition", "Internal"}]
    BY <2>1 DEF ReadInv, WriterTypes, CommitWrite
  <2>4. writer'.index <= commitIndex'
    BY <2>1, <2>2
  <2> QED
    BY <2>3, <2>4 DEF WriterTypes
<1>3. UNCHANGED reader /\ acked <= acked' /\ \A n \in ReadMembers : metric[n] <= metric'[n]
  BY DEF ReadInv, IndexOrder, CommitWrite
<1> QED
  BY <1>1, <1>2, <1>3, IndexesGrow

LEMMA EndWriteStep ==
    ASSUME ReadInv, EndWrite
    PROVE  ReadInv'
<1>1. IndexOrder'
  BY DEF ReadInv, IndexOrder, WriterTypes, EndWrite
<1>2. WriterTypes'
  BY DEF ReadInv, IndexOrder, WriterTypes, EndWrite, WriteStatus
<1>3. UNCHANGED reader /\ acked <= acked' /\ \A n \in ReadMembers : metric[n] <= metric'[n]
  <2>1. acked \in Nat /\ writer.index \in Nat /\ metric \in [ReadMembers -> Nat]
    BY DEF ReadInv, IndexOrder, WriterTypes
  <2>2. UNCHANGED <<reader, metric>>
    BY DEF EndWrite
  <2>3. acked <= acked'
    BY <2>1 DEF EndWrite
  <2> QED
    BY <2>1, <2>2, <2>3
<1> QED
  BY <1>1, <1>2, <1>3, IndexesGrow

LEMMA BeginReadStep ==
    ASSUME ReadInv, NEW m \in ReadMembers,
           NEW mode \in {"Linearizable", "Stale", "Unspecified"}, BeginRead(m, mode)
    PROVE  ReadInv'
<1>1. ReaderTypes'
  BY DEF ReadInv, IndexOrder, ReaderTypes, BeginRead, NoRead
<1>2. FloorReached' /\ ReadsLinearizable'
  BY DEF ReadInv, IndexOrder, BeginRead, NoRead, FloorReached, ReadsLinearizable
<1>3. UNCHANGED <<commitIndex, appliedTo, metric, acked, writer>>
  BY DEF BeginRead
<1> QED
  BY <1>1, <1>2, <1>3, ReaderMoves

LEMMA EnsureStep ==
    ASSUME ReadInv, EnsureLinearizable
    PROVE  ReadInv'
<1>1. ReaderTypes'
  BY DEF ReadInv, IndexOrder, ReaderTypes, EnsureLinearizable, ReadStatus
<1>2. FloorReached' /\ ReadsLinearizable'
  <2>1. ReadInv /\ IndexOrder /\ ReaderTypes /\ FloorReached
    BY DEF ReadInv
  <2>2. /\ reader'.floor = reader.floor /\ reader'.mode = reader.mode /\ reader'.pc \in {"done", "wait"}
        /\ reader'.pc = "done" => reader'.result # "Ok"
        /\ reader'.pc = "wait" => reader'.index = commitIndex
    BY <2>1 DEF ReaderTypes, EnsureLinearizable, ReadStatus
  <2>3. acked' = acked
    BY DEF EnsureLinearizable
  <2> QED
    BY <2>1, <2>2, <2>3, ReaderNumbers DEF FloorReached, ReadsLinearizable
<1>3. UNCHANGED <<commitIndex, appliedTo, metric, acked, writer>>
  BY DEF EnsureLinearizable
<1> QED
  BY <1>1, <1>2, <1>3, ReaderMoves

LEMMA WaitStep ==
    ASSUME ReadInv, IndexApplied \/ GroupStopped
    PROVE  ReadInv'
<1>1. ReaderTypes'
  BY DEF ReadInv, IndexOrder, ReaderTypes, IndexApplied, GroupStopped, ReadStatus
<1>2. FloorReached' /\ ReadsLinearizable'
  <2>1. ReadInv /\ IndexOrder /\ ReaderTypes /\ FloorReached
    BY DEF ReadInv
  <2>2. /\ reader'.floor = reader.floor /\ reader'.mode = reader.mode /\ reader'.at = reader.at
        /\ reader'.pc \in {"done", "get"} /\ reader.pc # "idle"
        /\ reader'.pc = "done" => reader'.result # "Ok"
        /\ reader'.pc = "get" => reader.pc = "wait" /\ reader.index <= metric[reader.at]
    <3>1. CASE IndexApplied
      <4>1. /\ reader'.floor = reader.floor /\ reader'.mode = reader.mode /\ reader'.at = reader.at
            /\ reader'.pc = "get" /\ reader.pc = "wait"
        BY <2>1, <3>1 DEF ReaderTypes, IndexApplied
      <4>2. metric[reader.at] >= reader.index
        BY <3>1 DEF IndexApplied
      <4> QED
        BY <2>1, <4>1, <4>2, ReaderNumbers
    <3>2. CASE GroupStopped
      BY <2>1, <3>2 DEF ReaderTypes, GroupStopped, ReadStatus
    <3> QED
      BY <3>1, <3>2
  <2>3. acked' = acked /\ metric' = metric
    BY DEF IndexApplied, GroupStopped
  <2> QED
    BY <2>1, <2>2, <2>3, ReaderNumbers DEF FloorReached, ReadsLinearizable
<1>3. UNCHANGED <<commitIndex, appliedTo, metric, acked, writer>>
  BY DEF IndexApplied, GroupStopped
<1> QED
  BY <1>1, <1>2, <1>3, ReaderMoves

LEMMA AnswerStep ==
    ASSUME ReadInv, GetValue \/ ReportIndex
    PROVE  ReadInv'
<1>1. ReaderTypes'
  BY DEF ReadInv, IndexOrder, ReaderTypes, GetValue, ReportIndex
<1>2. FloorReached' /\ ReadsLinearizable'
  <2>1. ReadInv /\ IndexOrder /\ ReaderTypes /\ FloorReached
    BY DEF ReadInv
  <2>2. /\ reader'.floor = reader.floor /\ reader'.mode = reader.mode /\ reader'.at = reader.at
        /\ \/ /\ reader.pc = "get" /\ reader'.value = appliedTo[reader.at]
              /\ reader'.pc = IF reader.mode = "Linearizable" THEN "report" ELSE "done"
           \/ /\ reader.pc = "report" /\ reader'.pc = "done" /\ reader'.value = reader.value
              /\ reader'.reported = metric[reader.at]
    BY <2>1 DEF ReaderTypes, GetValue, ReportIndex
  <2>3. acked' = acked /\ metric' = metric
    BY DEF GetValue, ReportIndex
  <2> QED
    BY <2>1, <2>2, <2>3, ReaderNumbers DEF FloorReached, ReadsLinearizable
<1>3. UNCHANGED <<commitIndex, appliedTo, metric, acked, writer>>
  BY DEF GetValue, ReportIndex
<1> QED
  BY <1>1, <1>2, <1>3, ReaderMoves

(* AdminService::read and RangeRuntime::linearizable_get (admin.rs, range.rs):
   for any number of members and writes, a linearizable read returns every
   write acknowledged before it began, and its read_log_index covers them. *)
THEOREM ReadsSafe == ReadsSpec => []ReadsLinearizable
<1>1. ReadsInit => ReadInv
  <2> SUFFICES ASSUME ReadsInit PROVE ReadInv
    OBVIOUS
  <2>1. IndexOrder
    BY DEF ReadsInit, IndexOrder
  <2>2. ReaderTypes
    BY DEF ReadsInit, ReaderTypes, NoRead
  <2>3. WriterTypes
    <3>1. writer \in [pc : {"idle", "pending", "done"}, at : ReadMembers \cup {0}, index : Nat,
                      result : {"", "Ok", "NotFound", "FailedPrecondition", "Internal"}]
      BY DEF ReadsInit, NoWrite
    <3>2. writer.index = 0 /\ commitIndex = 0
      BY DEF ReadsInit, NoWrite
    <3>3. writer.index <= commitIndex
      BY <3>2
    <3> QED
      BY <3>1, <3>3 DEF WriterTypes
  <2>4. FloorReached /\ ReadsLinearizable
    <3>1. reader.floor = 0 /\ acked = 0 /\ reader.pc = "idle"
      BY DEF ReadsInit, NoRead
    <3> QED
      BY <3>1 DEF FloorReached, ReadsLinearizable
  <2> QED
    BY <2>1, <2>2, <2>3, <2>4 DEF ReadInv
<1>2. ReadInv /\ [ReadsSteps]_readVars => ReadInv'
  <2> SUFFICES ASSUME ReadInv, [ReadsSteps]_readVars PROVE ReadInv'
    OBVIOUS
  <2>1. CASE UNCHANGED readVars
    <3>1. UNCHANGED <<commitIndex, appliedTo, metric, acked, reader, writer>>
      BY <2>1 DEF readVars
    <3>2. WriterTypes'
      BY <3>1 DEF ReadInv, WriterTypes
    <3> QED
      BY <3>1, <3>2, IndexesStay, IndexesGrow
  <2>2. CASE \E m \in ReadMembers : NewLeader(m) \/ HearsOfLeader(m) \/ RangeRemoved(m)
    BY <2>2, GroupStep
  <2>3. CASE \E m \in ReadMembers : ApplyNext(m)
    BY <2>3, ApplyNextStep
  <2>4. CASE \E m \in ReadMembers : MetricsFlush(m)
    BY <2>4, MetricsFlushStep
  <2>5. CASE \E m \in ReadMembers : BeginWrite(m)
    BY <2>5, BeginWriteStep
  <2>6. CASE \E m \in ReadMembers, mode \in {"Linearizable", "Stale", "Unspecified"} : BeginRead(m, mode)
    BY <2>6, BeginReadStep
  <2>7. CASE CommitWrite
    BY <2>7, CommitWriteStep
  <2>8. CASE EndWrite
    BY <2>8, EndWriteStep
  <2>9. CASE EnsureLinearizable
    BY <2>9, EnsureStep
  <2>10. CASE IndexApplied \/ GroupStopped
    BY <2>10, WaitStep
  <2>11. CASE GetValue \/ ReportIndex
    BY <2>11, AnswerStep
  <2> QED
    BY <2>1, <2>2, <2>3, <2>4, <2>5, <2>6, <2>7, <2>8, <2>9, <2>10, <2>11 DEF ReadsSteps
<1>3. ReadInv => ReadsLinearizable
  BY DEF ReadInv
<1> QED
  BY <1>1, <1>2, <1>3, PTL DEF ReadsSpec

-----------------------------------------------------------------------------
(* The replicas of a range: NothingMissing for every group, log, engine and
   number of faults.  The snapshot a replica installs may hold later values
   than its index says, so stores are not a function of last_applied and
   equality with the log is not inductive.  "No key is older than the index"
   is, once the invariant also says how inner, the meta row, a builder and an
   incoming snapshot follow each other.                                    *)

(* The LSM engine keeps the order of a batch only when its range deletes come
   first, which is how every caller in the repository builds them.         *)
LsmBatchesOrdered ==
    \A r \in Replicas : Engine[r] = "lsm" =>
        \A l \in Logs, i \in 1 .. LogLen :
            l[i].op = "WriteBatch" => RangeDeletesFirst(l[i].ops)

(* On each key a batch is the last op that names it, whatever the engine. *)
LEMMA BatchValue ==
    ASSUME NEW e \in Engines, NEW start \in Stores, NEW ops \in Seq(WriteOps),
           e = "lsm" => RangeDeletesFirst(ops), NEW k \in Keys
    PROVE  WriteBatch(e, start, ops)[k] =
               IF \E j \in DOMAIN ops : Names(ops[j], k)
               THEN WriteBatch("redb", EmptyStore, ops)[k] ELSE start[k]
<1> DEFINE N == {i \in DOMAIN ops : Names(ops[i], k)}
           H == {i \in DOMAIN ops : Reaches(e, start, ops[i], k)}
           R == {i \in DOMAIN ops : Reaches("redb", EmptyStore, ops[i], k)}
<1>1. R = N /\ H \subseteq N
  BY DEF Reaches
<1>2. WriteBatch(e, start, ops)[k] = IF H = {} THEN start[k] ELSE Outcome(ops[Max(H)])
  BY DEF WriteBatch
<1>3. WriteBatch("redb", EmptyStore, ops)[k] =
          IF R = {} THEN Absent ELSE Outcome(ops[Max(R)])
  BY DEF WriteBatch, EmptyStore
<1> HIDE DEF N, H, R
<1>4. CASE N = {}
  BY <1>1, <1>2, <1>4 DEF N
<1>5. CASE N # {} /\ H = N
  BY <1>1, <1>2, <1>3, <1>5 DEF N
<1>6. CASE N # {} /\ H # N
  <2>1. e = "lsm" /\ start[k] = Absent
    BY <1>6 DEF N, H, Reaches
  <2>2. H = {i \in N : ops[i].op # "DeleteRange"}
    BY <2>1 DEF N, H, Reaches
  <2>3. Len(ops) \in Nat /\ N \subseteq 0 .. Len(ops)
    BY DEF N
  <2>4. Max(N) \in N /\ \A y \in N : y <= Max(N)
    BY <1>6, <2>3, MaxNat
  <2>5. CASE ops[Max(N)].op = "DeleteRange"
    <3>1. \A i \in N : i < Max(N) => ops[i].op = "DeleteRange"
      BY <2>1, <2>4, <2>5 DEF RangeDeletesFirst, N
    <3>2. H = {}
      BY <2>2, <2>3, <2>4, <2>5, <3>1
    <3>3. Outcome(ops[Max(N)]) = Absent
      BY <2>5 DEF Outcome
    <3> QED
      BY <1>1, <1>2, <1>3, <1>6, <2>1, <3>2, <3>3 DEF N
  <2>6. CASE ops[Max(N)].op # "DeleteRange"
    <3>1. H # {} /\ Max(N) \in H
      BY <2>2, <2>4, <2>6
    <3>2. Max(H) \in H /\ \A y \in H : y <= Max(H)
      BY <1>1, <2>3, <3>1, MaxNat
    <3>3. Max(H) <= Max(N) /\ Max(N) <= Max(H)
      BY <1>1, <2>4, <3>1, <3>2
    <3>4. Max(H) \in 0 .. Len(ops) /\ Max(N) \in 0 .. Len(ops)
      BY <1>1, <2>3, <2>4, <3>2
    <3>5. Max(H) = Max(N)
      BY <2>3, <3>3, <3>4
    <3> QED
      BY <1>1, <1>2, <1>3, <1>6, <3>1, <3>5 DEF N
  <2> QED
    BY <2>5, <2>6
<1> QED
  BY <1>4, <1>5, <1>6

(* A batch leaves a store. *)
LEMMA BatchType ==
    ASSUME NEW e, NEW start \in Stores, NEW ops \in Seq(WriteOps)
    PROVE  WriteBatch(e, start, ops) \in Stores
<1> SUFFICES ASSUME NEW k \in Keys
             PROVE  WriteBatch(e, start, ops)[k] \in Values \cup {Absent}
  BY DEF WriteBatch, Stores
<1> DEFINE H == {i \in DOMAIN ops : Reaches(e, start, ops[i], k)}
<1>1. WriteBatch(e, start, ops)[k] = IF H = {} THEN start[k] ELSE Outcome(ops[Max(H)])
  BY DEF WriteBatch
<1>2. CASE H = {}
  BY <1>1, <1>2 DEF Stores
<1>3. CASE H # {}
  <2>1. Len(ops) \in Nat /\ H \subseteq 0 .. Len(ops) /\ H \subseteq DOMAIN ops
    OBVIOUS
  <2> HIDE DEF H
  <2>2. Max(H) \in DOMAIN ops
    BY <1>3, <2>1, MaxNat
  <2>3. ops[Max(H)] \in WriteOps
    BY <2>2
  <2> QED
    BY <1>1, <1>3, <2>3 DEF Outcome, WriteOps
<1> QED
  BY <1>2, <1>3

(* The committed log holds batches of ops, those an LSM replica gets ordered. *)
LEMMA LogFacts ==
    ASSUME NEW l \in Logs, NEW i \in 1 .. LogLen
    PROVE  /\ Ops(l[i]) \in Seq(WriteOps)
           /\ LsmBatchesOrdered =>
                 \A r \in Replicas :
                     Engine[r] = "lsm" => RangeDeletesFirst(Ops(l[i]))
<1>1. Ops(l[i]) \in Seq(WriteOps)
  BY GroupConstants DEF Ops
<1>2. RangeDeletesFirst(<<>>)
  BY DEF RangeDeletesFirst
<1> QED
  BY <1>1, <1>2 DEF Ops, LsmBatchesOrdered

(* One more entry changes the keys it names and no other. *)
LEMMA ValueStep ==
    ASSUME NEW l \in Logs, NEW n \in Nat, n < LogLen, NEW k \in Keys
    PROVE  LET ops == Ops(l[n + 1])
           IN  ValueAt(l, k, n + 1) =
                   IF \E j \in DOMAIN ops : Names(ops[j], k)
                   THEN WriteBatch("redb", EmptyStore, ops)[k] ELSE ValueAt(l, k, n)
<1> DEFINE ops == Ops(l[n + 1])
           named == \E j \in DOMAIN ops : Names(ops[j], k)
<1>1. CASE ~named
  <2>1. Writers(l, k, n + 1) = Writers(l, k, n)
    BY <1>1 DEF Writers
  <2> QED
    BY <1>1, <2>1 DEF ValueAt
<1>2. CASE named
  <2>1. n + 1 \in Writers(l, k, n + 1) /\ Writers(l, k, n + 1) \subseteq 0 .. n + 1
    BY <1>2 DEF Writers
  <2>2. /\ Max(Writers(l, k, n + 1)) \in Writers(l, k, n + 1)
        /\ \A y \in Writers(l, k, n + 1) : y <= Max(Writers(l, k, n + 1))
    <3>1. n + 1 \in Nat /\ Writers(l, k, n + 1) # {}
      BY <2>1
    <3> QED
      BY <2>1, <3>1, MaxNat
  <2>3. n + 1 <= Max(Writers(l, k, n + 1)) /\ Max(Writers(l, k, n + 1)) \in 0 .. n + 1
    BY <2>1, <2>2
  <2>4. Max(Writers(l, k, n + 1)) = n + 1
    BY <2>3
  <2> QED
    BY <1>2, <2>1, <2>4 DEF ValueAt
<1> QED
  BY <1>1, <1>2

(* Applying the next entry to a store that covers n gives one that covers
   n + 1, also when the store already held later values.                   *)
LEMMA ApplyCovers ==
    ASSUME NEW l \in Logs, LsmBatchesOrdered, NEW r \in Replicas,
           NEW image \in Images, Covers(l, image), image.meta.last < LogLen,
           NEW m \in Metas, m.last = image.meta.last + 1
    PROVE  LET d == WriteBatch(Engine[r], image.data, Ops(l[m.last]))
           IN  [data |-> d, meta |-> m] \in Images /\ Covers(l, [data |-> d, meta |-> m])
<1> DEFINE ops == Ops(l[m.last])
           d == WriteBatch(Engine[r], image.data, ops)
           n == image.meta.last
           new == [data |-> d, meta |-> m]
<1>1. n \in Nat /\ n \in 0 .. LogLen /\ m.last = n + 1 /\ m.last \in 1 .. LogLen
      /\ LogLen \in Nat /\ image.data \in Stores
  BY GroupConstants DEF Images, Metas
<1>2. ops \in Seq(WriteOps) /\ (Engine[r] = "lsm" => RangeDeletesFirst(ops))
      /\ Engine[r] \in Engines
  BY <1>1, LogFacts, GroupConstants
<1>3. d \in Stores
  BY <1>1, <1>2, BatchType
<1>4. new \in Images
  BY <1>3 DEF Images
<1>5. ASSUME NEW k \in Keys
      PROVE  \E p \in n + 1 .. LogLen : d[k] = ValueAt(l, k, p)
  <2> DEFINE named == \E j \in DOMAIN ops : Names(ops[j], k)
  <2>1. d[k] = IF named THEN WriteBatch("redb", EmptyStore, ops)[k] ELSE image.data[k]
    BY <1>1, <1>2, BatchValue
  <2>2. ValueAt(l, k, n + 1) =
            IF named THEN WriteBatch("redb", EmptyStore, ops)[k] ELSE ValueAt(l, k, n)
    BY <1>1, ValueStep
  <2> HIDE DEF d, named, ops
  <2>3. CASE named
    BY <1>1, <2>1, <2>2, <2>3
  <2>4. CASE ~named
    <3>1. PICK p \in n .. LogLen : image.data[k] = ValueAt(l, k, p)
      BY DEF Covers
    <3>2. CASE p = n
      BY <1>1, <2>1, <2>2, <2>4, <3>1, <3>2
    <3>3. CASE p # n
      BY <1>1, <2>1, <2>4, <3>1, <3>3
    <3> QED
      BY <3>2, <3>3
  <2> QED
    BY <2>3, <2>4
<1>6. Covers(l, new)
  BY <1>1, <1>5 DEF Covers
<1> QED
  BY <1>4, <1>6
------------------------------------------------------------------------------
(* How the pieces of one replica follow each other. *)
ReplicaInv(r) ==
    /\ Covers(log, disk[r])
    /\ pc[r] \in {"idle", "looping", "installing"} => inner[r] = disk[r].meta
    /\ pc[r] = "writing" => /\ disk[r].meta.last < LogLen
                            /\ inner[r].last = disk[r].meta.last + 1
    /\ pc[r] \in {"installing", "installed"} =>
          /\ incoming[r] # Absent
          /\ inner[r].last <= disk[r].meta.last
    /\ pc[r] = "installing" => disk[r].meta.last < incoming[r].meta.last
    /\ pc[r] = "installed" => disk[r].meta = incoming[r].meta
    /\ incoming[r] # Absent => Covers(log, incoming[r])
    /\ pc[r] # "failed" =>
          /\ builder[r] # Absent => builder[r].last <= disk[r].meta.last
          /\ snapshot[r] # Absent => Covers(log, snapshot[r])

RangeInv == TypeOK /\ \A r \in Replicas : ReplicaInv(r)

(* The types of one replica's pieces, and what its next image would be. *)
LEMMA Pieces ==
    ASSUME RangeInv, NEW r \in Replicas
    PROVE  /\ LogLen \in Nat /\ log \in Logs
           /\ inner[r] \in Metas /\ inner[r].last \in 0 .. LogLen
           /\ disk[r] \in Images /\ disk[r].meta \in Metas
           /\ disk[r].meta.last \in 0 .. LogLen
           /\ incoming[r] # Absent => /\ incoming[r] \in Images
                                    /\ incoming[r].meta.last \in 0 .. LogLen
           /\ builder[r] # Absent => builder[r].last \in 0 .. LogLen
           /\ snapshot[r] # Absent => snapshot[r] \in Images
BY GroupConstants DEF RangeInv, TypeOK, Images, Metas

(* The batch of an apply leaves an image that has every entry it counts. *)
LEMMA LandedImage ==
    ASSUME RangeInv, LsmBatchesOrdered, NEW r \in Replicas, pc[r] = "writing"
    PROVE  /\ Landed(r) \in Images /\ Covers(log, Landed(r))
           /\ Landed(r).meta = inner[r]
           /\ disk[r].meta.last <= inner[r].last
<1>1. /\ disk[r].meta.last < LogLen /\ inner[r].last = disk[r].meta.last + 1
      /\ Covers(log, disk[r])
  BY DEF RangeInv, ReplicaInv
<1>2. Landed(r) \in Images /\ Covers(log, Landed(r))
  BY <1>1, Pieces, ApplyCovers DEF Landed
<1>3. disk[r].meta.last <= inner[r].last
  BY <1>1, Pieces
<1> QED
  BY <1>2, <1>3 DEF Landed

(* The batch of an install leaves the image of the snapshot. *)
LEMMA ReplacedImage ==
    ASSUME RangeInv, NEW r \in Replicas, incoming[r] # Absent
    PROVE  /\ Replaced(r) \in Images /\ Covers(log, Replaced(r))
           /\ Replaced(r).meta = incoming[r].meta
<1>1. incoming[r] \in Images /\ Covers(log, incoming[r])
  BY Pieces DEF RangeInv, ReplicaInv
<1>2. \A k \in Keys : Replaced(r).data[k] = incoming[r].data[k]
  BY DEF Replaced
<1>3. Replaced(r).meta = incoming[r].meta
  BY DEF Replaced
<1>4. Replaced(r) \in Images
  BY <1>1 DEF Replaced, Images, Stores
<1> QED
  BY <1>1, <1>2, <1>3, <1>4 DEF Covers

(* A new group satisfies the invariant. *)
LEMMA RangeInit == Init => RangeInv
<1> SUFFICES ASSUME Init PROVE RangeInv
  OBVIOUS
<1>1. LogLen \in Nat /\ MaxFaults \in Nat /\ MaxBuilds \in Nat
  BY GroupConstants
<1>2. NoMeta \in Metas /\ NoMeta.last = 0
  BY <1>1 DEF NoMeta, Metas
<1>3. EmptyStore \in Stores
  BY DEF EmptyStore, Stores
<1>4. [data |-> EmptyStore, meta |-> NoMeta] \in Images
  BY <1>2, <1>3 DEF Images
<1>5. TypeOK
  BY <1>1, <1>2, <1>4 DEF Init, TypeOK
<1>6. Covers(log, [data |-> EmptyStore, meta |-> NoMeta])
  <2>1. \A k \in Keys : ValueAt(log, k, 0) = Absent
    BY DEF ValueAt, Writers
  <2> QED
    BY <1>1, <1>2, <2>1 DEF Covers, EmptyStore
<1>7. \A r \in Replicas : ReplicaInv(r)
  BY <1>6 DEF Init, ReplicaInv
<1> QED
  BY <1>5, <1>7 DEF RangeInv

(* An action of one replica keeps the invariant if it keeps the types of what
   it assigns and the replica's own part.                                  *)
LEMMA RangeStep == LsmBatchesOrdered /\ RangeInv /\ [Next]_vars => RangeInv'
<1> SUFFICES ASSUME LsmBatchesOrdered, RangeInv, [Next]_vars PROVE RangeInv'
  OBVIOUS
<1> USE DEF RangeInv
<1>0. CASE UNCHANGED vars
  BY <1>0 DEF vars, TypeOK, ReplicaInv, Covers
<1>1. ASSUME NEW r \in Replicas, BeginEntry(r) PROVE RangeInv'
  <2>1. inner[r].last < LogLen /\ inner[r] = disk[r].meta
    BY <1>1 DEF BeginEntry, ReplicaInv
  <2>2. /\ Following(inner[r], log[inner[r].last + 1]) \in Metas
        /\ Following(inner[r], log[inner[r].last + 1]).last = inner[r].last + 1
    BY <2>1, Pieces DEF Following, Metas
  <2>3. TypeOK'
    BY <1>1, <2>2 DEF TypeOK, BeginEntry
  <2>4. ASSUME NEW q \in Replicas PROVE ReplicaInv(q)'
    BY <1>1, <2>1, <2>2 DEF TypeOK, BeginEntry, ReplicaInv
  <2> QED
    BY <2>3, <2>4
<1>2. ASSUME NEW r \in Replicas, WriteEntry(r) PROVE RangeInv'
  <2>1. /\ Landed(r) \in Images /\ Covers(log, Landed(r))
        /\ Landed(r).meta = inner[r] /\ disk[r].meta.last <= inner[r].last
    BY <1>2, LandedImage DEF WriteEntry
  <2>2. TypeOK'
    BY <1>2, <2>1 DEF TypeOK, WriteEntry
  <2>3. ASSUME NEW q \in Replicas PROVE ReplicaInv(q)'
    BY <1>2, <2>1, <2>3, Pieces DEF TypeOK, WriteEntry, ReplicaInv
  <2> QED
    BY <2>2, <2>3
<1>3. ASSUME NEW r \in Replicas, EndApply(r) PROVE RangeInv'
  <2>1. TypeOK'
    BY <1>3 DEF TypeOK, EndApply
  <2>2. ASSUME NEW q \in Replicas PROVE ReplicaInv(q)'
    BY <1>3 DEF TypeOK, EndApply, ReplicaInv
  <2> QED
    BY <2>1, <2>2
<1>4. ASSUME NEW r \in Replicas, BuilderScans(r) PROVE RangeInv'
  <2> DEFINE s == [data |-> disk[r].data, meta |-> builder[r]]
  <2>1. s \in Images
    BY <1>4 DEF BuilderScans, TypeOK, Images
  <2>2. pc[r] # "failed" => Covers(log, s)
    <3> SUFFICES ASSUME pc[r] # "failed" PROVE Covers(log, s)
      OBVIOUS
    <3>1. builder[r].last <= disk[r].meta.last /\ Covers(log, disk[r])
      BY <1>4 DEF BuilderScans, ReplicaInv
    <3>2. builder[r].last \in 0 .. LogLen
      BY <1>4, Pieces DEF BuilderScans
    <3> QED
      BY <3>1, <3>2, Pieces DEF Covers
  <2> HIDE DEF s
  <2>3. snapshot' = [snapshot EXCEPT ![r] = s]
    BY <1>4 DEF BuilderScans, s
  <2>4. TypeOK'
    BY <1>4, <2>1, <2>3 DEF TypeOK, BuilderScans
  <2>5. ASSUME NEW q \in Replicas PROVE ReplicaInv(q)'
    BY <1>4, <2>2, <2>3 DEF TypeOK, BuilderScans, ReplicaInv
  <2> QED
    BY <2>4, <2>5
<1>5. ASSUME NEW r \in Replicas, WriteSnapshot(r) PROVE RangeInv'
  <2>1. /\ incoming[r] # Absent /\ inner[r].last <= disk[r].meta.last
        /\ disk[r].meta.last < incoming[r].meta.last
    BY <1>5 DEF WriteSnapshot, ReplicaInv
  <2>2. /\ Replaced(r) \in Images /\ Covers(log, Replaced(r))
        /\ Replaced(r).meta = incoming[r].meta
    BY <2>1, ReplacedImage
  <2>3. TypeOK'
    BY <1>5, <2>2 DEF TypeOK, WriteSnapshot
  <2>4. ASSUME NEW q \in Replicas PROVE ReplicaInv(q)'
    BY <1>5, <2>1, <2>2, <2>4, Pieces DEF TypeOK, WriteSnapshot, ReplicaInv
  <2> QED
    BY <2>3, <2>4
<1>6. ASSUME NEW r \in Replicas, FinishInstall(r) PROVE RangeInv'
  <2>1. /\ incoming[r] # Absent /\ disk[r].meta = incoming[r].meta
        /\ Covers(log, incoming[r]) /\ incoming[r] \in Images
    BY <1>6, Pieces DEF FinishInstall, ReplicaInv
  <2>2. TypeOK'
    BY <1>6, <2>1 DEF TypeOK, FinishInstall, Images
  <2>3. ASSUME NEW q \in Replicas PROVE ReplicaInv(q)'
    BY <1>6, <2>1 DEF TypeOK, FinishInstall, ReplicaInv
  <2> QED
    BY <2>2, <2>3
<1>7. ASSUME NEW r \in Replicas, Open(r) PROVE RangeInv'
  <2>1. disk[r].meta \in Metas
    BY Pieces
  <2>2. TypeOK'
    BY <1>7, <2>1 DEF TypeOK, Open
  <2>3. ASSUME NEW q \in Replicas PROVE ReplicaInv(q)'
    BY <1>7 DEF TypeOK, Open, ReplicaInv
  <2> QED
    BY <2>2, <2>3
<1>8. ASSUME NEW r \in Replicas, FailWrite(r) PROVE RangeInv'
  <2> DEFINE image == IF pc[r] = "writing" THEN Landed(r) ELSE Replaced(r)
  <2>1. image \in Images /\ Covers(log, image)
    <3>1. pc[r] # "writing" => incoming[r] # Absent
      BY <1>8 DEF FailWrite, ReplicaInv
    <3> QED
      BY <3>1, LandedImage, ReplacedImage
  <2> HIDE DEF image
  <2>2. disk' = disk \/ disk' = [disk EXCEPT ![r] = image]
    BY <1>8 DEF FailWrite, image
  <2>3. TypeOK'
    BY <1>8, <2>1, <2>2, GroupConstants DEF TypeOK, FailWrite
  <2>4. ASSUME NEW q \in Replicas PROVE ReplicaInv(q)'
    BY <1>8, <2>1, <2>2 DEF TypeOK, FailWrite, ReplicaInv
  <2> QED
    BY <2>3, <2>4
<1>9. ASSUME NEW r \in Replicas, BuilderReadsInner(r) PROVE RangeInv'
  <2>1. TypeOK'
    BY <1>9, GroupConstants DEF TypeOK, BuilderReadsInner
  <2>2. pc[r] # "failed" => inner[r].last <= disk[r].meta.last
    BY <1>9, Pieces DEF BuilderReadsInner, TypeOK, ReplicaInv
  <2>3. ASSUME NEW q \in Replicas PROVE ReplicaInv(q)'
    BY <1>9, <2>2 DEF TypeOK, BuilderReadsInner, ReplicaInv
  <2> QED
    BY <2>1, <2>3
<1>10. ASSUME NEW r \in Replicas, Crash(r) PROVE RangeInv'
  <2>1. NoMeta \in Metas
    BY GroupConstants DEF NoMeta, Metas
  <2>2. TypeOK'
    BY <1>10, <2>1, GroupConstants DEF TypeOK, Crash
  <2>3. ASSUME NEW q \in Replicas PROVE ReplicaInv(q)'
    BY <1>10 DEF TypeOK, Crash, ReplicaInv
  <2> QED
    BY <2>2, <2>3
<1>11. ASSUME NEW r \in Replicas, NEW s \in Replicas, BeginInstall(r, s)
       PROVE  RangeInv'
  <2>1. /\ snapshot[s] # Absent /\ snapshot[s] \in Images /\ Covers(log, snapshot[s])
        /\ inner[r] = disk[r].meta /\ inner[r].last < snapshot[s].meta.last
    BY <1>11, Pieces DEF BeginInstall, ReplicaInv, Images, Metas
  <2>2. TypeOK'
    BY <1>11, <2>1 DEF TypeOK, BeginInstall
  <2>3. ASSUME NEW q \in Replicas PROVE ReplicaInv(q)'
    BY <1>11, <2>1, Pieces DEF TypeOK, BeginInstall, ReplicaInv
  <2> QED
    BY <2>2, <2>3
<1> QED
  BY <1>0, <1>1, <1>2, <1>3, <1>4, <1>5, <1>6, <1>7, <1>8, <1>9, <1>10, <1>11
     DEF Next, Step

(* The invariant holds in every reachable state, for every group, log, mix of
   engines and number of faults and snapshots.                             *)
THEOREM RangeSafe == LsmBatchesOrdered => (Spec => []RangeInv)
<1> SUFFICES ASSUME LsmBatchesOrdered PROVE Spec => []RangeInv
  OBVIOUS
<1>1. RangeInv /\ [Next]_vars => RangeInv'
  BY RangeStep
<1> QED
  BY <1>1, RangeInit, PTL DEF Spec

(* No crash, failed write, repeated apply or fuzzy snapshot makes a replica
   miss an entry its meta row counts.                                      *)
THEOREM NothingIsMissing == LsmBatchesOrdered => (Spec => []NothingMissing)
<1> SUFFICES ASSUME LsmBatchesOrdered PROVE Spec => []NothingMissing
  OBVIOUS
<1>1. RangeInv => NothingMissing
  BY DEF RangeInv, ReplicaInv, NothingMissing
<1> QED
  BY <1>1, RangeSafe, PTL

(* A snapshot that can be shipped covers its index. *)
THEOREM SnapshotsCover == LsmBatchesOrdered => (Spec => []SnapshotCovers)
<1> SUFFICES ASSUME LsmBatchesOrdered PROVE Spec => []SnapshotCovers
  OBVIOUS
<1>1. RangeInv => SnapshotCovers
  BY DEF RangeInv, ReplicaInv, SnapshotCovers
<1> QED
  BY <1>1, RangeSafe, PTL

(* Neither a store nor a snapshot lacks an entry that its index counts. *)
THEOREM NothingIsLost == LsmBatchesOrdered => (Spec => []NothingLost)
<1> SUFFICES ASSUME LsmBatchesOrdered PROVE Spec => []NothingLost
  OBVIOUS
<1>1. RangeInv /\ NothingMissing /\ SnapshotCovers => NothingLost
  BY DEF NothingLost, RangeInv
<1> QED
  BY <1>1, RangeSafe, NothingIsMissing, SnapshotsCover, PTL

(* No step takes back applied entries. *)
LEMMA AppliedStep ==
    LsmBatchesOrdered /\ RangeInv /\ [Next]_vars =>
        \A r \in Replicas : disk[r].meta.last <= disk'[r].meta.last
<1> SUFFICES ASSUME LsmBatchesOrdered, RangeInv, [Next]_vars, NEW q \in Replicas
             PROVE  disk[q].meta.last <= disk'[q].meta.last
  OBVIOUS
<1>1. disk[q].meta.last \in 0 .. LogLen
  BY Pieces
<1>2. CASE disk' = disk
  BY <1>1, <1>2
<1>3. ASSUME NEW r \in Replicas, pc[r] = "writing",
             disk' = [disk EXCEPT ![r] = Landed(r)]
      PROVE  disk[q].meta.last <= disk'[q].meta.last
  BY <1>1, <1>3, LandedImage DEF RangeInv, TypeOK
<1>4. ASSUME NEW r \in Replicas, pc[r] = "installing",
             disk' = [disk EXCEPT ![r] = Replaced(r)]
      PROVE  disk[q].meta.last <= disk'[q].meta.last
  <2>1. /\ incoming[r] # Absent /\ disk[r].meta.last < incoming[r].meta.last
        /\ Replaced(r).meta = incoming[r].meta
    BY <1>4, ReplacedImage DEF RangeInv, ReplicaInv
  <2>2. disk[r].meta.last <= Replaced(r).meta.last
    BY <2>1, Pieces
  <2> QED
    BY <1>1, <1>4, <2>2 DEF RangeInv, TypeOK
<1> QED
  BY <1>2, <1>3, <1>4
     DEF Next, Step, vars, BeginEntry, WriteEntry, EndApply, BuilderScans,
         WriteSnapshot, FinishInstall, Open, FailWrite, BuilderReadsInner, Crash,
         BeginInstall

(* Applied entries stay applied on disk, across installs, crashes and failed
   writes.                                                                 *)
THEOREM AppliedStays == LsmBatchesOrdered => (Spec => AppliedNeverRegresses)
<1> SUFFICES ASSUME LsmBatchesOrdered PROVE Spec => AppliedNeverRegresses
  OBVIOUS
<1>1. RangeInv /\ [Next]_vars =>
          [\A r \in Replicas : disk[r].meta.last <= disk'[r].meta.last]_vars
  BY AppliedStep
<1> QED
  BY <1>1, RangeSafe, PTL DEF Spec, AppliedNeverRegresses
------------------------------------------------------------------------------
(* The membership beside an index, without a hypothesis on the batches. *)

MetaInForce(l, m) == m \in Metas /\ m.member = MemberAt(l, m.last)

(* MembershipInForce with the metas that are on their way: a builder's, which
   becomes a snapshot's, and an incoming one, which becomes the disk's.    *)
MemberInv ==
    /\ log \in Logs
    /\ inner = [r \in Replicas |-> inner[r]] /\ disk = [r \in Replicas |-> disk[r]]
    /\ pc = [r \in Replicas |-> pc[r]] /\ incoming = [r \in Replicas |-> incoming[r]]
    /\ builder = [r \in Replicas |-> builder[r]] /\ snapshot = [r \in Replicas |-> snapshot[r]]
    /\ \A r \in Replicas :
          /\ MetaInForce(log, inner[r]) /\ MetaInForce(log, disk[r].meta)
          /\ builder[r] # Absent => MetaInForce(log, builder[r])
          /\ incoming[r] # Absent => MetaInForce(log, incoming[r].meta)
          /\ snapshot[r] # Absent => MetaInForce(log, snapshot[r].meta)
          /\ pc[r] \in {"installing", "installed"} => incoming[r] # Absent

(* The membership in force moves with the membership entries. *)
LEMMA MemberStep ==
    ASSUME NEW l, NEW n \in Nat
    PROVE  /\ MemberAt(l, 0) = 0
           /\ MemberAt(l, n) \in 0 .. n
           /\ MemberAt(l, n + 1) = IF l[n + 1].op = "Membership" THEN n + 1 ELSE MemberAt(l, n)
<1> DEFINE S(j) == {0} \cup {i \in 1 .. j : l[i].op = "Membership"}
<1>1. ASSUME NEW j \in Nat
      PROVE  /\ S(j) \in SUBSET (0 .. j) /\ S(j) # {}
             /\ Max(S(j)) \in S(j) /\ \A y \in S(j) : y <= Max(S(j))
  <2>1. S(j) \in SUBSET (0 .. j) /\ S(j) # {}
    OBVIOUS
  <2> HIDE DEF S
  <2> QED
    BY <2>1, MaxNat
<1>2. \A j : MemberAt(l, j) = Max(S(j))
  BY DEF MemberAt
<1>3. S(0) = {0}
  OBVIOUS
<1>4. S(n + 1) = IF l[n + 1].op = "Membership" THEN S(n) \cup {n + 1} ELSE S(n)
  OBVIOUS
<1>5. n + 1 \in Nat /\ 0 \in Nat
  OBVIOUS
<1> HIDE DEF S
<1>6. Max(S(0)) = 0
  BY <1>1, <1>3, <1>5
<1>7. Max(S(n)) \in 0 .. n
  BY <1>1
<1>8. CASE l[n + 1].op = "Membership"
  <2> DEFINE x == Max(S(n + 1))
  <2>1. x \in S(n) \cup {n + 1} /\ \A y \in S(n) \cup {n + 1} : y <= x
    BY <1>1, <1>4, <1>5, <1>8
  <2>2. S(n) \in SUBSET (0 .. n)
    BY <1>1
  <2> HIDE DEF x
  <2>3. x = n + 1
    BY <2>1, <2>2
  <2> QED
    BY <1>2, <1>6, <1>7, <1>8, <2>3 DEF x
<1>9. CASE l[n + 1].op # "Membership"
  BY <1>2, <1>4, <1>6, <1>7, <1>9
<1> QED
  BY <1>8, <1>9

(* Following keeps the membership in force. *)
LEMMA FollowingInForce ==
    ASSUME NEW l, NEW m, MetaInForce(l, m), m.last < LogLen
    PROVE  MetaInForce(l, Following(m, l[m.last + 1]))
<1>1. m.last \in 0 .. LogLen /\ m.member \in 0 .. LogLen /\ LogLen \in Nat
  BY GroupConstants DEF MetaInForce, Metas
<1>2. m.last \in Nat /\ m.last + 1 \in 0 .. LogLen
  BY <1>1
<1>3. MemberAt(l, m.last + 1) = IF l[m.last + 1].op = "Membership" THEN m.last + 1 ELSE m.member
  BY <1>2, MemberStep DEF MetaInForce
<1>4. Following(m, l[m.last + 1]) \in Metas
  BY <1>1, <1>2 DEF Following, Metas
<1> QED
  BY <1>3, <1>4 DEF MetaInForce, Following

(* The meta row a new store and a new process start from. *)
LEMMA NoMetaInForce ==
    ASSUME NEW l
    PROVE  MetaInForce(l, NoMeta)
<1>1. MemberAt(l, 0) = 0
  BY MemberStep
<1> QED
  BY <1>1, GroupConstants DEF MetaInForce, NoMeta, Metas

(* Each step moves a meta to where it is in force too. *)
LEMMA MemberNext == MemberInv /\ [Next]_vars => MemberInv'
<1> SUFFICES ASSUME MemberInv, [Next]_vars PROVE MemberInv'
  OBVIOUS
<1>1. CASE UNCHANGED vars
  BY <1>1 DEF vars, MemberInv
<1>2. ASSUME NEW r \in Replicas, BeginEntry(r) PROVE MemberInv'
  <2>1. MetaInForce(log, Following(inner[r], log[inner[r].last + 1]))
    BY <1>2, FollowingInForce DEF BeginEntry, MemberInv
  <2> QED
    BY <1>2, <2>1 DEF BeginEntry, MemberInv
<1>3. ASSUME NEW r \in Replicas, WriteEntry(r) PROVE MemberInv'
  BY <1>3 DEF WriteEntry, Landed, MemberInv
<1>4. ASSUME NEW r \in Replicas, EndApply(r) PROVE MemberInv'
  BY <1>4 DEF EndApply, MemberInv
<1>5. ASSUME NEW r \in Replicas, BuilderReadsInner(r) PROVE MemberInv'
  BY <1>5 DEF BuilderReadsInner, MemberInv
<1>6. ASSUME NEW r \in Replicas, BuilderScans(r) PROVE MemberInv'
  BY <1>6 DEF BuilderScans, MemberInv
<1>7. ASSUME NEW r \in Replicas, NEW s \in Replicas, BeginInstall(r, s) PROVE MemberInv'
  BY <1>7 DEF BeginInstall, MemberInv
<1>8. ASSUME NEW r \in Replicas, WriteSnapshot(r) PROVE MemberInv'
  BY <1>8 DEF WriteSnapshot, Replaced, MemberInv
<1>9. ASSUME NEW r \in Replicas, FinishInstall(r) PROVE MemberInv'
  BY <1>9 DEF FinishInstall, MemberInv
<1>10. ASSUME NEW r \in Replicas, FailWrite(r) PROVE MemberInv'
  <2>1. \A u \in Replicas : MetaInForce(log, disk'[u].meta)
    BY <1>10 DEF FailWrite, Landed, Replaced, MemberInv
  <2>2. disk' = [u \in Replicas |-> disk'[u]]
    BY <1>10 DEF FailWrite, MemberInv
  <2> QED
    BY <1>10, <2>1, <2>2 DEF FailWrite, MemberInv
<1>11. ASSUME NEW r \in Replicas, Crash(r) PROVE MemberInv'
  <2>1. MetaInForce(log, NoMeta)
    BY NoMetaInForce
  <2> QED
    BY <1>11, <2>1 DEF Crash, MemberInv
<1>12. ASSUME NEW r \in Replicas, Open(r) PROVE MemberInv'
  BY <1>12 DEF Open, MemberInv
<1> QED
  BY <1>1, <1>2, <1>3, <1>4, <1>5, <1>6, <1>7, <1>8, <1>9, <1>10, <1>11, <1>12 DEF Next, Step

(* StateMachineStore: last_membership is the one in force at last_applied, on
   disk, in memory and in every snapshot, whatever crashes, failed writes and
   installs came before, for every log, engine and order of a batch.       *)
THEOREM MembershipRight == Spec => []MembershipInForce
<1>1. Init => MemberInv
  <2> SUFFICES ASSUME Init PROVE MemberInv
    OBVIOUS
  <2>1. MetaInForce(log, NoMeta)
    BY NoMetaInForce
  <2> QED
    BY <2>1 DEF Init, MemberInv
<1>2. MemberInv => MembershipInForce
  BY DEF MemberInv, MembershipInForce, MetaInForce
<1> QED
  BY <1>1, <1>2, MemberNext, PTL DEF Spec

-------------------------------------------------------------------------------
(* Byte strings: first differences and the order. *)

FirstDiff(s, t, d) ==
    /\ d \in 1 .. Len(s) /\ d \in 1 .. Len(t) /\ s[d] # t[d]
    /\ \A j \in 1 .. d - 1 : s[j] = t[j]


(* Two strings: one begins the other, or they differ somewhere first. *)
LEMMA Compared ==
    ASSUME NEW X, NEW s \in Seq(X), NEW t \in Seq(X)
    PROVE  Begins(s, t) \/ Begins(t, s) \/ \E d \in Nat : FirstDiff(s, t, d)
<1>1. Len(s) \in Nat /\ Len(t) \in Nat
  BY LenProperties
<1> DEFINE D == {i \in Nat : i \in 1 .. Len(s) /\ i \in 1 .. Len(t) /\ s[i] # t[i]}
<1>2. CASE D = {}
  <2>1. CASE Len(s) <= Len(t)
    BY <1>1, <1>2, <2>1 DEF Begins
  <2>2. CASE Len(t) <= Len(s)
    BY <1>1, <1>2, <2>2 DEF Begins
  <2> QED
    BY <1>1, <2>1, <2>2
<1>3. CASE D # {}
  <2>1. Min(D) \in D /\ \A y \in D : Min(D) <= y
    BY <1>3, MinNat
  <2>2. FirstDiff(s, t, Min(D))
    <3>1. PICK d \in Nat : d = Min(D)
      BY <2>1
    <3>2. d \in D /\ \A y \in D : d <= y
      BY <2>1, <3>1
    <3>3. FirstDiff(s, t, d)
      BY <1>1, <3>2 DEF FirstDiff
    <3> QED
      BY <3>1, <3>3
  <2> QED
    BY <2>1, <2>2
<1> QED
  BY <1>2, <1>3

LEMMA ByteIs == \A x : x \in Bytes <=> x \in Nat /\ x <= 255
  BY DEF Bytes

LEMMA StringIs ==
    ASSUME NEW s \in Seq(Bytes)
    PROVE  /\ Len(s) \in Nat /\ DOMAIN s = 1 .. Len(s)
           /\ \A i \in 1 .. Len(s) : s[i] \in Nat /\ s[i] <= 255
  BY LenProperties, ElementOfSeq, ByteIs

LEMMA BelowAt ==
    ASSUME NEW s \in Seq(Bytes), NEW t \in Seq(Bytes), NEW d \in Nat, FirstDiff(s, t, d)
    PROVE  BytesBelow(s, t) <=> s[d] < t[d]
<1>1. Len(s) \in Nat /\ Len(t) \in Nat /\ DOMAIN s = 1 .. Len(s) /\ DOMAIN t = 1 .. Len(t)
  BY LenProperties
<1>2. \A i \in 1 .. Len(s) : s[i] \in Nat
  BY StringIs
<1>3. \A i \in 1 .. Len(t) : t[i] \in Nat
  BY StringIs
<1>4. ~IsStrictPrefix(s, t)
  BY <1>1, PrefixIs DEF IsStrictPrefix, Begins, FirstDiff
<1>5. ASSUME NEW i \in DOMAIN s \cap DOMAIN t, s[i] < t[i], \A j \in 1 .. i - 1 : s[j] = t[j]
      PROVE  i = d
  BY <1>1, <1>2, <1>3, <1>5 DEF FirstDiff
<1>6. s[d] < t[d] => BytesBelow(s, t)
  BY <1>1 DEF BytesBelow, FirstDiff
<1> QED
  BY <1>4, <1>5, <1>6 DEF BytesBelow

LEMMA BelowBegins ==
    ASSUME NEW s \in Seq(Bytes), NEW t \in Seq(Bytes), Begins(s, t)
    PROVE  (BytesBelow(s, t) <=> s # t) /\ ~BytesBelow(t, s)
<1>1. Len(s) \in Nat /\ Len(t) \in Nat /\ DOMAIN s = 1 .. Len(s) /\ DOMAIN t = 1 .. Len(t)
  BY LenProperties
<1>2. \A i \in 1 .. Len(s) : s[i] \in Nat
  BY StringIs
<1>3. \A i \in DOMAIN s \cap DOMAIN t : s[i] = t[i] /\ s[i] \in Nat
  BY <1>1, <1>2 DEF Begins
<1>4. IsStrictPrefix(s, t) <=> s # t
  BY PrefixIs DEF IsStrictPrefix
<1>5. ~IsStrictPrefix(t, s)
  BY PrefixIs, EqualSeqs DEF IsStrictPrefix
<1> QED
  BY <1>3, <1>4, <1>5 DEF BytesBelow

LEMMA DiffSwaps ==
    ASSUME NEW s, NEW t, NEW d, FirstDiff(s, t, d)
    PROVE  FirstDiff(t, s, d)
  BY DEF FirstDiff

(* KeyRange::prefix holds the strings the prefix begins. *)
LEMMA UnderPrefixIs ==
    ASSUME NEW p \in Seq(Bytes), NEW b \in Seq(Bytes)
    PROVE  UnderPrefix(p, b) <=> Begins(p, b)
<1>1. Len(p) \in Nat /\ Len(b) \in Nat /\ DOMAIN p = 1 .. Len(p)
  BY LenProperties
<1>2. \A i \in 1 .. Len(p) : p[i] \in Nat /\ p[i] <= 255
  BY StringIs
<1>3. \A i \in 1 .. Len(b) : b[i] \in Nat /\ b[i] <= 255
  BY StringIs
<1> DEFINE keep == {i \in DOMAIN p : p[i] # 255}
<1>4. Begins(b, p) /\ b # p => BytesBelow(b, p)
  BY BelowBegins
<1>5. Begins(p, b) => ~BytesBelow(b, p)
  BY BelowBegins
<1>6. CASE keep = {}
  <2>1. PrefixSuccessor(p) = <<>>
    BY <1>6 DEF PrefixSuccessor
  <2>2. ASSUME NEW d \in Nat, FirstDiff(b, p, d) PROVE BytesBelow(b, p)
    <3>1. b[d] < p[d]
      BY <1>1, <1>2, <1>3, <1>6, <2>2 DEF FirstDiff
    <3> QED
      BY <2>2, <3>1, BelowAt
  <2>3. Begins(b, p) \/ Begins(p, b) \/ \E d \in Nat : FirstDiff(b, p, d)
    BY Compared
  <2>4. Begins(b, p) /\ b = p => Begins(p, b)
    OBVIOUS
  <2> QED
    BY <1>4, <1>5, <2>1, <2>2, <2>3, <2>4 DEF UnderPrefix
<1>7. CASE keep # {}
  <2> DEFINE i == Max(keep)  q == Append(SubSeq(p, 1, i - 1), p[i] + 1)
  <2>1. i \in 1 .. Len(p) /\ p[i] # 255 /\ \A j \in 1 .. Len(p) : j > i => p[j] = 255
    <3>1. keep \in SUBSET (0 .. Len(p))
      BY <1>1
    <3>2. Max(keep) \in keep /\ \A y \in keep : y <= Max(keep)
      BY <1>1, <1>7, <3>1, MaxNat
    <3>3. \A j \in 1 .. Len(p) : j \in keep <=> p[j] # 255
      BY <1>1
    <3>4. i \in keep /\ \A y \in keep : y <= i
      BY <3>2
    <3>5. keep \subseteq 1 .. Len(p)
      BY <1>1
    <3> HIDE DEF i, keep
    <3> QED
      BY <1>1, <3>3, <3>4, <3>5
  <2>2. PrefixSuccessor(p) = q
    BY <1>7 DEF PrefixSuccessor
  <2> HIDE DEF i
  <2>3. /\ q \in Seq(Bytes) /\ Len(q) = i /\ q[i] = p[i] + 1
        /\ \A j \in 1 .. i - 1 : q[j] = p[j]
    <3>1. /\ SubSeq(p, 1, i - 1) \in Seq(Bytes) /\ Len(SubSeq(p, 1, i - 1)) = i - 1
          /\ \A j \in 1 .. i - 1 : SubSeq(p, 1, i - 1)[j] = p[j]
      <4>1. i - 1 \in Int /\ \A j \in 1 .. i - 1 : p[j] \in Bytes
        BY <1>1, <1>2, <2>1, ByteIs
      <4>2. /\ SubSeq(p, 1, i - 1) \in Seq(Bytes)
            /\ Len(SubSeq(p, 1, i - 1)) = IF 1 <= i - 1 THEN i - 1 - 1 + 1 ELSE 0
            /\ \A j \in 1 .. i - 1 - 1 + 1 : SubSeq(p, 1, i - 1)[j] = p[1 + j - 1]
        BY <4>1, SubSeqProperties
      <4> QED
        BY <1>1, <2>1, <4>2
    <3>2. p[i] + 1 \in Bytes
      <4>1. p[i] \in Nat /\ p[i] <= 255 /\ p[i] # 255
        BY <1>2, <2>1
      <4>2. p[i] + 1 \in Nat /\ p[i] + 1 <= 255
        BY <4>1
      <4> QED
        BY <4>2, ByteIs
    <3>3. /\ q \in Seq(Bytes) /\ Len(q) = Len(SubSeq(p, 1, i - 1)) + 1
          /\ \A j \in 1 .. Len(SubSeq(p, 1, i - 1)) : q[j] = SubSeq(p, 1, i - 1)[j]
          /\ q[Len(SubSeq(p, 1, i - 1)) + 1] = p[i] + 1
      BY <3>1, <3>2, AppendProperties
    <3> QED
      BY <1>1, <2>1, <3>1, <3>3
  <2> HIDE DEF q
  <2>4. PrefixSuccessor(p) # <<>>
    <3>1. Len(<<>>) = 0
      BY EmptySeq
    <3> QED
      BY <2>1, <2>2, <2>3, <3>1
  <2>5. ASSUME Begins(p, b) PROVE BytesBelow(b, q)
    <3>1. FirstDiff(b, q, i) /\ b[i] < q[i] /\ i \in Nat
      BY <1>1, <1>2, <1>3, <2>1, <2>3, <2>5 DEF FirstDiff, Begins
    <3> QED
      BY <2>3, <3>1, BelowAt
  <2>6. ASSUME NEW d \in Nat, FirstDiff(b, p, d), ~BytesBelow(b, p) PROVE ~BytesBelow(b, q)
    <3>1. b[d] > p[d] /\ d \in 1 .. Len(b) /\ d \in 1 .. Len(p)
      <4>1. ~(b[d] < p[d])
        BY <2>6, BelowAt
      <4> QED
        BY <1>2, <1>3, <2>6, <4>1 DEF FirstDiff
    <3>2. d <= i
      BY <1>1, <1>3, <2>1, <3>1
    <3>3. CASE d < i
      <4>1. FirstDiff(b, q, d) /\ ~(b[d] < q[d])
        BY <1>1, <1>2, <1>3, <2>1, <2>3, <2>6, <3>1, <3>3 DEF FirstDiff
      <4> QED
        BY <2>3, <4>1, BelowAt
    <3>4. CASE d = i /\ b[i] # q[i]
      <4>1. FirstDiff(b, q, i) /\ ~(b[i] < q[i]) /\ i \in Nat
        BY <1>1, <1>2, <1>3, <2>1, <2>3, <2>6, <3>1, <3>4 DEF FirstDiff
      <4> QED
        BY <2>3, <4>1, BelowAt
    <3>5. CASE d = i /\ b[i] = q[i]
      <4>1. Begins(q, b)
        BY <1>1, <2>1, <2>3, <2>6, <3>1, <3>5 DEF FirstDiff, Begins
      <4> QED
        BY <2>3, <4>1, BelowBegins
    <3> QED
      BY <1>1, <2>1, <3>1, <3>2, <3>3, <3>4, <3>5
  <2>7. Begins(b, p) \/ Begins(p, b) \/ \E d \in Nat : FirstDiff(b, p, d)
    BY Compared
  <2>8. Begins(b, p) /\ b = p => Begins(p, b)
    OBVIOUS
  <2> QED
    BY <1>4, <1>5, <2>2, <2>4, <2>5, <2>6, <2>7, <2>8 DEF UnderPrefix
<1> QED
  BY <1>6, <1>7

-------------------------------------------------------------------------------
(* Joined strings. *)

IsCat(s, a, b) ==
    /\ Len(a) \in Nat /\ Len(b) \in Nat /\ Len(s) = Len(a) + Len(b)
    /\ \A i \in 1 .. Len(a) : s[i] = a[i]
    /\ \A i \in 1 .. Len(b) : s[Len(a) + i] = b[i]

LEMMA CatIs ==
    ASSUME NEW X, NEW a \in Seq(X), NEW b \in Seq(X)
    PROVE  Cat(a, b) \in Seq(X) /\ IsCat(Cat(a, b), a, b)
<1>1. Len(a) \in Nat /\ Len(b) \in Nat
  BY LenProperties
<1>2. /\ Cat(a, b) \in Seq(X) /\ Len(Cat(a, b)) = Len(a) + Len(b)
      /\ \A i \in 1 .. Len(a) + Len(b) : Cat(a, b)[i] = IF i <= Len(a) THEN a[i] ELSE b[i - Len(a)]
  BY ConcatProperties DEF Cat
<1>3. ASSUME NEW i \in 1 .. Len(b) PROVE Cat(a, b)[Len(a) + i] = b[i]
  <2>1. Len(a) + i \in 1 .. Len(a) + Len(b) /\ ~(Len(a) + i <= Len(a)) /\ (Len(a) + i) - Len(a) = i
    BY <1>1
  <2> QED
    BY <1>2, <2>1
<1>4. \A i \in 1 .. Len(a) : Cat(a, b)[i] = a[i]
  BY <1>1, <1>2
<1> QED
  BY <1>1, <1>2, <1>3, <1>4 DEF IsCat

LEMMA CatAssoc ==
    ASSUME NEW X, NEW a \in Seq(X), NEW b \in Seq(X), NEW c \in Seq(X)
    PROVE  Cat(Cat(a, b), c) = Cat(a, Cat(b, c))
  BY ConcatAssociative DEF Cat

LEMMA CatEmpty ==
    ASSUME NEW X, NEW a \in Seq(X)
    PROVE  Cat(a, <<>>) = a /\ Cat(<<>>, a) = a
  BY ConcatEmptySeq DEF Cat

LEMMA CatBegins ==
    ASSUME NEW X, NEW a \in Seq(X), NEW b \in Seq(X)
    PROVE  Begins(a, Cat(a, b))
<1>1. IsCat(Cat(a, b), a, b)
  BY CatIs
<1> QED
  BY <1>1 DEF IsCat, Begins

LEMMA ShiftBegins ==
    ASSUME NEW X, NEW a \in Seq(X), NEW b \in Seq(X), NEW c \in Seq(X), Begins(b, c)
    PROVE  Begins(Cat(a, b), Cat(a, c))
<1> DEFINE s == Cat(a, b)  t == Cat(a, c)
<1>0. IsCat(s, a, b)
  BY CatIs
<1>1. /\ Len(a) \in Nat /\ Len(b) \in Nat /\ Len(s) = Len(a) + Len(b)
      /\ \A i \in 1 .. Len(a) : s[i] = a[i]
      /\ \A i \in 1 .. Len(b) : s[Len(a) + i] = b[i]
  <2> HIDE DEF s, t
  <2> QED
    BY <1>0 DEF IsCat
<1>b. IsCat(t, a, c)
  BY CatIs
<1>2. /\ Len(c) \in Nat /\ Len(t) = Len(a) + Len(c)
      /\ \A i \in 1 .. Len(a) : t[i] = a[i]
      /\ \A i \in 1 .. Len(c) : t[Len(a) + i] = c[i]
  <2> HIDE DEF s, t
  <2> QED
    BY <1>b DEF IsCat
<1> HIDE DEF s, t
<1>3. ASSUME NEW i \in 1 .. Len(s) PROVE s[i] = t[i]
  <2>1. CASE i <= Len(a)
    BY <1>1, <1>2, <2>1
  <2>2. CASE i > Len(a)
    <3>1. PICK j \in 1 .. Len(b) : i = Len(a) + j
      <4>1. i - Len(a) \in 1 .. Len(b) /\ i = Len(a) + (i - Len(a))
        BY <1>1, <2>2
      <4> QED
        BY <4>1
    <3>2. b[j] = c[j] /\ j \in 1 .. Len(c)
      BY <1>1, <1>2 DEF Begins
    <3> QED
      BY <1>1, <1>2, <3>1, <3>2
  <2> QED
    BY <1>1, <2>1, <2>2
<1>4. Begins(s, t)
  BY <1>1, <1>2, <1>3 DEF Begins
<1> QED
  BY <1>4 DEF s, t

LEMMA ShiftDiff ==
    ASSUME NEW X, NEW a \in Seq(X), NEW x \in Seq(X), NEW y \in Seq(X), NEW d \in Nat, FirstDiff(x, y, d)
    PROVE  /\ Len(a) + d \in Nat /\ FirstDiff(Cat(a, x), Cat(a, y), Len(a) + d)
           /\ Cat(a, x)[Len(a) + d] = x[d] /\ Cat(a, y)[Len(a) + d] = y[d]
<1> DEFINE s == Cat(a, x)  t == Cat(a, y)  e == Len(a) + d
<1>0. IsCat(s, a, x)
  BY CatIs
<1>1. /\ Len(a) \in Nat /\ Len(x) \in Nat /\ Len(s) = Len(a) + Len(x)
      /\ \A i \in 1 .. Len(a) : s[i] = a[i]
      /\ \A i \in 1 .. Len(x) : s[Len(a) + i] = x[i]
  <2> HIDE DEF s, t
  <2> QED
    BY <1>0 DEF IsCat
<1>b. IsCat(t, a, y)
  BY CatIs
<1>2. /\ Len(y) \in Nat /\ Len(t) = Len(a) + Len(y)
      /\ \A i \in 1 .. Len(a) : t[i] = a[i]
      /\ \A i \in 1 .. Len(y) : t[Len(a) + i] = y[i]
  <2> HIDE DEF s, t
  <2> QED
    BY <1>b DEF IsCat
<1> HIDE DEF s, t
<1>3. e \in Nat /\ e \in 1 .. Len(s) /\ e \in 1 .. Len(t) /\ s[e] = x[d] /\ t[e] = y[d] /\ x[d] # y[d]
  BY <1>1, <1>2 DEF FirstDiff
<1>4. ASSUME NEW i \in 1 .. e - 1 PROVE s[i] = t[i]
  <2>1. CASE i <= Len(a)
    BY <1>1, <1>2, <2>1
  <2>2. CASE i > Len(a)
    <3>1. PICK j \in 1 .. d - 1 : i = Len(a) + j
      <4>1. i - Len(a) \in 1 .. d - 1 /\ i = Len(a) + (i - Len(a))
        BY <1>1, <2>2
      <4> QED
        BY <4>1
    <3>2. x[j] = y[j] /\ j \in 1 .. Len(x) /\ j \in 1 .. Len(y)
      BY <1>1, <1>2 DEF FirstDiff
    <3> QED
      BY <1>1, <1>2, <3>1, <3>2
  <2> QED
    BY <1>1, <2>1, <2>2
<1> HIDE DEF e
<1>5. FirstDiff(s, t, e)
  BY <1>3, <1>4 DEF FirstDiff
<1> QED
  BY <1>3, <1>5 DEF s, t, e

LEMMA BeginsDiff ==
    ASSUME NEW X, NEW p \in Seq(X), NEW q \in Seq(X), NEW s \in Seq(X), NEW t \in Seq(X),
           NEW d \in Nat, FirstDiff(p, q, d), Begins(p, s), Begins(q, t)
    PROVE  FirstDiff(s, t, d) /\ s[d] = p[d] /\ t[d] = q[d]
<1>1. Len(p) \in Nat /\ Len(q) \in Nat /\ Len(s) \in Nat /\ Len(t) \in Nat
  BY LenProperties
<1>2. d \in 1 .. Len(p) /\ d \in 1 .. Len(q) /\ p[d] # q[d] /\ \A j \in 1 .. d - 1 : p[j] = q[j]
  BY DEF FirstDiff
<1>3. Len(p) <= Len(s) /\ \A j \in 1 .. Len(p) : s[j] = p[j]
  BY DEF Begins
<1>4. Len(q) <= Len(t) /\ \A j \in 1 .. Len(q) : t[j] = q[j]
  BY DEF Begins
<1>5. d \in 1 .. Len(s) /\ d \in 1 .. Len(t) /\ s[d] = p[d] /\ t[d] = q[d]
  BY <1>1, <1>2, <1>3, <1>4
<1>6. ASSUME NEW j \in 1 .. d - 1 PROVE s[j] = t[j]
  <2>1. j \in 1 .. Len(p) /\ j \in 1 .. Len(q)
    BY <1>1, <1>2
  <2>2. s[j] = p[j] /\ t[j] = q[j] /\ p[j] = q[j]
    BY <1>2, <1>3, <1>4, <2>1
  <2> QED
    BY <2>2
<1> QED
  BY <1>2, <1>5, <1>6 DEF FirstDiff

(* What joining the first m sequences gives. *)
Joined(s, m) == FlattenSeq([i \in 1 .. m |-> s[i]])

LEMMA JoinedIs ==
    ASSUME NEW X, NEW n \in Nat, NEW s \in [1 .. n -> Seq(X)]
    PROVE  /\ Joined(s, 0) = <<>>
           /\ \A m \in 0 .. n : Joined(s, m) \in Seq(X)
           /\ \A m \in 0 .. n : m < n => Joined(s, m + 1) = Cat(Joined(s, m), s[m + 1])
           /\ \A m \in 0 .. n : Begins(Joined(s, m), FlattenSeq(s))
           /\ \A m, q \in 0 .. n : m <= q => Begins(Joined(s, m), Joined(s, q))
<1>1. PICK g : Joins(X, s, n, g)
  BY JoinsExist
<1>2. ASSUME NEW m \in 0 .. n PROVE Joined(s, m) = g[m]
  <2> DEFINE t == [i \in 1 .. m |-> s[i]]  h == [i \in 0 .. m |-> g[i]]
  <2>1. t \in [1 .. m -> Seq(X)] /\ m \in Nat
    OBVIOUS
  <2>2. Joins(X, t, m, h)
    BY <1>1 DEF Joins
  <2> HIDE DEF t, h
  <2>3. FlattenSeq(t) = h[m]
    BY <2>1, <2>2, FlattenIs
  <2> QED
    BY <2>3 DEF t, h, Joined
<1>3. FlattenSeq(s) = g[n]
  BY <1>1, FlattenIs
<1>4. \A m \in 0 .. n : g[m] \in Seq(X)
  BY <1>1 DEF Joins
<1>5. \A m \in 0 .. n : m < n => g[m + 1] = Cat(g[m], s[m + 1])
  <2> SUFFICES ASSUME NEW m \in 0 .. n, m < n PROVE g[m + 1] = Cat(g[m], s[m + 1])
    OBVIOUS
  <2>1. m + 1 \in 1 .. n /\ (m + 1) - 1 = m
    OBVIOUS
  <2> QED
    BY <1>1, <2>1 DEF Joins
<1> DEFINE S == {k \in Nat : \A m \in 0 .. n : m + k <= n => Begins(g[m], g[m + k])}
<1>6. 0 \in S
  <2>1. \A m \in 0 .. n : Begins(g[m], g[m]) /\ m + 0 = m
    BY <1>4, BeginsSelf
  <2> QED
    BY <2>1
<1>7. ASSUME NEW k \in Nat, k \in S PROVE k + 1 \in S
  <2> SUFFICES ASSUME NEW m \in 0 .. n, m + k + 1 <= n PROVE Begins(g[m], g[m + k + 1])
    OBVIOUS
  <2>1. Begins(g[m], g[m + k]) /\ m + k \in 0 .. n /\ m + k + 1 \in 1 .. n
    BY <1>7
  <2>2. g[m + k + 1] = Cat(g[m + k], s[m + k + 1]) /\ s[m + k + 1] \in Seq(X)
    BY <1>5, <2>1
  <2>3. g[m] \in Seq(X) /\ g[m + k] \in Seq(X) /\ g[m + k + 1] \in Seq(X)
    BY <1>4, <2>1
  <2>4. Begins(g[m + k], g[m + k + 1])
    BY <2>2, <2>3, CatBegins
  <2> QED
    BY <2>1, <2>3, <2>4, BeginsTrans
<1>8. \A k \in Nat : k \in S
  <2> HIDE DEF S
  <2> QED
    BY <1>6, <1>7, Inductive
<1>a. ASSUME NEW m \in 0 .. n, NEW q \in 0 .. n, m <= q PROVE Begins(g[m], g[q])
  <2>1. q - m \in Nat /\ m + (q - m) = q
    BY <1>a
  <2>2. q - m \in S
    BY <1>8, <2>1
  <2> QED
    BY <2>1, <2>2
<1>9. ASSUME NEW m \in 0 .. n PROVE Begins(g[m], g[n])
  BY <1>a
<1>10. g[0] = <<>>
  BY <1>1 DEF Joins
<1>11. \A m \in 0 .. n : m < n => m + 1 \in 0 .. n
  OBVIOUS
<1>12. ASSUME NEW m \in 0 .. n, m < n PROVE Joined(s, m + 1) = Cat(Joined(s, m), s[m + 1])
  <2>1. Joined(s, m + 1) = g[m + 1] /\ Joined(s, m) = g[m]
    BY <1>2, <1>11, <1>12
  <2> QED
    BY <1>5, <1>12, <2>1
<1>13. Joined(s, 0) = <<>>
  BY <1>2, <1>10
<1>14. \A m \in 0 .. n : Joined(s, m) \in Seq(X) /\ Begins(Joined(s, m), FlattenSeq(s))
  BY <1>2, <1>3, <1>4, <1>9
<1>15. \A m, q \in 0 .. n : m <= q => Begins(Joined(s, m), Joined(s, q))
  BY <1>2, <1>a
<1> QED
  BY <1>12, <1>13, <1>14, <1>15

-------------------------------------------------------------------------------
(* Escaped bytes and segments. *)

EscOf(x) == IF x = NUL THEN <<NUL, ESCAPE>> ELSE <<x>>

Ending == <<NUL, TERMINATOR>>

LEMMA EscOfIs ==
    ASSUME NEW x \in Bytes
    PROVE  /\ EscOf(x) \in Seq(Bytes) /\ EscOf(x)[1] = x
           /\ x = 0 => EscOf(x) = <<0, 255>> /\ Len(EscOf(x)) = 2 /\ EscOf(x)[2] = 255
           /\ x # 0 => EscOf(x) = <<x>> /\ Len(EscOf(x)) = 1
<1>1. 0 \in Bytes /\ 255 \in Bytes
  BY ByteIs
<1>2. CASE x = 0
  <2>1. EscOf(x) = <<0, 255>>
    BY <1>2 DEF EscOf, NUL, ESCAPE
  <2>2. <<0, 255>> \in Seq(Bytes)
    BY <1>1
  <2>3. Len(<<0, 255>>) = 2 /\ <<0, 255>>[1] = 0 /\ <<0, 255>>[2] = 255
    OBVIOUS
  <2> QED
    BY <1>2, <2>1, <2>2, <2>3
<1>3. CASE x # 0
  <2>1. EscOf(x) = <<x>>
    BY <1>3 DEF EscOf, NUL
  <2> QED
    BY <1>3, <2>1
<1> QED
  BY <1>2, <1>3

LEMMA EndingIs == Ending \in Seq(Bytes) /\ Len(Ending) = 2 /\ Ending[1] = 0 /\ Ending[2] = 1
<1>1. 0 \in Bytes /\ 1 \in Bytes
  BY ByteIs
<1>2. Ending = <<0, 1>>
  BY DEF Ending, NUL, TERMINATOR
<1> QED
  BY <1>1, <1>2

Esc(s, m) == Joined([i \in 1 .. Len(s) |-> EscOf(s[i])], m)

LEMMA EscapeIs ==
    ASSUME NEW s \in Seq(Bytes)
    PROVE  /\ Escape(s) = Esc(s, Len(s)) /\ Escape(s) \in Seq(Bytes) /\ Esc(s, 0) = <<>>
           /\ \A m \in 0 .. Len(s) : Esc(s, m) \in Seq(Bytes) /\ Begins(Esc(s, m), Escape(s))
           /\ \A m \in 0 .. Len(s) : m < Len(s) => Esc(s, m + 1) = Cat(Esc(s, m), EscOf(s[m + 1]))
<1> DEFINE n == Len(s)  e == [i \in 1 .. n |-> EscOf(s[i])]
<1>1. n \in Nat /\ DOMAIN s = 1 .. n /\ \A i \in 1 .. n : s[i] \in Bytes
  BY LenProperties, ElementOfSeq
<1>2. e \in [1 .. n -> Seq(Bytes)] /\ \A i \in 1 .. n : e[i] = EscOf(s[i])
  BY <1>1, EscOfIs
<1>3. Escape(s) = FlattenSeq(e)
  <2>1. Escape(s) = FlattenSeq([i \in DOMAIN s |-> EscOf(s[i])])
    BY DEF Escape, EscOf
  <2> QED
    BY <1>1, <2>1
<1>4. [i \in 1 .. n |-> e[i]] = e
  BY <1>2
<1>5. \A m : Esc(s, m) = Joined(e, m)
  BY DEF Esc
<1> HIDE DEF e, n
<1>6. /\ Joined(e, 0) = <<>>
      /\ \A m \in 0 .. n : Joined(e, m) \in Seq(Bytes)
      /\ \A m \in 0 .. n : m < n => Joined(e, m + 1) = Cat(Joined(e, m), e[m + 1])
      /\ \A m \in 0 .. n : Begins(Joined(e, m), FlattenSeq(e))
  BY <1>1, <1>2, JoinedIs
<1>7. Joined(e, n) = Escape(s)
  BY <1>3, <1>4 DEF Joined
<1>8. n \in 0 .. n
  BY <1>1
<1>9. \A m \in 0 .. n : m < n => Esc(s, m + 1) = Cat(Esc(s, m), EscOf(s[m + 1]))
  <2> SUFFICES ASSUME NEW m \in 0 .. n, m < n PROVE Esc(s, m + 1) = Cat(Esc(s, m), EscOf(s[m + 1]))
    OBVIOUS
  <2>1. m + 1 \in 1 .. n
    BY <1>1
  <2>2. e[m + 1] = EscOf(s[m + 1])
    BY <1>2, <2>1
  <2>3. Joined(e, m + 1) = Cat(Joined(e, m), e[m + 1])
    BY <1>6
  <2> QED
    BY <1>5, <2>2, <2>3
<1>10. Escape(s) \in Seq(Bytes) /\ Escape(s) = Esc(s, n)
  BY <1>5, <1>6, <1>7, <1>8
<1>11. \A m \in 0 .. n : Esc(s, m) \in Seq(Bytes) /\ Begins(Esc(s, m), Escape(s))
  BY <1>3, <1>5, <1>6
<1>12. Esc(s, 0) = <<>>
  BY <1>5, <1>6
<1> QED
  BY <1>9, <1>10, <1>11, <1>12 DEF n

LEMMA EscSame ==
    ASSUME NEW s \in Seq(Bytes), NEW t \in Seq(Bytes), NEW m \in Nat,
           m <= Len(s), m <= Len(t), \A i \in 1 .. m : s[i] = t[i]
    PROVE  Esc(s, m) = Esc(t, m)
<1>1. Len(s) \in Nat /\ Len(t) \in Nat
  BY LenProperties
<1> DEFINE e == [i \in 1 .. Len(s) |-> EscOf(s[i])]  f == [i \in 1 .. Len(t) |-> EscOf(t[i])]
<1>2. \A i \in 1 .. m : e[i] = f[i]
  BY <1>1
<1> HIDE DEF e, f
<1>3. [i \in 1 .. m |-> e[i]] = [i \in 1 .. m |-> f[i]]
  BY <1>2
<1> QED
  BY <1>3 DEF Esc, Joined, e, f

(* A segment as it stands before another. *)
Closed(s) == Cat(Escape(s), Ending)

LEMMA ClosedIs ==
    ASSUME NEW s \in Seq(Bytes)
    PROVE  Closed(s) \in Seq(Bytes) /\ Begins(Escape(s), Closed(s))
<1>1. Escape(s) \in Seq(Bytes) /\ Ending \in Seq(Bytes)
  BY EscapeIs, EndingIs
<1> QED
  BY <1>1, CatIs, CatBegins DEF Closed

LEMMA ClosedShorter ==
    ASSUME NEW s \in Seq(Bytes), NEW t \in Seq(Bytes), Begins(s, t), s # t
    PROVE  \E d \in Nat : FirstDiff(Closed(s), Closed(t), d) /\ Closed(s)[d] < Closed(t)[d]
<1> DEFINE m == Len(s)  C == Escape(s)
<1>1. Len(s) \in Nat /\ Len(t) \in Nat /\ m < Len(t)
  <2>1. Len(s) \in Nat /\ Len(t) \in Nat /\ Len(s) <= Len(t)
    BY LenProperties DEF Begins
  <2>2. Len(s) # Len(t)
    BY SeqEqual DEF Begins
  <2> QED
    BY <2>1, <2>2
<1> DEFINE x == t[m + 1]
<1>2. x \in Bytes /\ m + 1 \in 1 .. Len(t) /\ m \in 0 .. Len(t) /\ m + 1 \in 0 .. Len(t)
  BY <1>1, ElementOfSeq
<1>3. Esc(t, m) = C /\ C \in Seq(Bytes)
  <2>1. Esc(s, m) = C /\ C \in Seq(Bytes)
    BY EscapeIs
  <2>2. Esc(s, m) = Esc(t, m)
    BY <1>1, EscSame DEF Begins
  <2> QED
    BY <2>1, <2>2
<1>4. EscOf(x) \in Seq(Bytes)
  BY <1>2, EscOfIs
<1>5. Begins(Cat(C, EscOf(x)), Closed(t)) /\ Closed(t) \in Seq(Bytes) /\ Cat(C, EscOf(x)) \in Seq(Bytes)
  <2>1. Esc(t, m + 1) = Cat(C, EscOf(x)) /\ Esc(t, m + 1) \in Seq(Bytes)
        /\ Begins(Esc(t, m + 1), Escape(t)) /\ Escape(t) \in Seq(Bytes)
    BY <1>1, <1>2, <1>3, EscapeIs
  <2>2. Closed(t) \in Seq(Bytes) /\ Begins(Escape(t), Closed(t))
    BY ClosedIs
  <2> QED
    BY <2>1, <2>2, BeginsTrans
<1>6. Closed(s) = Cat(C, Ending) /\ Closed(s) \in Seq(Bytes) /\ Begins(Closed(s), Closed(s))
  BY ClosedIs, BeginsSelf DEF Closed
<1> HIDE DEF C, x, m
<1>7. \E e \in Nat : FirstDiff(Ending, EscOf(x), e) /\ Ending[e] < EscOf(x)[e]
  <2>0. /\ EscOf(x)[1] = x /\ (x = 0 => Len(EscOf(x)) = 2 /\ EscOf(x)[2] = 255)
        /\ (x # 0 => Len(EscOf(x)) = 1) /\ x \in Nat
    BY <1>2, EscOfIs, ByteIs
  <2>1. CASE x = 0
    <3>1. FirstDiff(Ending, EscOf(x), 2)
      BY <2>0, <2>1, EndingIs DEF FirstDiff
    <3> QED
      BY <2>0, <2>1, <3>1, EndingIs
  <2>2. CASE x # 0
    <3>0. Len(Ending) = 2 /\ Ending[1] = 0 /\ Len(EscOf(x)) = 1 /\ EscOf(x)[1] = x
      BY <2>0, <2>2, EndingIs
    <3>1. FirstDiff(Ending, EscOf(x), 1)
      BY <2>2, <3>0 DEF FirstDiff
    <3> QED
      BY <2>0, <2>2, <3>1, EndingIs
  <2> QED
    BY <2>1, <2>2
<1>8. PICK e \in Nat : FirstDiff(Ending, EscOf(x), e) /\ Ending[e] < EscOf(x)[e]
  BY <1>7
<1> DEFINE d == Len(C) + e
<1>9. d \in Nat /\ FirstDiff(Cat(C, Ending), Cat(C, EscOf(x)), d)
      /\ Cat(C, Ending)[d] = Ending[e] /\ Cat(C, EscOf(x))[d] = EscOf(x)[e]
  BY <1>3, <1>4, <1>8, EndingIs, ShiftDiff
<1> HIDE DEF d
<1>10. FirstDiff(Closed(s), Closed(t), d) /\ Closed(s)[d] = Ending[e] /\ Closed(t)[d] = EscOf(x)[e]
  BY <1>5, <1>6, <1>9, BeginsDiff
<1> QED
  BY <1>8, <1>9, <1>10

(* Closed segments differ before either ends, and compare as the segments do. *)
LEMMA ClosedDiff ==
    ASSUME NEW s \in Seq(Bytes), NEW t \in Seq(Bytes), s # t
    PROVE  \E d \in Nat : /\ FirstDiff(Closed(s), Closed(t), d)
                          /\ Closed(s)[d] < Closed(t)[d] <=> BytesBelow(s, t)
<1>0. Closed(s) \in Seq(Bytes) /\ Closed(t) \in Seq(Bytes)
  BY ClosedIs
<1>1. CASE Begins(s, t)
  <2>1. BytesBelow(s, t)
    BY <1>1, BelowBegins
  <2> QED
    BY <1>1, <2>1, ClosedShorter
<1>2. CASE Begins(t, s)
  <2>1. ~BytesBelow(s, t)
    BY <1>2, BelowBegins
  <2>2. PICK d \in Nat : FirstDiff(Closed(t), Closed(s), d) /\ Closed(t)[d] < Closed(s)[d]
    BY <1>2, ClosedShorter
  <2>3. FirstDiff(Closed(s), Closed(t), d)
    BY <2>2, DiffSwaps
  <2>4. d \in 1 .. Len(Closed(s)) /\ d \in 1 .. Len(Closed(t))
    BY <2>3 DEF FirstDiff
  <2>5. Closed(s)[d] \in Nat /\ Closed(t)[d] \in Nat
    BY <1>0, <2>4, StringIs
  <2>6. ~(Closed(s)[d] < Closed(t)[d])
    BY <2>2, <2>5
  <2> QED
    BY <2>1, <2>3, <2>6
<1>3. ASSUME NEW j \in Nat, FirstDiff(s, t, j)
      PROVE  \E d \in Nat : /\ FirstDiff(Closed(s), Closed(t), d)
                            /\ Closed(s)[d] < Closed(t)[d] <=> BytesBelow(s, t)
  <2>0. Len(s) \in Nat /\ Len(t) \in Nat /\ j \in 1 .. Len(s) /\ j \in 1 .. Len(t) /\ s[j] # t[j]
        /\ \A i \in 1 .. j - 1 : s[i] = t[i]
    BY <1>3, LenProperties DEF FirstDiff
  <2> DEFINE m == j - 1  C == Esc(s, m)  x == s[j]  y == t[j]
  <2>1. m \in Nat /\ m \in 0 .. Len(s) /\ m \in 0 .. Len(t) /\ m + 1 = j /\ m < Len(s) /\ m < Len(t)
        /\ j \in 0 .. Len(s) /\ j \in 0 .. Len(t)
    BY <2>0
  <2>2. x \in Bytes /\ y \in Bytes /\ x # y
    BY <2>0, ElementOfSeq
  <2>3. C \in Seq(Bytes) /\ C = Esc(t, m)
    <3>1. C \in Seq(Bytes)
      BY <2>1, EscapeIs
    <3>2. C = Esc(t, m)
      BY <2>0, <2>1, EscSame
    <3> QED
      BY <3>1, <3>2
  <2>4. EscOf(x) \in Seq(Bytes) /\ EscOf(y) \in Seq(Bytes)
    BY <2>2, EscOfIs
  <2>5. Begins(Cat(C, EscOf(x)), Closed(s)) /\ Cat(C, EscOf(x)) \in Seq(Bytes)
    <3>1. Esc(s, j) = Cat(C, EscOf(x)) /\ Esc(s, j) \in Seq(Bytes)
          /\ Begins(Esc(s, j), Escape(s)) /\ Escape(s) \in Seq(Bytes)
      BY <2>1, EscapeIs
    <3>2. Begins(Escape(s), Closed(s))
      BY ClosedIs
    <3> QED
      BY <1>0, <3>1, <3>2, BeginsTrans
  <2>6. Begins(Cat(C, EscOf(y)), Closed(t)) /\ Cat(C, EscOf(y)) \in Seq(Bytes)
    <3>1. Esc(t, j) = Cat(C, EscOf(y)) /\ Esc(t, j) \in Seq(Bytes)
          /\ Begins(Esc(t, j), Escape(t)) /\ Escape(t) \in Seq(Bytes)
      BY <2>1, <2>3, EscapeIs
    <3>2. Begins(Escape(t), Closed(t))
      BY ClosedIs
    <3> QED
      BY <1>0, <3>1, <3>2, BeginsTrans
  <2> HIDE DEF m, C, x, y
  <2>7. FirstDiff(EscOf(x), EscOf(y), 1) /\ EscOf(x)[1] = x /\ EscOf(y)[1] = y
    <3>1. EscOf(x)[1] = x /\ EscOf(y)[1] = y /\ Len(EscOf(x)) \in {1, 2} /\ Len(EscOf(y)) \in {1, 2}
      BY <2>2, EscOfIs
    <3> QED
      BY <2>2, <3>1 DEF FirstDiff
  <2> DEFINE d == Len(C) + 1
  <2>8. d \in Nat /\ FirstDiff(Cat(C, EscOf(x)), Cat(C, EscOf(y)), d)
        /\ Cat(C, EscOf(x))[d] = x /\ Cat(C, EscOf(y))[d] = y
    BY <2>3, <2>4, <2>7, ShiftDiff
  <2> HIDE DEF d
  <2>9. FirstDiff(Closed(s), Closed(t), d) /\ Closed(s)[d] = x /\ Closed(t)[d] = y
    BY <1>0, <2>5, <2>6, <2>8, BeginsDiff
  <2>10. BytesBelow(s, t) <=> x < y
    BY <1>3, BelowAt DEF x, y
  <2> QED
    BY <2>8, <2>9, <2>10
<1> QED
  BY <1>1, <1>2, <1>3, Compared

-------------------------------------------------------------------------------
(* Encoded keys. *)

Segments == Seq(Seq(Bytes))

Term(segs, m) == Joined([i \in 1 .. Len(segs) |-> Closed(segs[i])], m)

LEMMA TermIs ==
    ASSUME NEW segs \in Segments
    PROVE  /\ Len(segs) \in Nat
           /\ Terminated(segs) = Term(segs, Len(segs)) /\ Term(segs, 0) = <<>>
           /\ \A m \in 0 .. Len(segs) : Term(segs, m) \in Seq(Bytes)
           /\ \A m, q \in 0 .. Len(segs) : m <= q => Begins(Term(segs, m), Term(segs, q))
           /\ \A m \in 0 .. Len(segs) : m < Len(segs) =>
                 Term(segs, m + 1) = Cat(Term(segs, m), Closed(segs[m + 1]))
<1> DEFINE n == Len(segs)  e == [i \in 1 .. n |-> Closed(segs[i])]
<1>1. n \in Nat /\ DOMAIN segs = 1 .. n /\ \A i \in 1 .. n : segs[i] \in Seq(Bytes)
  BY LenProperties, ElementOfSeq DEF Segments
<1>2. e \in [1 .. n -> Seq(Bytes)] /\ \A i \in 1 .. n : e[i] = Closed(segs[i])
  BY <1>1, ClosedIs
<1>3. Terminated(segs) = FlattenSeq(e)
  <2>1. Terminated(segs) = FlattenSeq([i \in DOMAIN segs |-> Closed(segs[i])])
    BY DEF Terminated, Closed, Cat, Ending
  <2> QED
    BY <1>1, <2>1
<1>4. [i \in 1 .. n |-> e[i]] = e
  BY <1>2
<1>5. \A m : Term(segs, m) = Joined(e, m)
  BY DEF Term
<1> HIDE DEF e, n
<1>6. /\ Joined(e, 0) = <<>>
      /\ \A m \in 0 .. n : Joined(e, m) \in Seq(Bytes)
      /\ \A m \in 0 .. n : m < n => Joined(e, m + 1) = Cat(Joined(e, m), e[m + 1])
      /\ \A m, q \in 0 .. n : m <= q => Begins(Joined(e, m), Joined(e, q))
  BY <1>1, <1>2, JoinedIs
<1>7. Joined(e, n) = Terminated(segs)
  BY <1>3, <1>4 DEF Joined
<1>9. ASSUME NEW m \in 0 .. n, m < n PROVE Term(segs, m + 1) = Cat(Term(segs, m), Closed(segs[m + 1]))
  <2>1. m + 1 \in 1 .. n
    BY <1>1, <1>9
  <2>2. e[m + 1] = Closed(segs[m + 1])
    BY <1>2, <2>1
  <2>3. Joined(e, m + 1) = Cat(Joined(e, m), e[m + 1])
    BY <1>6, <1>9
  <2> QED
    BY <1>5, <2>2, <2>3
<1>10. Terminated(segs) = Term(segs, n) /\ Term(segs, 0) = <<>>
  BY <1>5, <1>6, <1>7
<1>11. \A m \in 0 .. n : Term(segs, m) \in Seq(Bytes)
  BY <1>5, <1>6
<1>12. \A m, q \in 0 .. n : m <= q => Begins(Term(segs, m), Term(segs, q))
  BY <1>5, <1>6
<1> QED
  BY <1>1, <1>9, <1>10, <1>11, <1>12 DEF n

LEMMA TermSame ==
    ASSUME NEW s \in Segments, NEW t \in Segments, NEW m \in Nat,
           m <= Len(s), m <= Len(t), \A i \in 1 .. m : s[i] = t[i]
    PROVE  Term(s, m) = Term(t, m)
<1>1. Len(s) \in Nat /\ Len(t) \in Nat
  BY LenProperties DEF Segments
<1> DEFINE e == [i \in 1 .. Len(s) |-> Closed(s[i])]  f == [i \in 1 .. Len(t) |-> Closed(t[i])]
<1>2. \A i \in 1 .. m : e[i] = f[i]
  BY <1>1
<1> HIDE DEF e, f
<1>3. [i \in 1 .. m |-> e[i]] = [i \in 1 .. m |-> f[i]]
  BY <1>2
<1> QED
  BY <1>3 DEF Term, Joined, e, f

(* The first m segments by themselves. *)
LEMMA FirstSegments ==
    ASSUME NEW segs \in Segments, NEW m \in Nat, m <= Len(segs)
    PROVE  /\ SubSeq(segs, 1, m) \in Segments /\ Len(SubSeq(segs, 1, m)) = m
           /\ \A i \in 1 .. m : SubSeq(segs, 1, m)[i] = segs[i]
           /\ Terminated(SubSeq(segs, 1, m)) = Term(segs, m)
<1> DEFINE f == SubSeq(segs, 1, m)
<1>1. Len(segs) \in Nat /\ \A i \in 1 .. m : segs[i] \in Seq(Bytes)
  BY LenProperties, ElementOfSeq DEF Segments
<1>2. /\ f \in Seq(Seq(Bytes)) /\ Len(f) = IF 1 <= m THEN m - 1 + 1 ELSE 0
      /\ \A i \in 1 .. m - 1 + 1 : f[i] = segs[1 + i - 1]
  BY <1>1, SubSeqProperties
<1> HIDE DEF f
<1>3. f \in Segments /\ Len(f) = m /\ \A i \in 1 .. m : f[i] = segs[i]
  BY <1>1, <1>2 DEF Segments
<1>4. Terminated(f) = Term(f, m)
  BY <1>3, TermIs
<1>5. Term(f, m) = Term(segs, m)
  BY <1>3, TermSame
<1> QED
  BY <1>3, <1>4, <1>5 DEF f

(* A kind's prefix: a slash, a letter and a second letter, or 47 for none. *)
IsForm(p, x, y) ==
    /\ p \in Seq(Bytes) /\ Len(p) \in {3, 4} /\ p[1] = 47 /\ p[2] = x /\ p[3] = y

LEMMA FormOf ==
    ASSUME NEW x \in Nat, NEW y \in Nat, x <= 255, y <= 255,
           NEW p, p = <<47, x, y>> \/ p = <<47, x, y, 47>>
    PROVE  IsForm(p, x, y)
<1>1. x \in Bytes /\ y \in Bytes /\ 47 \in Bytes
  BY ByteIs
<1>2. <<47, x, y>> \in Seq(Bytes) /\ <<47, x, y, 47>> \in Seq(Bytes)
  BY <1>1
<1>3. CASE p = <<47, x, y>>
  BY <1>2, <1>3 DEF IsForm
<1>4. CASE p = <<47, x, y, 47>>
  BY <1>2, <1>4 DEF IsForm
<1> QED
  BY <1>3, <1>4

LEMMA PrefixForms ==
    /\ Kinds = {"Metadata", "Node", "NodeIndex", "Edge", "EdgeFrom", "EdgeTo",
                "PropertyIndex", "FulltextIndex", "VectorIndex", "Schema", "Transaction"}
    /\ IsForm(Prefix["Metadata"], 109, 47)
    /\ IsForm(Prefix["Node"], 110, 47)
    /\ IsForm(Prefix["NodeIndex"], 105, 47)
    /\ IsForm(Prefix["Edge"], 101, 47)
    /\ IsForm(Prefix["EdgeFrom"], 101, 102)
    /\ IsForm(Prefix["EdgeTo"], 101, 116)
    /\ IsForm(Prefix["PropertyIndex"], 112, 47)
    /\ IsForm(Prefix["FulltextIndex"], 102, 116)
    /\ IsForm(Prefix["VectorIndex"], 118, 47)
    /\ IsForm(Prefix["Schema"], 115, 47)
    /\ IsForm(Prefix["Transaction"], 120, 47)
<1>1. Kinds = {"Metadata", "Node", "NodeIndex", "Edge", "EdgeFrom", "EdgeTo",
               "PropertyIndex", "FulltextIndex", "VectorIndex", "Schema", "Transaction"}
  BY DEF Kinds, Prefix
<1>2. IsForm(Prefix["Metadata"], 109, 47)
  <2>1. Prefix["Metadata"] = <<47, 109, 47>>
    BY DEF Prefix
  <2> QED
    BY <2>1, FormOf
<1>3. IsForm(Prefix["Node"], 110, 47)
  <2>1. Prefix["Node"] = <<47, 110, 47>>
    BY DEF Prefix
  <2> QED
    BY <2>1, FormOf
<1>4. IsForm(Prefix["NodeIndex"], 105, 47)
  <2>1. Prefix["NodeIndex"] = <<47, 105, 47>>
    BY DEF Prefix
  <2> QED
    BY <2>1, FormOf
<1>5. IsForm(Prefix["Edge"], 101, 47)
  <2>1. Prefix["Edge"] = <<47, 101, 47>>
    BY DEF Prefix
  <2> QED
    BY <2>1, FormOf
<1>6. IsForm(Prefix["EdgeFrom"], 101, 102)
  <2>1. Prefix["EdgeFrom"] = <<47, 101, 102, 47>>
    BY DEF Prefix
  <2> QED
    BY <2>1, FormOf
<1>7. IsForm(Prefix["EdgeTo"], 101, 116)
  <2>1. Prefix["EdgeTo"] = <<47, 101, 116, 47>>
    BY DEF Prefix
  <2> QED
    BY <2>1, FormOf
<1>8. IsForm(Prefix["PropertyIndex"], 112, 47)
  <2>1. Prefix["PropertyIndex"] = <<47, 112, 47>>
    BY DEF Prefix
  <2> QED
    BY <2>1, FormOf
<1>9. IsForm(Prefix["FulltextIndex"], 102, 116)
  <2>1. Prefix["FulltextIndex"] = <<47, 102, 116, 47>>
    BY DEF Prefix
  <2> QED
    BY <2>1, FormOf
<1>10. IsForm(Prefix["VectorIndex"], 118, 47)
  <2>1. Prefix["VectorIndex"] = <<47, 118, 47>>
    BY DEF Prefix
  <2> QED
    BY <2>1, FormOf
<1>11. IsForm(Prefix["Schema"], 115, 47)
  <2>1. Prefix["Schema"] = <<47, 115, 47>>
    BY DEF Prefix
  <2> QED
    BY <2>1, FormOf
<1>12. IsForm(Prefix["Transaction"], 120, 47)
  <2>1. Prefix["Transaction"] = <<47, 120, 47>>
    BY DEF Prefix
  <2> QED
    BY <2>1, FormOf
<1> QED
  BY <1>1, <1>2, <1>3, <1>4, <1>5, <1>6, <1>7, <1>8, <1>9, <1>10, <1>11, <1>12

LEMMA PrefixesDiffer ==
    ASSUME NEW k \in Kinds, NEW l \in Kinds, k # l
    PROVE  /\ Prefix[k] \in Seq(Bytes) /\ Prefix[l] \in Seq(Bytes)
           /\ \E d \in Nat : FirstDiff(Prefix[k], Prefix[l], d)
<1> DEFINE p == Prefix[k]  q == Prefix[l]
<1>0. \A z \in Kinds : \E x, y : IsForm(Prefix[z], x, y)
  BY PrefixForms
<1>1. p \in Seq(Bytes) /\ Len(p) \in {3, 4} /\ p[1] = 47
  BY <1>0 DEF IsForm
<1>2. q \in Seq(Bytes) /\ Len(q) \in {3, 4} /\ q[1] = 47
  BY <1>0 DEF IsForm
<1>3. p[2] # q[2] \/ p[3] # q[3]
  <2>1. \A z, x, y : IsForm(z, x, y) => z[2] = x /\ z[3] = y
    BY DEF IsForm
  <2> QED
    BY <2>1, PrefixForms, SMTT(60)
<1> HIDE DEF p, q
<1>4. CASE p[2] # q[2]
  <2>1. FirstDiff(p, q, 2)
    BY <1>1, <1>2, <1>4 DEF FirstDiff
  <2> QED
    BY <1>1, <1>2, <2>1 DEF p, q
<1>5. CASE p[2] = q[2] /\ p[3] # q[3]
  <2>1. FirstDiff(p, q, 3)
    BY <1>1, <1>2, <1>5 DEF FirstDiff
  <2> QED
    BY <1>1, <1>2, <2>1 DEF p, q
<1> QED
  BY <1>3, <1>4, <1>5

KeyOK(k) ==
    /\ k.kind \in Kinds /\ k.segs \in Segments /\ Heads(k.kind) \in Nat
    /\ Len(k.segs) = Heads(k.kind) + 1 /\ k = [kind |-> k.kind, segs |-> k.segs]

HeadPart(k, m) == Cat(Prefix[k.kind], Term(k.segs, m))

LEMMA HeadsType == \A x : Heads(x) \in Nat
  BY DEF Heads

LEMMA KindPrefix == \A k \in Kinds : Prefix[k] \in Seq(Bytes)
<1>1. \A z \in Kinds : \E x, y : IsForm(Prefix[z], x, y)
  BY PrefixForms
<1> QED
  BY <1>1 DEF IsForm

LEMMA EncodeIs ==
    ASSUME NEW k, KeyOK(k), NEW n, n = Heads(k.kind)
    PROVE  /\ n \in Nat /\ Len(k.segs) = n + 1 /\ \A i \in 1 .. n + 1 : k.segs[i] \in Seq(Bytes)
           /\ Encode(k) = Cat(HeadPart(k, n), k.segs[n + 1]) /\ Encode(k) \in Seq(Bytes)
           /\ \A m \in 0 .. n : HeadPart(k, m) \in Seq(Bytes)
           /\ \A m \in 0 .. n : Begins(HeadPart(k, m), Encode(k))
           /\ \A m, q \in 0 .. n : m <= q => Begins(HeadPart(k, m), HeadPart(k, q))
           /\ \A m \in 0 .. n : m < n => HeadPart(k, m + 1) = Cat(HeadPart(k, m), Closed(k.segs[m + 1]))
           /\ \A m \in 0 .. n : ScanPrefix(k.kind, SubSeq(k.segs, 1, m)) = HeadPart(k, m)
<1> DEFINE s == k.segs  P == Prefix[k.kind]
<1>1. n \in Nat /\ s \in Segments /\ Len(s) = n + 1 /\ P \in Seq(Bytes)
  BY KindPrefix DEF KeyOK
<1>2. \A i \in 1 .. n + 1 : s[i] \in Seq(Bytes)
  BY <1>1, ElementOfSeq DEF Segments
<1>3. /\ \A m \in 0 .. n + 1 : Term(s, m) \in Seq(Bytes)
      /\ \A m, q \in 0 .. n + 1 : m <= q => Begins(Term(s, m), Term(s, q))
      /\ \A m \in 0 .. n + 1 : m < n + 1 => Term(s, m + 1) = Cat(Term(s, m), Closed(s[m + 1]))
  BY <1>1, TermIs
<1>4. \A m \in 0 .. n : HeadPart(k, m) = Cat(P, Term(s, m))
  BY DEF HeadPart
<1> HIDE DEF s, P
<1>5. \A m \in 0 .. n : m \in 0 .. n + 1 /\ m \in Nat /\ m <= Len(s)
  BY <1>1
<1>6. \A m \in 0 .. n : HeadPart(k, m) \in Seq(Bytes)
  BY <1>1, <1>3, <1>4, <1>5, CatIs
<1>7. ASSUME NEW m \in 0 .. n, NEW q \in 0 .. n, m <= q
      PROVE  Begins(HeadPart(k, m), HeadPart(k, q))
  <2>1. Begins(Term(s, m), Term(s, q)) /\ Term(s, m) \in Seq(Bytes) /\ Term(s, q) \in Seq(Bytes)
    BY <1>3, <1>5, <1>7
  <2>2. Begins(Cat(P, Term(s, m)), Cat(P, Term(s, q)))
    BY <1>1, <2>1, ShiftBegins
  <2> QED
    BY <1>4, <2>2
<1>8. ASSUME NEW m \in 0 .. n, m < n PROVE HeadPart(k, m + 1) = Cat(HeadPart(k, m), Closed(s[m + 1]))
  <2>1. m + 1 \in 0 .. n /\ m + 1 \in 1 .. n + 1
    BY <1>1, <1>8
  <2>0. m \in 0 .. n + 1 /\ m < n + 1
    BY <1>1, <1>8
  <2>2. Term(s, m + 1) = Cat(Term(s, m), Closed(s[m + 1])) /\ Term(s, m) \in Seq(Bytes)
    BY <1>3, <2>0
  <2>3. Closed(s[m + 1]) \in Seq(Bytes)
    BY <1>2, <2>1, ClosedIs
  <2>4. Cat(Cat(P, Term(s, m)), Closed(s[m + 1])) = Cat(P, Cat(Term(s, m), Closed(s[m + 1])))
    BY <1>1, <2>2, <2>3, CatAssoc
  <2> QED
    BY <1>4, <2>1, <2>2, <2>4
<1>9. ASSUME NEW m \in 0 .. n PROVE ScanPrefix(k.kind, SubSeq(s, 1, m)) = HeadPart(k, m)
  <2>1. Terminated(SubSeq(s, 1, m)) = Term(s, m)
    BY <1>1, <1>5, FirstSegments
  <2> QED
    BY <1>4, <2>1 DEF ScanPrefix, Cat, P
<1>10. n \in 0 .. n /\ n + 1 \in 1 .. n + 1
  BY <1>1
<1>11. Encode(k) = Cat(HeadPart(k, n), s[n + 1])
  <2>1. Front(s) = SubSeq(s, 1, n) /\ Last(s) = s[n + 1]
    <3>1. Len(s) - 1 = n
      BY <1>1
    <3> QED
      BY <1>1, <3>1 DEF Front, Last
  <2>2. Encode(k) = Cat(ScanPrefix(k.kind, SubSeq(s, 1, n)), s[n + 1])
    BY <2>1 DEF Encode, ScanPrefix, Cat, s
  <2> QED
    BY <1>9, <1>10, <2>2
<1>12. Encode(k) \in Seq(Bytes) /\ Begins(HeadPart(k, n), Encode(k))
  <2>1. HeadPart(k, n) \in Seq(Bytes) /\ s[n + 1] \in Seq(Bytes)
    BY <1>2, <1>6, <1>10
  <2> QED
    BY <1>11, <2>1, CatIs, CatBegins
<1>13. ASSUME NEW m \in 0 .. n PROVE Begins(HeadPart(k, m), Encode(k))
  <2>1. Begins(HeadPart(k, m), HeadPart(k, n)) /\ HeadPart(k, m) \in Seq(Bytes) /\ HeadPart(k, n) \in Seq(Bytes)
    BY <1>1, <1>6, <1>7, <1>10
  <2> QED
    BY <1>12, <2>1, BeginsTrans
<1>14. \A m \in 0 .. n : m < n => HeadPart(k, m + 1) = Cat(HeadPart(k, m), Closed(s[m + 1]))
  BY <1>8
<1> QED
  BY <1>1, <1>2, <1>6, <1>7, <1>9, <1>11, <1>12, <1>13, <1>14 DEF s

LEMMA HeadSame ==
    ASSUME NEW k, NEW l, KeyOK(k), KeyOK(l), k.kind = l.kind, NEW m \in 0 .. Heads(k.kind),
           \A j \in 1 .. m : k.segs[j] = l.segs[j]
    PROVE  HeadPart(k, m) = HeadPart(l, m)
<1>1. m \in Nat /\ m <= Len(k.segs) /\ m <= Len(l.segs) /\ k.segs \in Segments /\ l.segs \in Segments
  BY DEF KeyOK
<1>2. Term(k.segs, m) = Term(l.segs, m)
  BY <1>1, TermSame
<1> QED
  BY <1>2 DEF HeadPart

(* Two keys of a kind whose heads differ first at the i-th segment. *)
LEMMA HeadDiff ==
    ASSUME NEW k, NEW l, KeyOK(k), KeyOK(l), k.kind = l.kind, NEW i \in 1 .. Heads(k.kind),
           k.segs[i] # l.segs[i], \A j \in 1 .. i - 1 : k.segs[j] = l.segs[j]
    PROVE  \E d \in Nat : /\ FirstDiff(HeadPart(k, i), HeadPart(l, i), d)
                          /\ HeadPart(k, i)[d] < HeadPart(l, i)[d] <=> BytesBelow(k.segs[i], l.segs[i])
<1> DEFINE n == Heads(k.kind)  s == k.segs[i]  t == l.segs[i]  m == i - 1  C == HeadPart(k, m)
<1>0. n \in Nat /\ i \in 1 .. n + 1 /\ m \in 0 .. n /\ m < n /\ m + 1 = i
  BY DEF KeyOK
<1>1. s \in Seq(Bytes) /\ C \in Seq(Bytes) /\ HeadPart(k, i) = Cat(C, Closed(s))
  BY <1>0, EncodeIs
<1>2. t \in Seq(Bytes) /\ HeadPart(l, i) = Cat(HeadPart(l, m), Closed(t))
  BY <1>0, EncodeIs
<1>3. HeadPart(l, m) = C
  BY <1>0, HeadSame
<1> HIDE DEF C, m, n
<1>4. PICK e \in Nat : FirstDiff(Closed(s), Closed(t), e) /\ (Closed(s)[e] < Closed(t)[e] <=> BytesBelow(s, t))
  BY <1>1, <1>2, ClosedDiff
<1>5. Closed(s) \in Seq(Bytes) /\ Closed(t) \in Seq(Bytes)
  BY <1>1, <1>2, ClosedIs
<1> DEFINE x == Closed(s)  y == Closed(t)
<1> HIDE DEF x, y
<1>6. /\ Len(C) + e \in Nat /\ FirstDiff(Cat(C, x), Cat(C, y), Len(C) + e)
      /\ Cat(C, x)[Len(C) + e] = x[e] /\ Cat(C, y)[Len(C) + e] = y[e]
  BY <1>1, <1>4, <1>5, ShiftDiff DEF x, y
<1> QED
  BY <1>1, <1>2, <1>3, <1>4, <1>6 DEF x, y

LEMMA CatBelow ==
    ASSUME NEW C \in Seq(Bytes), NEW s \in Seq(Bytes), NEW t \in Seq(Bytes)
    PROVE  BytesBelow(Cat(C, s), Cat(C, t)) <=> BytesBelow(s, t)
<1>0. Cat(C, s) \in Seq(Bytes) /\ Cat(C, t) \in Seq(Bytes)
  BY CatIs
<1>1. CASE s = t
  <2>1. ~BytesBelow(s, s) /\ ~BytesBelow(Cat(C, s), Cat(C, s))
    BY <1>0, BeginsSelf, BelowBegins
  <2> QED
    BY <1>1, <2>1
<1>2. ASSUME s # t PROVE Cat(C, s) # Cat(C, t)
  <2>1. ASSUME Cat(C, s) = Cat(C, t) PROVE s = t
    <3>1. IsCat(Cat(C, s), C, s)
      BY CatIs
    <3>2. IsCat(Cat(C, s), C, t)
      BY <2>1, CatIs
    <3>3. Len(s) = Len(t) /\ \A i \in 1 .. Len(s) : s[i] = t[i]
      BY <3>1, <3>2 DEF IsCat
    <3> QED
      BY <3>3, SeqEqual
  <2> QED
    BY <1>2, <2>1
<1>3. CASE s # t /\ Begins(s, t)
  <2>1. Begins(Cat(C, s), Cat(C, t))
    BY <1>3, ShiftBegins
  <2> QED
    BY <1>0, <1>2, <1>3, <2>1, BelowBegins
<1>4. CASE s # t /\ Begins(t, s)
  <2>1. Begins(Cat(C, t), Cat(C, s))
    BY <1>4, ShiftBegins
  <2> QED
    BY <1>0, <1>2, <1>4, <2>1, BelowBegins
<1>5. ASSUME NEW d \in Nat, FirstDiff(s, t, d) PROVE BytesBelow(Cat(C, s), Cat(C, t)) <=> BytesBelow(s, t)
  <2>1. /\ Len(C) + d \in Nat /\ FirstDiff(Cat(C, s), Cat(C, t), Len(C) + d)
        /\ Cat(C, s)[Len(C) + d] = s[d] /\ Cat(C, t)[Len(C) + d] = t[d]
    BY <1>5, ShiftDiff
  <2>2. BytesBelow(s, t) <=> s[d] < t[d]
    BY <1>5, BelowAt
  <2>3. BytesBelow(Cat(C, s), Cat(C, t)) <=> Cat(C, s)[Len(C) + d] < Cat(C, t)[Len(C) + d]
    BY <1>0, <2>1, BelowAt
  <2> QED
    BY <2>1, <2>2, <2>3
<1> QED
  BY <1>1, <1>3, <1>4, <1>5, Compared

(* The first segment two keys of a kind differ in, if any. *)
LEMMA SegmentsCompared ==
    ASSUME NEW k, NEW l, KeyOK(k), KeyOK(l), k.kind = l.kind, NEW n \in 0 .. Heads(k.kind) + 1
    PROVE  \/ \A j \in 1 .. n : k.segs[j] = l.segs[j]
           \/ \E i \in 1 .. n : k.segs[i] # l.segs[i] /\ \A j \in 1 .. i - 1 : k.segs[j] = l.segs[j]
<1> DEFINE D == {i \in Nat : i \in 1 .. n /\ k.segs[i] # l.segs[i]}
<1>0. n \in Nat
  BY DEF KeyOK
<1>1. CASE D = {}
  BY <1>0, <1>1
<1>2. CASE D # {}
  <2>1. PICK i \in Nat : i = Min(D) /\ i \in D /\ \A y \in D : i <= y
    BY <1>2, MinNat
  <2>2. i \in 1 .. n /\ k.segs[i] # l.segs[i]
    BY <2>1
  <2>3. ASSUME NEW j \in 1 .. i - 1 PROVE k.segs[j] = l.segs[j]
    <3>1. j \in Nat /\ j \in 1 .. n /\ ~(i <= j)
      BY <1>0, <2>2
    <3>2. j \notin D
      BY <2>1, <3>1
    <3> QED
      BY <3>1, <3>2
  <2> QED
    BY <2>2, <2>3
<1> QED
  BY <1>1, <1>2

LEMMA SegmentsBelowAt ==
    ASSUME NEW k, NEW l, KeyOK(k), KeyOK(l), k.kind = l.kind, NEW i \in 1 .. Heads(k.kind) + 1,
           k.segs[i] # l.segs[i], \A j \in 1 .. i - 1 : k.segs[j] = l.segs[j]
    PROVE  SegmentsBelow(k.segs, l.segs) <=> BytesBelow(k.segs[i], l.segs[i])
<1> DEFINE s == k.segs  t == l.segs  n == Heads(k.kind) + 1
<1>1. n \in Nat /\ DOMAIN s = 1 .. n /\ \A j \in 1 .. n : s[j] \in Seq(Bytes)
  BY LenProperties, ElementOfSeq DEF KeyOK, Segments
<1> HIDE DEF s, t, n
<1>2. \A j \in 1 .. n : s[j] = t[j] => ~BytesBelow(s[j], t[j])
  BY <1>1, BeginsSelf, BelowBegins
<1>3. s[i] # t[i] /\ (\A j \in 1 .. i - 1 : s[j] = t[j]) /\ i \in 1 .. n
  BY DEF s, t, n
<1>4. ASSUME NEW j \in 1 .. n, BytesBelow(s[j], t[j]), \A x \in 1 .. j - 1 : s[x] = t[x] PROVE j = i
  BY <1>1, <1>2, <1>3, <1>4
<1>5. SegmentsBelow(s, t) <=> BytesBelow(s[i], t[i])
  BY <1>1, <1>3, <1>4 DEF SegmentsBelow
<1> QED
  BY <1>5 DEF s, t

(* Keys of a kind compare as their segments do. *)
LEMMA KeysOrdered ==
    ASSUME NEW k, NEW l, KeyOK(k), KeyOK(l), k.kind = l.kind
    PROVE  BytesBelow(Encode(k), Encode(l)) <=> SegmentsBelow(k.segs, l.segs)
<1> DEFINE n == Heads(k.kind)
<1>1. /\ n \in Nat /\ n \in 0 .. n /\ n + 1 \in 0 .. n + 1 /\ n + 1 \in 1 .. n + 1
  BY DEF KeyOK
<1>2. /\ Encode(k) = Cat(HeadPart(k, n), k.segs[n + 1]) /\ Encode(k) \in Seq(Bytes)
      /\ HeadPart(k, n) \in Seq(Bytes) /\ k.segs[n + 1] \in Seq(Bytes) /\ Len(k.segs) = n + 1
      /\ \A m \in 0 .. n : Begins(HeadPart(k, m), Encode(k)) /\ HeadPart(k, m) \in Seq(Bytes)
      /\ \A j \in 1 .. n + 1 : k.segs[j] \in Seq(Bytes)
  BY <1>1, EncodeIs
<1>3. /\ Encode(l) = Cat(HeadPart(l, n), l.segs[n + 1]) /\ Encode(l) \in Seq(Bytes)
      /\ HeadPart(l, n) \in Seq(Bytes) /\ l.segs[n + 1] \in Seq(Bytes) /\ Len(l.segs) = n + 1
      /\ \A m \in 0 .. n : Begins(HeadPart(l, m), Encode(l)) /\ HeadPart(l, m) \in Seq(Bytes)
  BY <1>1, EncodeIs
<1>4. CASE \A j \in 1 .. n + 1 : k.segs[j] = l.segs[j]
  <2>1. k.segs = l.segs
    BY <1>2, <1>3, <1>4, SeqEqual DEF KeyOK, Segments
  <2>2. Encode(k) = Encode(l)
    BY <2>1 DEF Encode
  <2>3. ~BytesBelow(Encode(k), Encode(l))
    BY <1>2, <2>2, BeginsSelf, BelowBegins
  <2>4. DOMAIN k.segs = 1 .. n + 1
    BY LenProperties DEF KeyOK, Segments
  <2>5. \A j \in 1 .. n + 1 : ~BytesBelow(k.segs[j], l.segs[j])
    BY <1>2, <1>4, BeginsSelf, BelowBegins
  <2> QED
    BY <2>3, <2>4, <2>5 DEF SegmentsBelow
<1>5. ASSUME NEW i \in 1 .. n + 1, k.segs[i] # l.segs[i], \A j \in 1 .. i - 1 : k.segs[j] = l.segs[j]
      PROVE  BytesBelow(Encode(k), Encode(l)) <=> BytesBelow(k.segs[i], l.segs[i])
  <2>1. CASE i = n + 1
    <3>1. HeadPart(k, n) = HeadPart(l, n)
      <4>1. \A j \in 1 .. n : k.segs[j] = l.segs[j]
        BY <1>1, <1>5, <2>1
      <4> QED
        BY <1>1, <4>1, HeadSame
    <3> QED
      BY <1>2, <1>3, <2>1, <3>1, CatBelow
  <2>2. CASE i \in 1 .. n
    <3>1. PICK d \in Nat : /\ FirstDiff(HeadPart(k, i), HeadPart(l, i), d)
                           /\ HeadPart(k, i)[d] < HeadPart(l, i)[d] <=> BytesBelow(k.segs[i], l.segs[i])
      BY <1>5, <2>2, HeadDiff
    <3>2. i \in 0 .. n
      BY <1>1, <2>2
    <3>3. /\ Begins(HeadPart(k, i), Encode(k)) /\ HeadPart(k, i) \in Seq(Bytes)
          /\ Begins(HeadPart(l, i), Encode(l)) /\ HeadPart(l, i) \in Seq(Bytes)
      BY <1>2, <1>3, <3>2
    <3>4. FirstDiff(Encode(k), Encode(l), d) /\ Encode(k)[d] = HeadPart(k, i)[d] /\ Encode(l)[d] = HeadPart(l, i)[d]
      BY <1>2, <1>3, <3>1, <3>3, BeginsDiff
    <3>5. BytesBelow(Encode(k), Encode(l)) <=> Encode(k)[d] < Encode(l)[d]
      BY <1>2, <1>3, <3>4, BelowAt
    <3> QED
      BY <3>1, <3>4, <3>5
  <2> QED
    BY <1>1, <2>1, <2>2
<1>6. CASE \E i \in 1 .. n + 1 : k.segs[i] # l.segs[i] /\ \A j \in 1 .. i - 1 : k.segs[j] = l.segs[j]
  <2>1. PICK i \in 1 .. n + 1 : k.segs[i] # l.segs[i] /\ \A j \in 1 .. i - 1 : k.segs[j] = l.segs[j]
    BY <1>6
  <2>2. SegmentsBelow(k.segs, l.segs) <=> BytesBelow(k.segs[i], l.segs[i])
    BY <2>1, SegmentsBelowAt
  <2> QED
    BY <1>5, <2>1, <2>2
<1> QED
  BY <1>1, <1>4, <1>6, SegmentsCompared

LEMMA KindBegins ==
    ASSUME NEW x, KeyOK(x)
    PROVE  Begins(Prefix[x.kind], Encode(x)) /\ Encode(x) \in Seq(Bytes)
<1> DEFINE n == Heads(x.kind)
<1>1. n \in Nat /\ 0 \in 0 .. n /\ Prefix[x.kind] \in Seq(Bytes)
  BY KindPrefix DEF KeyOK
<1>2. Encode(x) \in Seq(Bytes) /\ Begins(HeadPart(x, 0), Encode(x))
  BY <1>1, EncodeIs
<1>3. HeadPart(x, 0) = Prefix[x.kind]
  <2>1. Term(x.segs, 0) = <<>>
    BY TermIs DEF KeyOK
  <2> QED
    BY <1>1, <2>1, CatEmpty DEF HeadPart
<1> QED
  BY <1>2, <1>3

(* Kinds do not interleave. *)
LEMMA KindsApart ==
    ASSUME NEW k, NEW l, KeyOK(k), KeyOK(l), k.kind # l.kind
    PROVE  BytesBelow(Encode(k), Encode(l)) <=> BytesBelow(Prefix[k.kind], Prefix[l.kind])
<1> DEFINE p == Prefix[k.kind]  q == Prefix[l.kind]
<1>1. p \in Seq(Bytes) /\ q \in Seq(Bytes) /\ \E d \in Nat : FirstDiff(p, q, d)
  BY PrefixesDiffer DEF KeyOK
<1>3. Begins(p, Encode(k)) /\ Encode(k) \in Seq(Bytes) /\ Begins(q, Encode(l)) /\ Encode(l) \in Seq(Bytes)
  BY KindBegins
<1> HIDE DEF p, q
<1>4. PICK d \in Nat : FirstDiff(p, q, d)
  BY <1>1
<1>5. FirstDiff(Encode(k), Encode(l), d) /\ Encode(k)[d] = p[d] /\ Encode(l)[d] = q[d]
  BY <1>1, <1>3, <1>4, BeginsDiff
<1>6. BytesBelow(Encode(k), Encode(l)) <=> Encode(k)[d] < Encode(l)[d]
  BY <1>3, <1>5, BelowAt
<1>7. BytesBelow(p, q) <=> p[d] < q[d]
  BY <1>1, <1>4, BelowAt
<1> QED
  BY <1>5, <1>6, <1>7 DEF p, q

(* A scan prefix covers the keys that have its segments and no others. *)
LEMMA ScansExact ==
    ASSUME NEW k, NEW l, KeyOK(k), KeyOK(l), k.kind = l.kind, NEW n \in 0 .. Heads(k.kind)
    PROVE  UnderPrefix(ScanPrefix(k.kind, SubSeq(k.segs, 1, n)), Encode(l))
              <=> SubSeq(l.segs, 1, n) = SubSeq(k.segs, 1, n)
<1> DEFINE N == Heads(k.kind)
<1>0. N \in Nat /\ n \in Nat /\ n <= Len(k.segs) /\ n <= Len(l.segs) /\ n \in 0 .. N + 1
      /\ k.segs \in Segments /\ l.segs \in Segments
  BY DEF KeyOK
<1>1. /\ ScanPrefix(k.kind, SubSeq(k.segs, 1, n)) = HeadPart(k, n)
      /\ \A m \in 0 .. N : HeadPart(k, m) \in Seq(Bytes)
      /\ \A m, q \in 0 .. N : m <= q => Begins(HeadPart(k, m), HeadPart(k, q))
  BY EncodeIs
<1>2. /\ Encode(l) \in Seq(Bytes) /\ \A m \in 0 .. N : HeadPart(l, m) \in Seq(Bytes)
      /\ \A m \in 0 .. N : Begins(HeadPart(l, m), Encode(l))
  BY EncodeIs
<1>3. UnderPrefix(HeadPart(k, n), Encode(l)) <=> Begins(HeadPart(k, n), Encode(l))
  BY <1>1, <1>2, UnderPrefixIs
<1>4. SubSeq(l.segs, 1, n) = SubSeq(k.segs, 1, n) <=> \A j \in 1 .. n : k.segs[j] = l.segs[j]
  <2>1. /\ SubSeq(k.segs, 1, n) \in Seq(Seq(Bytes)) /\ Len(SubSeq(k.segs, 1, n)) = n
        /\ \A i \in 1 .. n : SubSeq(k.segs, 1, n)[i] = k.segs[i]
    BY <1>0, FirstSegments DEF Segments
  <2>2. /\ SubSeq(l.segs, 1, n) \in Seq(Seq(Bytes)) /\ Len(SubSeq(l.segs, 1, n)) = n
        /\ \A i \in 1 .. n : SubSeq(l.segs, 1, n)[i] = l.segs[i]
    BY <1>0, FirstSegments DEF Segments
  <2> DEFINE a == SubSeq(k.segs, 1, n)  b == SubSeq(l.segs, 1, n)
  <2> HIDE DEF a, b
  <2>3. b = a <=> \A j \in 1 .. n : b[j] = a[j]
    <3>1. a \in Seq(Seq(Bytes)) /\ b \in Seq(Seq(Bytes)) /\ Len(a) = n /\ Len(b) = n
      BY <2>1, <2>2 DEF a, b
    <3> QED
      BY <3>1, SeqEqual
  <2>4. \A j \in 1 .. n : b[j] = l.segs[j] /\ a[j] = k.segs[j]
    BY <2>1, <2>2 DEF a, b
  <2>5. b = a <=> \A j \in 1 .. n : k.segs[j] = l.segs[j]
    BY <2>3, <2>4
  <2> QED
    BY <2>5 DEF a, b
<1>5. CASE \A j \in 1 .. n : k.segs[j] = l.segs[j]
  <2>1. HeadPart(k, n) = HeadPart(l, n)
    BY <1>5, HeadSame
  <2> QED
    BY <1>1, <1>2, <1>3, <1>4, <1>5, <2>1
<1>6. CASE \E i \in 1 .. n : k.segs[i] # l.segs[i] /\ \A j \in 1 .. i - 1 : k.segs[j] = l.segs[j]
  <2>1. PICK i \in 1 .. n : k.segs[i] # l.segs[i] /\ \A j \in 1 .. i - 1 : k.segs[j] = l.segs[j]
    BY <1>6
  <2>2. i \in 1 .. N /\ i \in 0 .. N /\ i <= n
    BY <1>0
  <2>3. PICK d \in Nat : FirstDiff(HeadPart(k, i), HeadPart(l, i), d)
    BY <2>1, <2>2, HeadDiff
  <2>4. Begins(HeadPart(k, i), HeadPart(k, n)) /\ Begins(HeadPart(l, i), Encode(l))
    BY <1>1, <1>2, <2>2
  <2>5. FirstDiff(HeadPart(k, n), Encode(l), d)
    BY <1>1, <1>2, <2>2, <2>3, <2>4, BeginsDiff
  <2>6. ~Begins(HeadPart(k, n), Encode(l))
    BY <2>5 DEF FirstDiff, Begins
  <2> QED
    BY <1>1, <1>3, <1>4, <2>1, <2>6
<1>7. n \in 0 .. Heads(k.kind) + 1
  BY <1>0
<1>8. \/ \A j \in 1 .. n : k.segs[j] = l.segs[j]
      \/ \E i \in 1 .. n : k.segs[i] # l.segs[i] /\ \A j \in 1 .. i - 1 : k.segs[j] = l.segs[j]
  BY <1>7, SegmentsCompared
<1> QED
  BY <1>5, <1>6, <1>8

-------------------------------------------------------------------------------
(* split_segments, one byte at a time. *)

Run(n, w, s, g) ==
    g[0] = s /\ \A i \in 1 .. Len(w) : g[i] = SplitByte(n, g[i - 1], w[i])

Start == Split(<<>>, <<>>, <<>>, "text")

Folded(n, w) == FoldLeft(LAMBDA s, b : SplitByte(n, s, b), Start, w)

LEMMA GreatestIs ==
    ASSUME NEW m \in Nat, NEW s \in SUBSET (1 .. m), s # {}
    PROVE  /\ Max(s) \in s /\ s \ {Max(s)} \in SUBSET (1 .. m)
           /\ m \in s => Max(s) = m
<1>1. s \in SUBSET (0 .. m)
  OBVIOUS
<1>2. Max(s) \in s /\ \A y \in s : y <= Max(s)
  BY <1>1, MaxNat
<1>3. m \in s => Max(s) = m
  <2>1. PICK x \in 1 .. m : x = Max(s)
    BY <1>2
  <2>2. m \in s => m <= x
    BY <1>2, <2>1
  <2> QED
    BY <2>1, <2>2
<1> QED
  BY <1>2, <1>3

LEMMA FoldedIs ==
    ASSUME NEW n, NEW w \in Seq(Bytes)
    PROVE  \E g : Run(n, w, Start, g) /\ Folded(n, w) = g[Len(w)]
<1> DEFINE L == Len(w)
           Entry(f, s) == IF s = {} THEN Start ELSE SplitByte(n, f[s \ {Max(s)}], w[Max(s)])
           Rec(m, f) == f = [s \in SUBSET (1 .. m) |-> Entry(f, s)]
           S == {m \in Nat : \E f : Rec(m, f)}
<1>0. L \in Nat /\ DOMAIN w = 1 .. L
  BY LenProperties
<1> HIDE DEF L
<1>1. 0 \in S
  <2> DEFINE f == [s \in SUBSET (1 .. 0) |-> Start]
  <2>1. \A s \in SUBSET (1 .. 0) : Entry(f, s) = Start
    OBVIOUS
  <2>2. Rec(0, f)
    <3> HIDE DEF Entry
    <3> QED
      BY <2>1
  <2> QED
    BY <2>2
<1>2. ASSUME NEW m \in Nat, m \in S PROVE m + 1 \in S
  <2>1. PICK f : Rec(m, f)
    BY <1>2
  <2>2. \A s \in SUBSET (1 .. m) : f[s] = Entry(f, s)
    <3> HIDE DEF Entry
    <3> QED
      BY <2>1
  <2> DEFINE h == [s \in SUBSET (1 .. m + 1) |->
                     IF m + 1 \in s THEN SplitByte(n, f[s \ {m + 1}], w[m + 1]) ELSE f[s]]
  <2>3. \A s \in SUBSET (1 .. m) : s \in SUBSET (1 .. m + 1) /\ h[s] = f[s]
    OBVIOUS
  <2>4. ASSUME NEW s \in SUBSET (1 .. m + 1) PROVE h[s] = Entry(h, s)
    <3>1. CASE m + 1 \in s
      <4>1. Max(s) = m + 1 /\ s # {}
        BY <3>1, GreatestIs
      <4>2. s \ {m + 1} \in SUBSET (1 .. m)
        OBVIOUS
      <4>3. h[s] = SplitByte(n, f[s \ {m + 1}], w[m + 1])
        BY <3>1
      <4>4. h[s \ {m + 1}] = f[s \ {m + 1}]
        BY <2>3, <4>2
      <4> HIDE DEF h
      <4> QED
        BY <4>1, <4>3, <4>4
    <3>2. CASE m + 1 \notin s
      <4>1. s \in SUBSET (1 .. m)
        BY <3>2
      <4>2. h[s] = f[s] /\ f[s] = Entry(f, s)
        BY <2>2, <2>3, <4>1
      <4>3. s # {} => h[s \ {Max(s)}] = f[s \ {Max(s)}]
        BY <2>3, <4>1
      <4> HIDE DEF h
      <4> QED
        BY <4>2, <4>3
    <3> QED
      BY <3>1, <3>2
  <2>5. h = [s \in SUBSET (1 .. m + 1) |-> h[s]]
    OBVIOUS
  <2>6. Rec(m + 1, h)
    <3> HIDE DEF h, Entry
    <3> QED
      BY <2>4, <2>5
  <2>7. \E f1 : Rec(m + 1, f1)
    <3> HIDE DEF h, Rec
    <3> QED
      BY <2>6
  <2> HIDE DEF Rec
  <2> QED
    BY <2>7
<1>3. L \in S
  <2>1. \A m \in Nat : m \in S
    <3> HIDE DEF S
    <3> QED
      BY <1>1, <1>2, Inductive
  <2> QED
    BY <1>0, <2>1
<1>4. PICK f : Rec(L, f) /\ Folded(n, w) = f[1 .. L]
  <2> DEFINE iter == CHOOSE f : Rec(L, f)
  <2>1. Rec(L, iter)
    <3>1. \E f : Rec(L, f)
      BY <1>3
    <3> HIDE DEF Rec
    <3> QED
      BY <3>1
  <2>2. Folded(n, w) = iter[1 .. L]
    BY <1>0 DEF Folded, FoldLeft, MapThenFoldSet
  <2> HIDE DEF iter, Rec
  <2> QED
    BY <2>1, <2>2
<1>5. \A s \in SUBSET (1 .. L) : f[s] = Entry(f, s)
  <2> HIDE DEF Entry
  <2> QED
    BY <1>4
<1> DEFINE g == [i \in 0 .. L |-> f[1 .. i]]
<1>6. g[0] = Start
  <2>1. 1 .. 0 = {} /\ {} \in SUBSET (1 .. L) /\ 0 \in 0 .. L
    BY <1>0
  <2> QED
    BY <1>5, <2>1
<1>7. ASSUME NEW i \in 1 .. L PROVE g[i] = SplitByte(n, g[i - 1], w[i])
  <2>1. /\ 1 .. i \in SUBSET (1 .. L) /\ i \in 1 .. i /\ (1 .. i) \ {i} = 1 .. i - 1
        /\ i \in Nat /\ i \in 0 .. L /\ i - 1 \in 0 .. L
    BY <1>0
  <2>2. Max(1 .. i) = i
    BY <2>1, GreatestIs
  <2>3. f[1 .. i] = SplitByte(n, f[1 .. i - 1], w[i])
    BY <1>5, <2>1, <2>2
  <2> QED
    BY <2>1, <2>3
<1>8. g[L] = f[1 .. L]
  BY <1>0
<1> HIDE DEF g
<1>9. Run(n, w, Start, g)
  BY <1>6, <1>7 DEF Run, L
<1> QED
  BY <1>4, <1>8, <1>9 DEF L

LEMMA FirstIs ==
    ASSUME NEW X, NEW c \in Seq(X), NEW m \in Nat, m <= Len(c)
    PROVE  /\ SubSeq(c, 1, m) \in Seq(X) /\ Len(SubSeq(c, 1, m)) = m
           /\ \A i \in 1 .. m : SubSeq(c, 1, m)[i] = c[i]
<1>1. Len(c) \in Nat /\ \A i \in 1 .. m : c[i] \in X
  BY LenProperties, ElementOfSeq
<1> DEFINE f == SubSeq(c, 1, m)
<1>2. /\ f \in Seq(X) /\ Len(f) = IF 1 <= m THEN m - 1 + 1 ELSE 0
      /\ \A i \in 1 .. m - 1 + 1 : f[i] = c[1 + i - 1]
  BY <1>1, SubSeqProperties
<1> HIDE DEF f
<1>3. f \in Seq(X) /\ Len(f) = m /\ \A i \in 1 .. m : f[i] = c[i]
  BY <1>1, <1>2
<1> QED
  BY <1>3 DEF f

LEMMA SubSeqGrows ==
    ASSUME NEW X, NEW c \in Seq(X), NEW m \in Nat, m < Len(c)
    PROVE  SubSeq(c, 1, m + 1) = Append(SubSeq(c, 1, m), c[m + 1]) /\ c[m + 1] \in X
<1>1. Len(c) \in Nat /\ m + 1 \in 1 .. Len(c) /\ m + 1 \in Nat /\ m + 1 <= Len(c) /\ m <= Len(c)
  BY LenProperties
<1>2. c[m + 1] \in X
  BY <1>1, ElementOfSeq
<1> DEFINE f == SubSeq(c, 1, m)  h == SubSeq(c, 1, m + 1)  a == Append(f, c[m + 1])
<1>3. f \in Seq(X) /\ Len(f) = m /\ \A i \in 1 .. m : f[i] = c[i]
  BY <1>1, FirstIs
<1>4. h \in Seq(X) /\ Len(h) = m + 1 /\ \A i \in 1 .. m + 1 : h[i] = c[i]
  BY <1>1, FirstIs
<1> HIDE DEF f, h
<1>5. a \in Seq(X) /\ Len(a) = Len(f) + 1 /\ (\A i \in 1 .. Len(f) : a[i] = f[i]) /\ a[Len(f) + 1] = c[m + 1]
  BY <1>2, <1>3, AppendProperties
<1> HIDE DEF a
<1>6. a \in Seq(X) /\ Len(a) = m + 1 /\ \A i \in 1 .. m + 1 : a[i] = c[i]
  BY <1>3, <1>5
<1>7. \A i \in 1 .. m + 1 : h[i] = a[i]
  BY <1>4, <1>6
<1>8. h = a
  BY <1>4, <1>6, <1>7, SeqEqual
<1> QED
  BY <1>2, <1>8 DEF f, h, a

LEMMA AppendCat ==
    ASSUME NEW X, NEW w \in Seq(X), NEW b \in X
    PROVE  Append(w, b) = Cat(w, <<b>>)
  BY AppendIsConcat DEF Cat

LEMMA EscapeAppend ==
    ASSUME NEW c \in Seq(Bytes), NEW x \in Bytes
    PROVE  Append(c, x) \in Seq(Bytes) /\ Escape(Append(c, x)) = Cat(Escape(c), EscOf(x))
<1> DEFINE a == Append(c, x)  m == Len(c)
<1>1. /\ m \in Nat /\ a \in Seq(Bytes) /\ Len(a) = m + 1 /\ a[m + 1] = x
      /\ \A i \in 1 .. m : a[i] = c[i]
  BY LenProperties, AppendProperties
<1> HIDE DEF a
<1>2. Escape(a) = Esc(a, m + 1) /\ Esc(a, m + 1) = Cat(Esc(a, m), EscOf(a[m + 1]))
  <2>1. m \in 0 .. Len(a) /\ m < Len(a)
    BY <1>1
  <2> QED
    BY <1>1, <2>1, EscapeIs
<1>3. Esc(a, m) = Esc(c, m)
  <2>1. m <= Len(a) /\ m <= Len(c)
    BY <1>1
  <2> QED
    BY <1>1, <2>1, EscSame
<1>4. Esc(c, m) = Escape(c)
  BY EscapeIs
<1> QED
  BY <1>1, <1>2, <1>3, <1>4 DEF a

LEMMA TermAppend ==
    ASSUME NEW segs \in Segments, NEW c \in Seq(Bytes)
    PROVE  /\ Append(segs, c) \in Segments /\ Len(Append(segs, c)) = Len(segs) + 1
           /\ Terminated(Append(segs, c)) = Cat(Terminated(segs), Closed(c))
<1> DEFINE a == Append(segs, c)  m == Len(segs)
<1>1. /\ m \in Nat /\ a \in Segments /\ Len(a) = m + 1 /\ a[m + 1] = c
      /\ \A i \in 1 .. m : a[i] = segs[i]
  BY LenProperties, AppendProperties DEF Segments
<1> HIDE DEF a
<1>2. Terminated(a) = Term(a, m + 1) /\ Term(a, m + 1) = Cat(Term(a, m), Closed(a[m + 1]))
  <2>1. m \in 0 .. Len(a) /\ m < Len(a)
    BY <1>1
  <2> QED
    BY <1>1, <2>1, TermIs
<1>3. Term(a, m) = Term(segs, m)
  <2>1. m <= Len(a) /\ m <= Len(segs)
    BY <1>1
  <2> QED
    BY <1>1, <2>1, TermSame
<1>4. Term(segs, m) = Terminated(segs)
  BY TermIs
<1> QED
  BY <1>1, <1>2, <1>3, <1>4 DEF a

LEMMA ByteTail ==
    ASSUME NEW n, NEW S, NEW c, NEW t, NEW z, NEW b, Len(S) = n \/ z = "bad"
    PROVE  SplitByte(n, Split(S, c, t, z), b) = Split(S, c, Append(t, b), z)
  BY DEF SplitByte, Split

LEMMA ByteOpen ==
    ASSUME NEW n, NEW S, NEW c, NEW t, NEW b, Len(S) # n
    PROVE  /\ b = 0 => SplitByte(n, Split(S, c, t, "text"), b) = Split(S, c, t, "nul")
           /\ b # 0 => SplitByte(n, Split(S, c, t, "text"), b) = Split(S, Append(c, b), t, "text")
  BY DEF SplitByte, Split, NUL

LEMMA BytePending ==
    ASSUME NEW n, NEW S, NEW c, NEW t, NEW b, Len(S) # n
    PROVE  /\ b = 255 => SplitByte(n, Split(S, c, t, "nul"), b) = Split(S, Append(c, 0), t, "text")
           /\ b = 1 => SplitByte(n, Split(S, c, t, "nul"), b) = Split(Append(S, c), <<>>, t, "text")
           /\ b # 255 /\ b # 1 => SplitByte(n, Split(S, c, t, "nul"), b) = Split(S, c, t, "bad")
  BY DEF SplitByte, Split, NUL, ESCAPE, TERMINATOR

(* What a run makes of bytes that stand in its string. *)
LEMMA RunReads ==
    ASSUME NEW n, NEW w \in Seq(Bytes), NEW s, NEW g, Run(n, w, s, g),
           NEW a \in Seq(Bytes), NEW u \in Seq(Bytes), Begins(Cat(a, u), w)
    PROVE  /\ Len(u) = 1 => g[Len(Cat(a, u))] = SplitByte(n, g[Len(a)], u[1])
           /\ Len(u) = 2 => g[Len(Cat(a, u))] = SplitByte(n, SplitByte(n, g[Len(a)], u[1]), u[2])
<1> DEFINE v == Cat(a, u)  m == Len(a)
<1>1. IsCat(v, a, u)
  BY CatIs
<1>2. Len(w) \in Nat
  BY LenProperties
<1> HIDE DEF v
<1>3. Begins(v, w)
  BY DEF v
<1>4. /\ m \in Nat /\ Len(u) \in Nat /\ Len(v) = m + Len(u) /\ Len(v) <= Len(w)
      /\ \A i \in 1 .. Len(v) : v[i] = w[i]
      /\ \A i \in 1 .. Len(u) : v[m + i] = u[i]
  BY <1>1, <1>3 DEF IsCat, Begins
<1> HIDE DEF m
<1>5. ASSUME NEW i \in 1 .. Len(u) PROVE g[m + i] = SplitByte(n, g[(m + i) - 1], u[i])
  <2>1. m + i \in 1 .. Len(v) /\ m + i \in 1 .. Len(w)
    BY <1>2, <1>4
  <2>2. w[m + i] = u[i]
    BY <1>4, <2>1
  <2>3. \A j \in 1 .. Len(w) : g[j] = SplitByte(n, g[j - 1], w[j])
    BY DEF Run
  <2>4. g[m + i] = SplitByte(n, g[(m + i) - 1], w[m + i])
    BY <2>1, <2>3
  <2> QED
    BY <2>2, <2>4
<1>6. CASE Len(u) = 1
  <2>1. (m + 1) - 1 = m /\ 1 \in 1 .. Len(u)
    BY <1>4, <1>6
  <2>2. g[m + 1] = SplitByte(n, g[m], u[1])
    BY <1>5, <2>1
  <2> QED
    BY <1>4, <1>6, <2>2 DEF v, m
<1>7. CASE Len(u) = 2
  <2>1. (m + 1) - 1 = m /\ 1 \in 1 .. Len(u) /\ 2 \in 1 .. Len(u) /\ (m + 2) - 1 = m + 1
    BY <1>4, <1>7
  <2>2. g[m + 1] = SplitByte(n, g[m], u[1])
    BY <1>5, <2>1
  <2>3. g[m + 2] = SplitByte(n, g[m + 1], u[2])
    BY <1>5, <2>1
  <2> QED
    BY <1>4, <1>7, <2>2, <2>3 DEF v, m
<1> QED
  BY <1>6, <1>7

(* A closed segment is read back whole. *)
LEMMA ReadsSegment ==
    ASSUME NEW n, NEW w \in Seq(Bytes), NEW s, NEW g, Run(n, w, s, g),
           NEW a \in Seq(Bytes), NEW c \in Seq(Bytes), Begins(Cat(a, Closed(c)), w),
           NEW S, Len(S) # n, g[Len(a)] = Split(S, <<>>, <<>>, "text")
    PROVE  g[Len(Cat(a, Closed(c)))] = Split(Append(S, c), <<>>, <<>>, "text")
<1> DEFINE L == Len(c)  A(j) == Cat(a, Esc(c, j))
           B == {j \in Nat : j <= L => g[Len(A(j))] = Split(S, SubSeq(c, 1, j), <<>>, "text")}
<1>1. L \in Nat
  BY LenProperties
<1>2. /\ Escape(c) = Esc(c, L) /\ Escape(c) \in Seq(Bytes) /\ Esc(c, 0) = <<>>
      /\ \A m \in 0 .. L : Esc(c, m) \in Seq(Bytes) /\ Begins(Esc(c, m), Escape(c))
      /\ \A m \in 0 .. L : m < L => Esc(c, m + 1) = Cat(Esc(c, m), EscOf(c[m + 1]))
  BY EscapeIs
<1>3. Closed(c) \in Seq(Bytes) /\ Begins(Escape(c), Closed(c)) /\ Cat(a, Closed(c)) \in Seq(Bytes)
  BY ClosedIs, CatIs
<1> HIDE DEF L
<1>4. ASSUME NEW m \in 0 .. L PROVE A(m) \in Seq(Bytes) /\ Begins(A(m), w)
  <2>1. Esc(c, m) \in Seq(Bytes) /\ Begins(Esc(c, m), Escape(c))
    BY <1>2
  <2>2. Begins(Esc(c, m), Closed(c))
    BY <1>2, <1>3, <2>1, BeginsTrans
  <2>3. Begins(A(m), Cat(a, Closed(c))) /\ A(m) \in Seq(Bytes)
    BY <1>3, <2>1, <2>2, ShiftBegins, CatIs
  <2> HIDE DEF A
  <2> QED
    BY <1>3, <2>3, BeginsTrans
<1>5. 0 \in B
  <2>1. A(0) = a
    BY <1>2, CatEmpty
  <2>2. SubSeq(c, 1, 0) = <<>>
    BY SubSeqEmpty
  <2> QED
    BY <2>1, <2>2
<1>6. ASSUME NEW j \in Nat, j \in B PROVE j + 1 \in B
  <2> SUFFICES ASSUME j + 1 <= L PROVE g[Len(A(j + 1))] = Split(S, SubSeq(c, 1, j + 1), <<>>, "text")
    OBVIOUS
  <2>1. j \in 0 .. L /\ j < L /\ j + 1 \in 0 .. L /\ j <= L
    BY <1>1
  <2> DEFINE x == c[j + 1]  v == A(j)  u == EscOf(x)  p == SubSeq(c, 1, j)
  <2>2. g[Len(v)] = Split(S, p, <<>>, "text")
    BY <1>6, <2>1
  <2>3. SubSeq(c, 1, j + 1) = Append(p, x) /\ x \in Bytes
    BY <2>1, SubSeqGrows DEF L
  <2>4. /\ u \in Seq(Bytes) /\ u[1] = x
        /\ x = 0 => Len(u) = 2 /\ u[2] = 255
        /\ x # 0 => Len(u) = 1
    BY <2>3, EscOfIs
  <2>5. A(j + 1) = Cat(v, u)
    <3>1. Esc(c, j + 1) = Cat(Esc(c, j), u) /\ Esc(c, j) \in Seq(Bytes)
      BY <1>2, <2>1
    <3> HIDE DEF u
    <3> QED
      BY <2>4, <3>1, CatAssoc
  <2>6. v \in Seq(Bytes) /\ Begins(A(j + 1), w)
    BY <1>4, <2>1
  <2> HIDE DEF A, x, v, u, p
  <2>7. Begins(Cat(v, u), w)
    BY <2>5, <2>6
  <2>8. /\ Len(u) = 1 => g[Len(Cat(v, u))] = SplitByte(n, g[Len(v)], u[1])
        /\ Len(u) = 2 => g[Len(Cat(v, u))] = SplitByte(n, SplitByte(n, g[Len(v)], u[1]), u[2])
    BY <2>4, <2>6, <2>7, RunReads
  <2>9. CASE x # 0
    <3>1. SplitByte(n, Split(S, p, <<>>, "text"), x) = Split(S, Append(p, x), <<>>, "text")
      BY <2>9, ByteOpen
    <3> QED
      BY <2>2, <2>3, <2>4, <2>5, <2>8, <2>9, <3>1
  <2>10. CASE x = 0
    <3>1. SplitByte(n, Split(S, p, <<>>, "text"), 0) = Split(S, p, <<>>, "nul")
      BY ByteOpen
    <3>2. SplitByte(n, Split(S, p, <<>>, "nul"), 255) = Split(S, Append(p, 0), <<>>, "text")
      BY BytePending
    <3>3. Len(u) = 2 /\ u[1] = 0 /\ u[2] = 255
      BY <2>4, <2>10
    <3>4. g[Len(Cat(v, u))] = SplitByte(n, SplitByte(n, Split(S, p, <<>>, "text"), 0), 255)
      BY <2>2, <2>8, <3>3
    <3>5. g[Len(Cat(v, u))] = Split(S, Append(p, 0), <<>>, "text")
      BY <3>1, <3>2, <3>4
    <3> QED
      BY <2>3, <2>5, <2>10, <3>5
  <2> QED
    BY <2>9, <2>10
<1>7. L \in B
  <2> HIDE DEF B
  <2> QED
    BY <1>1, <1>5, <1>6, Inductive
<1> DEFINE v == Cat(a, Escape(c))
<1>8. g[Len(v)] = Split(S, c, <<>>, "text")
  <2>1. SubSeq(c, 1, L) = c
    BY SubSeqFull DEF L
  <2>2. L <= L
    BY <1>1
  <2>3. g[Len(A(L))] = Split(S, SubSeq(c, 1, L), <<>>, "text")
    BY <1>7, <2>2
  <2> HIDE DEF B
  <2> QED
    BY <1>2, <2>1, <2>3
<1>9. Cat(a, Closed(c)) = Cat(v, Ending) /\ v \in Seq(Bytes)
  BY <1>2, EndingIs, CatAssoc, CatIs DEF Closed
<1> HIDE DEF v
<1>10. g[Len(Cat(v, Ending))] = SplitByte(n, SplitByte(n, g[Len(v)], 0), 1)
  <2>1. Begins(Cat(v, Ending), w)
    BY <1>9
  <2> QED
    BY <1>9, <2>1, EndingIs, RunReads
<1>11. SplitByte(n, Split(S, c, <<>>, "text"), 0) = Split(S, c, <<>>, "nul")
  BY ByteOpen
<1>12. SplitByte(n, Split(S, c, <<>>, "nul"), 1) = Split(Append(S, c), <<>>, <<>>, "text")
  BY BytePending
<1> QED
  BY <1>8, <1>9, <1>10, <1>11, <1>12

LEMMA ReadsHeads ==
    ASSUME NEW h \in Segments, NEW n, n = Len(h), NEW w \in Seq(Bytes), NEW g,
           Run(n, w, Start, g), Begins(Terminated(h), w)
    PROVE  g[Len(Terminated(h))] = Split(h, <<>>, <<>>, "text")
<1>1. /\ n \in Nat /\ Terminated(h) = Term(h, n) /\ Term(h, 0) = <<>>
      /\ \A m \in 0 .. n : Term(h, m) \in Seq(Bytes)
      /\ \A m, q \in 0 .. n : m <= q => Begins(Term(h, m), Term(h, q))
      /\ \A m \in 0 .. n : m < n => Term(h, m + 1) = Cat(Term(h, m), Closed(h[m + 1]))
  BY TermIs
<1>2. n \in 0 .. n
  BY <1>1
<1>3. ASSUME NEW m \in 0 .. n PROVE Begins(Term(h, m), w)
  <2>1. Begins(Term(h, m), Term(h, n)) /\ Term(h, m) \in Seq(Bytes) /\ Term(h, n) \in Seq(Bytes)
    BY <1>1, <1>2
  <2> QED
    BY <1>1, <2>1, BeginsTrans
<1> DEFINE B == {j \in Nat : j <= n => g[Len(Term(h, j))] = Split(SubSeq(h, 1, j), <<>>, <<>>, "text")}
<1>4. 0 \in B
  <2>1. SubSeq(h, 1, 0) = <<>>
    BY SubSeqEmpty DEF Segments
  <2>2. Len(<<>>) = 0
    BY EmptySeq
  <2>3. g[0] = Split(<<>>, <<>>, <<>>, "text")
    BY DEF Run, Start
  <2> QED
    BY <1>1, <2>1, <2>2, <2>3
<1>5. ASSUME NEW j \in Nat, j \in B PROVE j + 1 \in B
  <2> SUFFICES ASSUME j + 1 <= n PROVE g[Len(Term(h, j + 1))] = Split(SubSeq(h, 1, j + 1), <<>>, <<>>, "text")
    OBVIOUS
  <2>1. j \in 0 .. n /\ j < n /\ j + 1 \in 0 .. n /\ j <= n /\ j < Len(h) /\ j <= Len(h) /\ j # n
    BY <1>1
  <2> DEFINE a == Term(h, j)  c == h[j + 1]  S == SubSeq(h, 1, j)
  <2>2. g[Len(a)] = Split(S, <<>>, <<>>, "text")
    BY <1>5, <2>1
  <2>3. SubSeq(h, 1, j + 1) = Append(S, c) /\ c \in Seq(Bytes) /\ Len(S) = j
    BY <2>1, SubSeqGrows, FirstIs DEF Segments
  <2>4. Term(h, j + 1) = Cat(a, Closed(c)) /\ a \in Seq(Bytes) /\ Begins(Term(h, j + 1), w)
    BY <1>1, <1>3, <2>1
  <2> HIDE DEF a, c, S
  <2>5. Begins(Cat(a, Closed(c)), w) /\ Len(S) # n
    BY <2>1, <2>3, <2>4
  <2>6. g[Len(Cat(a, Closed(c)))] = Split(Append(S, c), <<>>, <<>>, "text")
    BY <2>2, <2>3, <2>4, <2>5, ReadsSegment
  <2> QED
    BY <2>3, <2>4, <2>6
<1>6. n \in B
  <2> HIDE DEF B
  <2> QED
    BY <1>1, <1>4, <1>5, Inductive
<1>7. SubSeq(h, 1, n) = h
  BY SubSeqFull DEF Segments
<1>8. n <= n
  BY <1>1
<1>9. g[Len(Term(h, n))] = Split(SubSeq(h, 1, n), <<>>, <<>>, "text")
  BY <1>6, <1>8
<1> HIDE DEF B
<1> QED
  BY <1>1, <1>7, <1>9

LEMMA SplitOf ==
    ASSUME NEW h \in Segments, NEW last \in Seq(Bytes)
    PROVE  SplitSegments(Cat(Terminated(h), last), Len(h)) = {Append(h, last)}
<1> DEFINE n == Len(h)  T == Terminated(h)  w == Cat(T, last)
<1>1. n \in Nat /\ T \in Seq(Bytes)
  <2>1. n \in Nat /\ T = Term(h, n) /\ \A m \in 0 .. n : Term(h, m) \in Seq(Bytes)
    BY TermIs
  <2> QED
    BY <2>1
<1>2. w \in Seq(Bytes) /\ IsCat(w, T, last) /\ Begins(T, w)
  BY <1>1, CatIs, CatBegins
<1> HIDE DEF n, T, w
<1>3. PICK g : Run(n, w, Start, g) /\ Folded(n, w) = g[Len(w)]
  BY <1>2, FoldedIs
<1>4. g[Len(T)] = Split(h, <<>>, <<>>, "text")
  BY <1>2, <1>3, ReadsHeads DEF n, T
<1>5. /\ Len(T) \in Nat /\ Len(last) \in Nat /\ Len(w) = Len(T) + Len(last)
      /\ \A i \in 1 .. Len(last) : w[Len(T) + i] = last[i]
  BY <1>2 DEF IsCat
<1> DEFINE B == {j \in Nat : j <= Len(last) => g[Len(T) + j] = Split(h, <<>>, SubSeq(last, 1, j), "text")}
<1>6. 0 \in B
  <2>1. SubSeq(last, 1, 0) = <<>> /\ Len(T) + 0 = Len(T)
    BY <1>5, SubSeqEmpty
  <2> QED
    BY <1>4, <2>1
<1>7. ASSUME NEW j \in Nat, j \in B PROVE j + 1 \in B
  <2> SUFFICES ASSUME j + 1 <= Len(last)
               PROVE  g[Len(T) + (j + 1)] = Split(h, <<>>, SubSeq(last, 1, j + 1), "text")
    OBVIOUS
  <2> DEFINE i == Len(T) + (j + 1)
  <2>1. i \in 1 .. Len(w) /\ i - 1 = Len(T) + j /\ j + 1 \in 1 .. Len(last) /\ j < Len(last) /\ j <= Len(last)
    <3>1. Len(T) \in Nat /\ Len(last) \in Nat /\ Len(w) = Len(T) + Len(last)
      BY <1>5
    <3>2. PICK a \in Nat, c \in Nat : a = Len(T) /\ c = Len(last) /\ Len(w) = a + c
      BY <3>1
    <3>3. /\ a + (j + 1) \in 1 .. a + c /\ (a + (j + 1)) - 1 = a + j
          /\ j + 1 \in 1 .. c /\ j < c /\ j <= c
      BY <3>2
    <3> QED
      BY <3>2, <3>3
  <2>2. w[i] = last[j + 1]
    BY <1>5, <2>1
  <2> HIDE DEF i
  <2>3. g[i] = SplitByte(n, g[i - 1], w[i])
    BY <1>3, <2>1 DEF Run
  <2>4. g[i - 1] = Split(h, <<>>, SubSeq(last, 1, j), "text")
    BY <1>7, <2>1
  <2>5. SplitByte(n, Split(h, <<>>, SubSeq(last, 1, j), "text"), w[i])
          = Split(h, <<>>, Append(SubSeq(last, 1, j), w[i]), "text")
    BY ByteTail DEF n
  <2>6. SubSeq(last, 1, j + 1) = Append(SubSeq(last, 1, j), last[j + 1])
    BY <2>1, SubSeqGrows
  <2>7. g[i] = Split(h, <<>>, SubSeq(last, 1, j + 1), "text")
    BY <2>2, <2>3, <2>4, <2>5, <2>6
  <2> QED
    BY <2>7 DEF i
<1>8. Len(last) \in B
  <2> HIDE DEF B
  <2> QED
    BY <1>5, <1>6, <1>7, Inductive
<1>9. Folded(n, w) = Split(h, <<>>, last, "text")
  <2>1. SubSeq(last, 1, Len(last)) = last
    BY SubSeqFull
  <2>2. Len(last) <= Len(last)
    BY <1>5
  <2>3. g[Len(T) + Len(last)] = Split(h, <<>>, SubSeq(last, 1, Len(last)), "text")
    BY <1>8, <2>2
  <2> HIDE DEF B
  <2> QED
    BY <1>3, <1>5, <2>1, <2>3
<1> DEFINE end == Folded(n, w)
<1>10. end.mode = "text" /\ end.segs = h /\ end.tail = last
  BY <1>9 DEF Split
<1>11. SplitSegments(w, n) = IF end.mode = "bad" \/ Len(end.segs) < n THEN {} ELSE {Append(end.segs, end.tail)}
  BY DEF SplitSegments, Folded, Start
<1> HIDE DEF end
<1>12. ~(Len(h) < n)
  BY <1>1 DEF n
<1>13. SplitSegments(w, n) = {Append(h, last)}
  BY <1>10, <1>11, <1>12
<1> QED
  BY <1>13 DEF n, T, w

Nul == <<0>>

(* What the state says of the bytes read. *)
Says(n, v, S, c, t, z) ==
    /\ S \in Segments /\ c \in Seq(Bytes) /\ t \in Seq(Bytes) /\ Len(S) \in Nat /\ Len(S) <= n
    /\ \/ z = "bad"
       \/ Len(S) = n /\ z = "text" /\ v = Cat(Terminated(S), t)
       \/ Len(S) < n /\ z = "text" /\ t = <<>> /\ v = Cat(Terminated(S), Escape(c))
       \/ Len(S) < n /\ z = "nul" /\ t = <<>> /\ v = Cat(Cat(Terminated(S), Escape(c)), Nul)

Parsed(n, v, s) == \E S, c, t, z : s = Split(S, c, t, z) /\ Says(n, v, S, c, t, z)

LEMMA EmptyParts == Terminated(<<>>) = <<>> /\ Escape(<<>>) = <<>> /\ <<>> \in Segments /\ <<>> \in Seq(Bytes) /\ Len(<<>>) = 0
<1>1. <<>> \in Segments /\ <<>> \in Seq(Bytes) /\ Len(<<>>) = 0
  BY EmptySeq DEF Segments
<1>2. Terminated(<<>>) = Term(<<>>, Len(<<>>)) /\ Term(<<>>, 0) = <<>>
  BY <1>1, TermIs
<1>3. Escape(<<>>) = Esc(<<>>, Len(<<>>)) /\ Esc(<<>>, 0) = <<>>
  BY <1>1, EscapeIs
<1> QED
  BY <1>1, <1>2, <1>3

LEMMA TerminatedType == ASSUME NEW S \in Segments PROVE Terminated(S) \in Seq(Bytes)
<1>1. /\ Len(S) \in Nat /\ Terminated(S) = Term(S, Len(S))
      /\ \A m \in 0 .. Len(S) : Term(S, m) \in Seq(Bytes)
  BY TermIs
<1> QED
  BY <1>1

LEMMA NulIs == Nul \in Seq(Bytes) /\ Len(Nul) = 1 /\ Nul[1] = 0
<1>1. 0 \in Bytes
  BY ByteIs
<1> QED
  BY <1>1 DEF Nul

LEMMA Pairs ==
    ASSUME NEW x \in Bytes, NEW b, b = <<x>>, NEW p \in Seq(Bytes), Len(p) = 2, p[1] = 0, p[2] = x
    PROVE  Cat(Nul, b) = p
<1>1. b \in Seq(Bytes) /\ Len(b) = 1 /\ b[1] = x
  OBVIOUS
<1> DEFINE q == Cat(Nul, b)
<1>2. q \in Seq(Bytes) /\ IsCat(q, Nul, b)
  BY <1>1, NulIs, CatIs
<1> HIDE DEF q
<1>3. Len(q) = 2 /\ q[1] = 0 /\ q[2] = x
  BY <1>1, <1>2, NulIs DEF IsCat
<1>4. \A i \in 1 .. 2 : q[i] = p[i]
  BY <1>3
<1>5. q = p
  BY <1>2, <1>3, <1>4, SeqEqual
<1> QED
  BY <1>5 DEF q

LEMMA ParsedByte ==
    ASSUME NEW n \in Nat, NEW v \in Seq(Bytes), NEW s, Parsed(n, v, s), NEW b \in Bytes
    PROVE  Parsed(n, Cat(v, <<b>>), SplitByte(n, s, b))
<1>1. PICK S, c, t, z : s = Split(S, c, t, z) /\ Says(n, v, S, c, t, z)
  BY DEF Parsed
<1> DEFINE T == Terminated(S)  E == Escape(c)  B == <<b>>  W == Cat(v, B)
<1>2. S \in Segments /\ c \in Seq(Bytes) /\ t \in Seq(Bytes) /\ Len(S) \in Nat /\ Len(S) <= n
  BY <1>1 DEF Says
<1>3. T \in Seq(Bytes) /\ E \in Seq(Bytes) /\ B \in Seq(Bytes)
  BY <1>2, TerminatedType, EscapeIs
<1>4. Append(t, b) \in Seq(Bytes) /\ Append(t, b) = Cat(t, B)
  BY <1>2, AppendProperties, AppendCat
<1> HIDE DEF T, E, B, W
<1>5. CASE z = "bad"
  <2>1. SplitByte(n, s, b) = Split(S, c, Append(t, b), z)
    BY <1>1, <1>5, ByteTail
  <2>2. Says(n, W, S, c, Append(t, b), z)
    BY <1>2, <1>4, <1>5 DEF Says
  <2> QED
    BY <2>1, <2>2 DEF Parsed, W, B
<1>6. CASE Len(S) = n /\ z = "text" /\ v = Cat(T, t)
  <2>1. SplitByte(n, s, b) = Split(S, c, Append(t, b), z)
    BY <1>1, <1>6, ByteTail
  <2>2. W = Cat(T, Append(t, b))
    BY <1>2, <1>3, <1>4, <1>6, CatAssoc DEF W
  <2>3. Says(n, W, S, c, Append(t, b), z)
    BY <1>2, <1>4, <1>6, <2>2 DEF Says, T
  <2> QED
    BY <2>1, <2>3 DEF Parsed, W, B
<1>7. CASE Len(S) < n /\ z = "text" /\ t = <<>> /\ v = Cat(T, E)
  <2>0. Len(S) # n
    BY <1>2, <1>7
  <2>1. CASE b = 0
    <3>1. SplitByte(n, s, b) = Split(S, c, t, "nul")
      BY <1>1, <1>7, <2>0, <2>1, ByteOpen
    <3>2. Says(n, W, S, c, t, "nul")
      BY <1>2, <1>7, <2>1 DEF Says, W, B, T, E, Nul
    <3> QED
      BY <3>1, <3>2 DEF Parsed, W, B
  <2>2. CASE b # 0
    <3>1. SplitByte(n, s, b) = Split(S, Append(c, b), t, "text")
      BY <1>1, <1>7, <2>0, <2>2, ByteOpen
    <3>2. Append(c, b) \in Seq(Bytes) /\ Escape(Append(c, b)) = Cat(E, EscOf(b)) /\ EscOf(b) = B
      BY <1>2, <2>2, EscapeAppend, EscOfIs DEF E, B
    <3>3. W = Cat(T, Escape(Append(c, b)))
      BY <1>3, <1>7, <3>2, CatAssoc DEF W
    <3>4. Says(n, W, S, Append(c, b), t, "text")
      BY <1>2, <1>7, <3>2, <3>3 DEF Says, T
    <3> QED
      BY <3>1, <3>4 DEF Parsed, W, B
  <2> QED
    BY <2>1, <2>2
<1>8. CASE Len(S) < n /\ z = "nul" /\ t = <<>> /\ v = Cat(Cat(T, E), Nul)
  <2>0. Len(S) # n
    BY <1>2, <1>8
  <2>1. Nul \in Seq(Bytes) /\ Cat(E, Cat(Nul, B)) = Cat(Cat(E, Nul), B) /\ Cat(E, Nul) \in Seq(Bytes)
    BY <1>3, NulIs, CatAssoc, CatIs
  <2>2. W = Cat(T, Cat(E, Cat(Nul, B)))
    <3>1. v = Cat(T, Cat(E, Nul))
      BY <1>3, <1>8, <2>1, CatAssoc
    <3>2. Cat(Cat(T, Cat(E, Nul)), B) = Cat(T, Cat(Cat(E, Nul), B))
      BY <1>3, <2>1, CatAssoc
    <3> QED
      BY <2>1, <3>1, <3>2 DEF W
  <2>3. CASE b = 255
    <3>1. SplitByte(n, s, b) = Split(S, Append(c, 0), t, "text")
      BY <1>1, <1>8, <2>0, <2>3, BytePending
    <3>2. Append(c, 0) \in Seq(Bytes) /\ Escape(Append(c, 0)) = Cat(E, EscOf(0))
      <4>1. 0 \in Bytes
        BY ByteIs
      <4> QED
        BY <1>2, <4>1, EscapeAppend DEF E
    <3>3. Cat(Nul, B) = EscOf(0)
      <4>1. 0 \in Bytes /\ 255 \in Bytes
        BY ByteIs
      <4>2. EscOf(0) \in Seq(Bytes) /\ Len(EscOf(0)) = 2 /\ EscOf(0)[1] = 0 /\ EscOf(0)[2] = 255
        BY <4>1, EscOfIs
      <4> QED
        BY <2>3, <4>1, <4>2, Pairs DEF B
    <3>4. W = Cat(T, Escape(Append(c, 0)))
      BY <2>2, <3>2, <3>3
    <3>5. Says(n, W, S, Append(c, 0), t, "text")
      BY <1>2, <1>8, <3>2, <3>4 DEF Says, T
    <3> QED
      BY <3>1, <3>5 DEF Parsed, W, B
  <2>4. CASE b = 1
    <3> DEFINE A == Append(S, c)
    <3>1. SplitByte(n, s, b) = Split(A, <<>>, t, "text")
      BY <1>1, <1>8, <2>0, <2>4, BytePending
    <3>2. A \in Segments /\ Len(A) = Len(S) + 1 /\ Terminated(A) = Cat(T, Cat(E, Ending))
      BY <1>2, TermAppend DEF T, E, Closed
    <3>3. Cat(Nul, B) = Ending
      BY <2>4, EndingIs, Pairs DEF B
    <3>4. W = Terminated(A)
      BY <2>2, <3>2, <3>3
    <3>5. Terminated(A) = Cat(Terminated(A), <<>>)
      BY <3>2, TerminatedType, CatEmpty
    <3> HIDE DEF A
    <3>6. Len(A) \in Nat /\ Len(A) <= n
      BY <1>2, <1>8, <3>2
    <3>7. Len(A) = n \/ Len(A) < n
      BY <3>6
    <3>8. Says(n, W, A, <<>>, t, "text")
      BY <1>8, <3>2, <3>4, <3>5, <3>6, <3>7, EmptyParts DEF Says
    <3> QED
      BY <3>1, <3>8 DEF Parsed, W, B
  <2>5. CASE b # 255 /\ b # 1
    <3>1. SplitByte(n, s, b) = Split(S, c, t, "bad")
      BY <1>1, <1>8, <2>0, <2>5, BytePending
    <3>2. Says(n, W, S, c, t, "bad")
      BY <1>2 DEF Says
    <3> QED
      BY <3>1, <3>2 DEF Parsed, W, B
  <2> QED
    BY <2>3, <2>4, <2>5
<1> QED
  BY <1>1, <1>5, <1>6, <1>7, <1>8 DEF Says, T, E

(* split_segments takes only terminated heads and a tail. *)
LEMMA SplitTakes ==
    ASSUME NEW n \in Nat, NEW w \in Seq(Bytes), NEW r \in SplitSegments(w, n)
    PROVE  \E h \in Segments, last \in Seq(Bytes) :
              Len(h) = n /\ r = Append(h, last) /\ w = Cat(Terminated(h), last)
<1>1. PICK g : Run(n, w, Start, g) /\ Folded(n, w) = g[Len(w)]
  BY FoldedIs
<1>2. Len(w) \in Nat
  BY LenProperties
<1> DEFINE V(j) == SubSeq(w, 1, j)
           B == {j \in Nat : j <= Len(w) => Parsed(n, V(j), g[j])}
<1>3. 0 \in B
  <2>1. V(0) = <<>>
    BY SubSeqEmpty
  <2>2. g[0] = Split(<<>>, <<>>, <<>>, "text")
    BY <1>1 DEF Run, Start
  <2>3. <<>> = Cat(<<>>, <<>>)
    BY EmptyParts, CatEmpty
  <2>4. Says(n, <<>>, <<>>, <<>>, <<>>, "text")
    BY <2>3, EmptyParts DEF Says
  <2>5. Parsed(n, <<>>, g[0])
    BY <2>2, <2>4 DEF Parsed
  <2> QED
    BY <2>1, <2>5
<1>4. ASSUME NEW j \in Nat, j \in B PROVE j + 1 \in B
  <2> SUFFICES ASSUME j + 1 <= Len(w) PROVE Parsed(n, V(j + 1), g[j + 1])
    OBVIOUS
  <2>1. j <= Len(w) /\ j < Len(w) /\ j + 1 \in 1 .. Len(w) /\ (j + 1) - 1 = j
    BY <1>2
  <2>2. V(j) \in Seq(Bytes) /\ V(j + 1) = Append(V(j), w[j + 1]) /\ w[j + 1] \in Bytes
    BY <2>1, SubSeqGrows, FirstIs
  <2>3. Parsed(n, V(j), g[j])
    BY <1>4, <2>1
  <2>4. g[j + 1] = SplitByte(n, g[j], w[j + 1])
    BY <1>1, <2>1 DEF Run
  <2> HIDE DEF V
  <2>5. V(j + 1) = Cat(V(j), <<w[j + 1]>>)
    BY <2>2, AppendCat
  <2>6. Parsed(n, Cat(V(j), <<w[j + 1]>>), SplitByte(n, g[j], w[j + 1]))
    BY <2>2, <2>3, ParsedByte
  <2> QED
    BY <2>4, <2>5, <2>6
<1>5. Len(w) \in B
  <2> HIDE DEF B
  <2> QED
    BY <1>2, <1>3, <1>4, Inductive
<1> DEFINE end == Folded(n, w)
<1>6. Parsed(n, w, end)
  <2>1. V(Len(w)) = w
    BY SubSeqFull
  <2>2. Len(w) <= Len(w)
    BY <1>2
  <2>3. Parsed(n, V(Len(w)), g[Len(w)])
    BY <1>5, <2>2
  <2> HIDE DEF V, B
  <2> QED
    BY <1>1, <2>1, <2>3
<1>7. SplitSegments(w, n) = IF end.mode = "bad" \/ Len(end.segs) < n THEN {} ELSE {Append(end.segs, end.tail)}
  BY DEF SplitSegments, Folded, Start
<1> HIDE DEF end, V, B
<1>8. end.mode # "bad" /\ ~(Len(end.segs) < n) /\ r = Append(end.segs, end.tail)
  BY <1>7
<1>9. PICK S, c, t, z : end = Split(S, c, t, z) /\ Says(n, w, S, c, t, z)
  BY <1>6 DEF Parsed
<1>10. end.mode = z /\ end.segs = S /\ end.tail = t
  BY <1>9 DEF Split
<1>11. S \in Segments /\ t \in Seq(Bytes) /\ Len(S) = n /\ w = Cat(Terminated(S), t)
  BY <1>8, <1>9, <1>10 DEF Says
<1> QED
  BY <1>8, <1>10, <1>11

-------------------------------------------------------------------------------
(* Decoding. *)

LEMMA CatBack ==
    ASSUME NEW X, NEW p \in Seq(X), NEW b \in Seq(X), Begins(p, b)
    PROVE  /\ SubSeq(b, Len(p) + 1, Len(b)) \in Seq(X)
           /\ b = Cat(p, SubSeq(b, Len(p) + 1, Len(b)))
<1> DEFINE m == Len(p)  L == Len(b)  r == SubSeq(b, m + 1, L)
<1>1. m \in Nat /\ L \in Nat /\ m <= L /\ \A i \in 1 .. m : p[i] = b[i]
  BY LenProperties DEF Begins
<1>2. \A i \in m + 1 .. L : b[i] \in X
  BY <1>1, ElementOfSeq
<1>3. /\ r \in Seq(X) /\ Len(r) = IF m + 1 <= L THEN (L - (m + 1)) + 1 ELSE 0
      /\ \A i \in 1 .. (L - (m + 1)) + 1 : r[i] = b[((m + 1) + i) - 1]
  <2>0. m + 1 \in Int /\ L \in Int
    BY <1>1
  <2>1. /\ r \in Seq(X) /\ Len(r) = IF m + 1 <= L THEN L - (m + 1) + 1 ELSE 0
        /\ \A i \in 1 .. L - (m + 1) + 1 : r[i] = b[m + 1 + i - 1]
    BY <1>2, <2>0, SubSeqProperties
  <2> HIDE DEF r, m, L
  <2> QED
    BY <1>1, <2>1
<1> HIDE DEF r, m, L
<1>4. Len(r) = L - m /\ \A i \in 1 .. L - m : r[i] = b[m + i]
  <2>1. (L - (m + 1)) + 1 = L - m
    BY <1>1
  <2>2. Len(r) = L - m
    BY <1>1, <1>3
  <2>3. ASSUME NEW i \in 1 .. L - m PROVE r[i] = b[m + i]
    <3>1. ((m + 1) + i) - 1 = m + i
      BY <1>1
    <3> QED
      BY <1>3, <2>1, <3>1
  <2> QED
    BY <2>2, <2>3
<1> DEFINE v == Cat(p, r)
<1>5. v \in Seq(X) /\ IsCat(v, p, r)
  BY <1>3, CatIs
<1> HIDE DEF v
<1>6. /\ Len(v) = m + (L - m) /\ (\A i \in 1 .. m : v[i] = p[i])
      /\ \A i \in 1 .. L - m : v[m + i] = r[i]
  BY <1>4, <1>5 DEF IsCat, m
<1>7. ASSUME NEW i \in 1 .. L PROVE v[i] = b[i]
  <2>1. CASE i <= m
    BY <1>1, <1>6, <2>1
  <2>2. CASE i > m
    <3>1. i - m \in 1 .. L - m /\ m + (i - m) = i
      BY <1>1, <2>2
    <3>2. v[m + (i - m)] = r[i - m] /\ r[i - m] = b[m + (i - m)]
      BY <1>4, <1>6, <3>1
    <3> QED
      BY <3>1, <3>2
  <2> QED
    BY <1>1, <2>1, <2>2
<1>8. Len(v) = Len(b)
  BY <1>1, <1>6 DEF L
<1>9. v = b
  BY <1>5, <1>7, <1>8, SeqEqual DEF L
<1> QED
  BY <1>3, <1>9 DEF v, r, m, L

LEMMA CatRest ==
    ASSUME NEW X, NEW p \in Seq(X), NEW r \in Seq(X), NEW b, b = Cat(p, r)
    PROVE  SubSeq(b, Len(p) + 1, Len(b)) = r
<1> DEFINE q == SubSeq(b, Len(p) + 1, Len(b))
<1>1. b \in Seq(X) /\ Begins(p, b) /\ IsCat(b, p, r)
  BY CatIs, CatBegins
<1>2. q \in Seq(X) /\ b = Cat(p, q)
  BY <1>1, CatBack
<1> HIDE DEF q
<1>3. IsCat(b, p, q)
  BY <1>2, CatIs
<1>4. Len(q) = Len(r) /\ \A i \in 1 .. Len(q) : q[i] = r[i]
  <2>1. /\ Len(p) \in Nat /\ Len(r) \in Nat /\ Len(b) = Len(p) + Len(r)
        /\ \A i \in 1 .. Len(r) : b[Len(p) + i] = r[i]
    BY <1>1 DEF IsCat
  <2>2. /\ Len(q) \in Nat /\ Len(b) = Len(p) + Len(q)
        /\ \A i \in 1 .. Len(q) : b[Len(p) + i] = q[i]
    BY <1>3 DEF IsCat
  <2>3. Len(q) = Len(r)
    BY <2>1, <2>2
  <2> QED
    BY <2>1, <2>2, <2>3
<1>5. q = r
  BY <1>2, <1>4, SeqEqual
<1> QED
  BY <1>5 DEF q

(* decode of encode. *)
LEMMA DecodeOf ==
    ASSUME NEW k, KeyOK(k)
    PROVE  Decode(Encode(k)) = {k}
<1> DEFINE n == Heads(k.kind)  s == k.segs  h == SubSeq(s, 1, n)  last == s[n + 1]
           P == Prefix[k.kind]  E == Encode(k)
<1>0. k.kind \in Kinds /\ s \in Segments /\ n \in Nat /\ Len(s) = n + 1 /\ k = [kind |-> k.kind, segs |-> s]
  BY DEF KeyOK
<1>1. Begins(P, E) /\ E \in Seq(Bytes) /\ P \in Seq(Bytes)
  BY <1>0, KindBegins, KindPrefix
<1>2. h \in Segments /\ Len(h) = n /\ Append(h, last) = s /\ last \in Seq(Bytes)
  <2>1. n < Len(s) /\ n <= Len(s) /\ n + 1 = Len(s)
    BY <1>0
  <2>2. h \in Segments /\ Len(h) = n
    BY <1>0, <2>1, FirstIs DEF Segments
  <2>3. SubSeq(s, 1, n + 1) = Append(h, last) /\ last \in Seq(Bytes)
    BY <1>0, <2>1, SubSeqGrows DEF Segments
  <2>4. SubSeq(s, 1, n + 1) = s
    BY <1>0, <2>1, SubSeqFull DEF Segments
  <2> QED
    BY <2>2, <2>3, <2>4
<1>3. E = Cat(P, Cat(Terminated(h), last)) /\ Cat(Terminated(h), last) \in Seq(Bytes)
  <2>1. n \in 0 .. n
    BY <1>0
  <2>2. E = Cat(HeadPart(k, n), last) /\ ScanPrefix(k.kind, h) = HeadPart(k, n)
    BY <2>1, EncodeIs
  <2>3. HeadPart(k, n) = Cat(P, Terminated(h))
    BY <2>2 DEF ScanPrefix, Cat
  <2>4. Terminated(h) \in Seq(Bytes)
    BY <1>2, TerminatedType
  <2> HIDE DEF h, last, P, E
  <2> QED
    BY <1>1, <1>2, <2>2, <2>3, <2>4, CatAssoc, CatIs
<1> DEFINE Rest(x) == SubSeq(E, Len(Prefix[x]) + 1, Len(E))
           Ks == {x \in Kinds : IsPrefix(Prefix[x], E)}
<1>4. Rest(k.kind) = Cat(Terminated(h), last)
  <2> DEFINE r == Cat(Terminated(h), last)
  <2>1. r \in Seq(Bytes) /\ E = Cat(P, r)
    BY <1>3
  <2> HIDE DEF r, E, P
  <2>2. SubSeq(E, Len(P) + 1, Len(E)) = r
    BY <1>1, <2>1, CatRest
  <2> QED
    BY <2>2 DEF r, P
<1>5. SplitSegments(Rest(k.kind), Heads(k.kind)) = {s}
  <2>1. SplitSegments(Cat(Terminated(h), last), Len(h)) = {Append(h, last)}
    BY <1>2, SplitOf
  <2> QED
    BY <1>2, <1>4, <2>1
<1>6. Ks = {k.kind}
  <2>1. ASSUME NEW l \in Kinds, IsPrefix(Prefix[l], E), l # k.kind PROVE FALSE
    <3>1. PICK d \in Nat : FirstDiff(Prefix[k.kind], Prefix[l], d)
      BY <1>0, <2>1, PrefixesDiffer
    <3>2. Prefix[l] \in Seq(Bytes)
      BY KindPrefix
    <3>3. Begins(Prefix[l], E)
      BY <1>1, <2>1, <3>2, PrefixIs
    <3>4. FirstDiff(E, E, d)
      BY <1>1, <3>1, <3>2, <3>3, BeginsDiff
    <3> QED
      BY <3>4 DEF FirstDiff
  <2>2. IsPrefix(Prefix[k.kind], E)
    BY <1>1, PrefixIs
  <2> QED
    BY <1>0, <2>1, <2>2
<1>7. Decode(E) = UNION {{[kind |-> x, segs |-> segs] : segs \in SplitSegments(Rest(x), Heads(x))} : x \in Ks}
  BY DEF Decode
<1> HIDE DEF Rest, Ks, E, s
<1>8. Decode(E) = {[kind |-> k.kind, segs |-> segs] : segs \in SplitSegments(Rest(k.kind), Heads(k.kind))}
  BY <1>6, <1>7
<1>9. Decode(E) = {[kind |-> k.kind, segs |-> s]}
  BY <1>5, <1>8
<1> QED
  BY <1>0, <1>9 DEF E

(* encode of decode. *)
LEMMA EncodeOf ==
    ASSUME NEW b \in Seq(Bytes), NEW k \in Decode(b)
    PROVE  Encode(k) = b
<1> DEFINE Rest(z) == SubSeq(b, Len(Prefix[z]) + 1, Len(b))
<1>1. PICK x \in Kinds : /\ IsPrefix(Prefix[x], b)
                         /\ \E segs \in SplitSegments(Rest(x), Heads(x)) : k = [kind |-> x, segs |-> segs]
  BY DEF Decode
<1>2. PICK r \in SplitSegments(Rest(x), Heads(x)) : k = [kind |-> x, segs |-> r]
  BY <1>1
<1> DEFINE P == Prefix[x]
<1>3. P \in Seq(Bytes) /\ Begins(P, b)
  BY <1>1, KindPrefix, PrefixIs
<1>4. Rest(x) \in Seq(Bytes) /\ b = Cat(P, Rest(x))
  BY <1>3, CatBack
<1> HIDE DEF Rest, P
<1>5. PICK h \in Segments, last \in Seq(Bytes) :
         Len(h) = Heads(x) /\ r = Append(h, last) /\ Rest(x) = Cat(Terminated(h), last)
  BY <1>2, <1>4, HeadsType, SplitTakes
<1>6. Front(r) = h /\ Last(r) = last
  <2>0. h \in Seq(Seq(Bytes))
    BY DEF Segments
  <2>1. /\ r \in Seq(Seq(Bytes)) /\ Len(r) = Len(h) + 1 /\ Len(h) \in Nat
        /\ (\A i \in 1 .. Len(h) : r[i] = h[i]) /\ r[Len(h) + 1] = last
    BY <1>5, <2>0, AppendProperties, LenProperties
  <2>2. Len(r) - 1 = Len(h) /\ Len(h) <= Len(r)
    BY <2>1
  <2> DEFINE f == SubSeq(r, 1, Len(h))
  <2>3. f \in Seq(Seq(Bytes)) /\ Len(f) = Len(h) /\ \A i \in 1 .. Len(h) : f[i] = r[i]
    BY <2>1, <2>2, FirstIs
  <2>4. Front(r) = f /\ Last(r) = last
    BY <2>1, <2>2 DEF Front, Last
  <2> HIDE DEF f
  <2>a. \A i \in 1 .. Len(f) : f[i] = h[i]
    BY <2>1, <2>3
  <2>5. f = h
    BY <2>0, <2>3, <2>a, SeqEqual
  <2> QED
    BY <2>4, <2>5
<1>7. Encode(k) = Cat(Cat(P, Terminated(h)), last)
  BY <1>2, <1>6 DEF Encode, Cat, P
<1>8. Terminated(h) \in Seq(Bytes)
  BY TerminatedType
<1> QED
  BY <1>3, <1>4, <1>5, <1>7, <1>8, CatAssoc

(* KeyRange::prefix of a string's own beginnings, and of their neighbours. *)
LEMMA PrefixesExact ==
    ASSUME NEW r \in Seq(Bytes), NEW n \in 0 .. Len(r), NEW b \in Bytes
    PROVE  /\ UnderPrefix(SubSeq(r, 1, n), r)
           /\ UnderPrefix(SubSeq(r, 1, n), SubSeq(r, 1, n - 1) \o <<b>>) <=> (n = 0 \/ b = r[n])
<1> DEFINE p == SubSeq(r, 1, n)  x == SubSeq(r, 1, n - 1)  B == <<b>>  y == Cat(x, B)
<1>0. Len(r) \in Nat /\ n \in Nat /\ n <= Len(r)
  BY LenProperties
<1>1. p \in Seq(Bytes) /\ Len(p) = n /\ \A i \in 1 .. n : p[i] = r[i]
  BY <1>0, FirstIs
<1>2. x \in Seq(Bytes) /\ (n = 0 => Len(x) = 0) /\ (n # 0 => Len(x) = n - 1)
      /\ \A i \in 1 .. n - 1 : x[i] = r[i]
  <2>1. CASE n = 0
    <3>1. x = <<>>
      BY <2>1, SubSeqEmpty
    <3> QED
      BY <2>1, <3>1, EmptyParts
  <2>2. CASE n # 0
    <3>1. n - 1 \in Nat /\ n - 1 <= Len(r)
      BY <1>0, <2>2
    <3> QED
      BY <2>2, <3>1, FirstIs
  <2> QED
    BY <2>1, <2>2
<1>3. B \in Seq(Bytes) /\ Len(B) = 1 /\ B[1] = b
  OBVIOUS
<1>4. y \in Seq(Bytes) /\ IsCat(y, x, B)
  BY <1>2, <1>3, CatIs
<1>5. SubSeq(r, 1, n - 1) \o <<b>> = y
  BY DEF Cat
<1> HIDE DEF p, x, B, y
<1>6. Begins(p, r)
  BY <1>0, <1>1 DEF Begins
<1>7. Begins(p, y) <=> (n = 0 \/ b = r[n])
  <2>1. CASE n = 0
    BY <1>1, <1>2, <1>3, <1>4, <2>1 DEF Begins, IsCat
  <2>2. CASE n # 0
    <3>1. Len(y) = n /\ (\A i \in 1 .. n - 1 : y[i] = x[i]) /\ y[(n - 1) + 1] = b
      BY <1>0, <1>2, <1>3, <1>4, <2>2 DEF IsCat
    <3>2. y[n] = b /\ (\A i \in 1 .. n - 1 : y[i] = r[i]) /\ n \in 1 .. n
      BY <1>0, <1>2, <2>2, <3>1
    <3> QED
      <4>1. Begins(p, y) => b = r[n]
        BY <1>1, <3>2 DEF Begins
      <4>2. ASSUME b = r[n], NEW i \in 1 .. n PROVE p[i] = y[i]
        <5>1. i \in 1 .. n - 1 \/ i = n
          BY <1>0
        <5> QED
          BY <1>1, <3>2, <4>2, <5>1
      <4>3. b = r[n] => Begins(p, y)
        BY <1>0, <1>1, <3>1, <4>2 DEF Begins
      <4> QED
        BY <2>2, <4>1, <4>3
  <2> QED
    BY <2>1, <2>2
<1>8. UnderPrefix(p, r) /\ (UnderPrefix(p, y) <=> Begins(p, y))
  BY <1>1, <1>4, <1>6, UnderPrefixIs
<1> QED
  BY <1>5, <1>7, <1>8 DEF p

(* The unified keyspace: whatever keys are written and bytes read, keys and
   their encodings are one to one, decode takes nothing but encodings, byte
   order is key order, and a scan prefix covers its own keys and no others. *)
THEOREM KeysStayExact == KeySpec => []KeysExact
<1> DEFINE Inv == keys \in Seq(SampleKeys) /\ (raw = <<>> \/ \E b \in SampleBytes : raw = <<b>>)
<1>1. KeyInit => Inv
  BY DEF KeyInit
<1>2. Inv /\ [KeySteps]_keyVars => Inv'
  <2> SUFFICES ASSUME Inv, [KeySteps]_keyVars PROVE Inv'
    OBVIOUS
  <2>1. CASE UNCHANGED keyVars
    BY <2>1 DEF keyVars
  <2>2. CASE WriteKey
    BY <2>2, AppendProperties DEF WriteKey
  <2>3. CASE ReadBytes
    BY <2>3 DEF ReadBytes
  <2> QED
    BY <2>1, <2>2, <2>3 DEF KeySteps
<1>3. Inv => KeysExact
  <2> SUFFICES ASSUME Inv PROVE KeysExact
    OBVIOUS
  <2>1. ASSUME NEW k \in SampleKeys PROVE KeyOK(k)
    BY KeyConstants, HeadsType DEF KeyOK, Segments
  <2>2. ASSUME NEW i \in DOMAIN keys PROVE KeyOK(keys[i])
    BY <2>1, LenProperties, ElementOfSeq
  <2>3. ASSUME NEW i \in DOMAIN raw PROVE raw[i] \in Seq(Bytes)
    BY KeyConstants
  <2>4. \A i \in DOMAIN keys : Decode(Encode(keys[i])) = {keys[i]}
    BY <2>2, DecodeOf
  <2>5. \A i \in DOMAIN raw : \A k \in Decode(raw[i]) : Encode(k) = raw[i]
    BY <2>3, EncodeOf
  <2>6. ASSUME NEW i \in DOMAIN raw, NEW n \in 0 .. Len(raw[i]), NEW b \in NearBytes
        PROVE  /\ UnderPrefix(SubSeq(raw[i], 1, n), raw[i])
               /\ UnderPrefix(SubSeq(raw[i], 1, n), SubSeq(raw[i], 1, n - 1) \o <<b>>)
                    = (n = 0 \/ b = raw[i][n])
    <3>1. b \in Bytes
      BY ByteIs DEF NearBytes
    <3>2. /\ UnderPrefix(SubSeq(raw[i], 1, n), raw[i])
          /\ UnderPrefix(SubSeq(raw[i], 1, n), SubSeq(raw[i], 1, n - 1) \o <<b>>) <=> (n = 0 \/ b = raw[i][n])
      BY <2>3, <3>1, PrefixesExact
    <3>3. UnderPrefix(SubSeq(raw[i], 1, n), SubSeq(raw[i], 1, n - 1) \o <<b>>) = (n = 0 \/ b = raw[i][n])
      BY <3>2 DEF UnderPrefix
    <3> QED
      BY <3>2, <3>3
  <2>7. ASSUME Len(keys) = 2, NEW k, NEW l, k = keys[1], l = keys[2]
        PROVE  IF k.kind # l.kind
               THEN BytesBelow(Encode(k), Encode(l)) = BytesBelow(Prefix[k.kind], Prefix[l.kind])
               ELSE /\ BytesBelow(Encode(k), Encode(l)) = SegmentsBelow(k.segs, l.segs)
                    /\ \A n \in 0 .. Heads(k.kind) :
                          UnderPrefix(ScanPrefix(k.kind, SubSeq(k.segs, 1, n)), Encode(l))
                             = (SubSeq(l.segs, 1, n) = SubSeq(k.segs, 1, n))
    <3>1. 1 \in DOMAIN keys /\ 2 \in DOMAIN keys
      BY <2>7, LenProperties
    <3>2. KeyOK(k) /\ KeyOK(l)
      BY <2>2, <2>7, <3>1
    <3>3. CASE k.kind # l.kind
      <4>1. BytesBelow(Encode(k), Encode(l)) <=> BytesBelow(Prefix[k.kind], Prefix[l.kind])
        BY <3>2, <3>3, KindsApart
      <4>2. BytesBelow(Encode(k), Encode(l)) = BytesBelow(Prefix[k.kind], Prefix[l.kind])
        BY <4>1 DEF BytesBelow
      <4> QED
        BY <3>3, <4>2
    <3>4. CASE k.kind = l.kind
      <4>1. BytesBelow(Encode(k), Encode(l)) <=> SegmentsBelow(k.segs, l.segs)
        BY <3>2, <3>4, KeysOrdered
      <4>2. BytesBelow(Encode(k), Encode(l)) = SegmentsBelow(k.segs, l.segs)
        BY <4>1 DEF BytesBelow, SegmentsBelow
      <4>3. ASSUME NEW n \in 0 .. Heads(k.kind)
            PROVE  UnderPrefix(ScanPrefix(k.kind, SubSeq(k.segs, 1, n)), Encode(l))
                     = (SubSeq(l.segs, 1, n) = SubSeq(k.segs, 1, n))
        <5>1. UnderPrefix(ScanPrefix(k.kind, SubSeq(k.segs, 1, n)), Encode(l))
                 <=> SubSeq(l.segs, 1, n) = SubSeq(k.segs, 1, n)
          BY <3>2, <3>4, ScansExact
        <5> QED
          BY <5>1 DEF UnderPrefix
      <4> QED
        BY <3>4, <4>2, <4>3
    <3> QED
      BY <3>3, <3>4
  <2> QED
    BY <2>4, <2>5, <2>6, <2>7 DEF KeysExact
<1> QED
  BY <1>1, <1>2, <1>3, PTL DEF KeySpec
=============================================================================
