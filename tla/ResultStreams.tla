----------------------------- MODULE ResultStreams -----------------------------
(***************************************************************************)
(* A streamed query result (src/distributed/streaming.rs): a producer with *)
(* a StreamSender, a bounded channel, and a consumer that collects a       *)
(* BatchedStream over the ResultStream.  A stream of single items is the   *)
(* case of batches of one.  ResultStream's prefetch buffer is never        *)
(* filled, so it is left out.                                              *)
(***************************************************************************)
EXTENDS Integers, Sequences, SequencesExt

CONSTANTS
    Batches,        \* the batches a producer sends
    ChanCap,        \* buffer_size of create_stream
    MaxSends

Items == UNION {Range(b) : b \in Batches}

ASSUME StreamConstants ==
    ChanCap \in Nat \ {0} /\ MaxSends \in Nat /\ Batches \subseteq Seq(Items)

VARIABLES
    chan,           \* the mpsc channel
    closed,         \* the sender is dropped
    dropped,        \* the receiver is dropped
    complete,       \* ResultStream::complete
    current,        \* BatchedStream::current_batch
    got,            \* what collect has pushed
    outcome,        \* "running", or what collect returned: "ok", "err"
    sent            \* history: what the channel accepted

streamVars == <<chan, closed, dropped, complete, current, got, outcome, sent>>

StreamError == [err |-> TRUE]

Batch(b) == [err |-> FALSE, items |-> b]

StreamInit ==
    /\ chan = <<>> /\ sent = <<>> /\ current = <<>> /\ got = <<>>
    /\ closed = FALSE /\ dropped = FALSE /\ complete = FALSE
    /\ outcome = "running"

(* send waits while the channel is full and fails once the receiver is gone. *)
StreamSend == \E m \in {Batch(b) : b \in Batches} \cup {StreamError} :
    /\ ~closed /\ ~dropped
    /\ Len(chan) < ChanCap /\ Len(sent) < MaxSends
    /\ chan' = Append(chan, m)
    /\ sent' = Append(sent, m)
    /\ UNCHANGED <<closed, dropped, complete, current, got, outcome>>

(* The producer is through, or a send failed. *)
SenderDrop ==
    /\ ~closed
    /\ closed' = TRUE
    /\ UNCHANGED <<chan, dropped, complete, current, got, outcome, sent>>

(* collect consumes the stream: the receiver goes with its return. *)
CollectReturns(result) == outcome' = result /\ dropped' = TRUE

TakeCurrent ==
    /\ outcome = "running" /\ current # <<>>
    /\ got' = Append(got, Head(current))
    /\ current' = Tail(current)
    /\ UNCHANGED <<chan, closed, dropped, complete, outcome, sent>>

(* Mutant: a batch replaces the one being served. *)
TakeBatch_Overwrites ==
    /\ outcome = "running" /\ ~complete
    /\ chan # <<>> /\ ~Head(chan).err
    /\ chan' = Tail(chan)
    /\ LET b == Head(chan).items IN
       \/ /\ b # <<>>
          /\ got' = Append(got, Head(b)) /\ current' = Tail(b)
          /\ UNCHANGED <<outcome, dropped>>
       \/ b = <<>> /\ CollectReturns("ok") /\ UNCHANGED <<got, current>>
    /\ UNCHANGED <<closed, complete, sent>>

(* An empty batch has no first item: next answers None and collect ends. *)
TakeBatch ==
    /\ outcome = "running" /\ ~complete /\ current = <<>>
    /\ chan # <<>> /\ ~Head(chan).err
    /\ chan' = Tail(chan)
    /\ LET b == Head(chan).items IN
       \/ /\ b # <<>>
          /\ got' = Append(got, Head(b)) /\ current' = Tail(b)
          /\ UNCHANGED <<outcome, dropped>>
       \/ b = <<>> /\ CollectReturns("ok") /\ UNCHANGED <<got, current>>
    /\ UNCHANGED <<closed, complete, sent>>

TakeError ==
    /\ outcome = "running" /\ ~complete /\ current = <<>>
    /\ chan # <<>> /\ Head(chan).err
    /\ chan' = Tail(chan)
    /\ complete' = TRUE
    /\ CollectReturns("err")
    /\ UNCHANGED <<closed, current, got, sent>>

TakeEnd ==
    /\ outcome = "running" /\ ~complete /\ current = <<>>
    /\ chan = <<>> /\ closed
    /\ complete' = TRUE
    /\ CollectReturns("ok")
    /\ UNCHANGED <<chan, closed, current, got, sent>>

StreamTake == TakeCurrent \/ TakeBatch \/ TakeError \/ TakeEnd

StreamNext == StreamSend \/ SenderDrop \/ StreamTake

StreamSpec == StreamInit /\ [][StreamNext]_streamVars

-------------------------------------------------------------------------------
(* The items sent before the first error. *)
Wanted ==
    LET errors == {i \in DOMAIN sent : sent[i].err}
        upto   == IF errors = {} THEN Len(sent) ELSE (CHOOSE i \in errors : \A j \in errors : i <= j) - 1
    IN  FlattenSeq([i \in 1 .. upto |-> sent[i].items])

(* What the word "all" of BatchedStream::collect says: an Ok has every item
   the producer sent before an error.  A batch without items breaks it: next
   answers None for it, and collect stops there.                           *)
CollectsAll == outcome = "ok" => got = Wanted

NoEmptyBatch == \A i \in DOMAIN sent : ~sent[i].err => sent[i].items # <<>>

(* Whatever the pace of the two tasks, a collect has at every moment the items
   sent first, each once and in order and none from behind an error; and where
   no batch is empty it answers Ok with all of them and never hides an error. *)
CollectExact ==
    /\ IsPrefix(got \o current, Wanted)
    /\ NoEmptyBatch => /\ CollectsAll
                       /\ outcome = "ok" => \A i \in DOMAIN sent : ~sent[i].err
================================================================================
