-------------------------- MODULE ReplicatedCatalog --------------------------
(***************************************************************************)
(* What the placement-driver group promises: every replica durably holds   *)
(* the catalog of some prefix of the committed log, and the prefix only    *)
(* grows.  How it grows (entry by entry, by a snapshot, across crashes) is *)
(* the implementation's business.  A replica may stray: its rows need not  *)
(* be those of the prefix any more, which goes on to grow.                 *)
(***************************************************************************)
EXTENDS Catalog, Sequences

CONSTANTS Replicas, Logs

VARIABLES log,       \* the committed log
          durable,   \* durable[r]: rows on r's disk and the index they stand for
          strays     \* replicas that may hold other rows

LogLen == Len(log)

(* Blank and membership entries carry no catalog command. *)
IsCommand(entry) == entry.op \notin {"Blank", "Membership"}

(* The catalogs the prefixes of a log l define. *)
CatalogsOf(l) ==
    LET at[n \in 0 .. Len(l)] ==
            IF n = 0 THEN NewCatalog
            ELSE IF IsCommand(l[n]) THEN Apply(at[n - 1], l[n])
            ELSE at[n - 1]
    IN  at

(* The Raft meta row after n entries: the count and the last membership. *)
MetaOf(l, n) ==
    [last |-> n, member |-> Max({0} \cup {i \in 1 .. n : l[i].op = "Membership"})]

(* The rows and the meta row the first n entries leave. *)
RowsOf(l, n) ==
    [ranges |-> CatalogsOf(l)[n].ranges, nodes |-> CatalogsOf(l)[n].nodes,
     meta |-> MetaOf(l, n)]

CatalogAt(n) == CatalogsOf(log)[n]
RowsAt(n) == RowsOf(log, n)

Init ==
    /\ log \in Logs
    /\ durable = [r \in Replicas |-> RowsAt(0)]
    /\ strays = {}

(* Replica r goes on to any longer prefix, in one step. *)
Advance(r) ==
    /\ \E n \in durable[r].meta.last + 1 .. LogLen :
          /\ durable' = [durable EXCEPT ![r] = durable'[r]]
          /\ durable'[r].meta = MetaOf(log, n)
          /\ r \notin strays => durable'[r] = RowsAt(n)
    /\ UNCHANGED strays

Stray(r) == strays' = strays \cup {r} /\ UNCHANGED durable

Next == UNCHANGED log /\ \E r \in Replicas : Advance(r) \/ Stray(r)

Spec == Init /\ [][Next]_<<log, durable, strays>>
==============================================================================
