----------------------------- MODULE RaftTransport -----------------------------
(***************************************************************************)
(* One replication target of one Raft group over gRPC: the connection and  *)
(* its cached channel (crates/aresadb-net/src/client.rs), the server that  *)
(* hands an RPC to the group it names (server.rs), and the peer directory  *)
(* the admin service and the membership watcher write                      *)
(* (crates/aresadb-cluster/src/admin.rs, node.rs).  Nodes move between     *)
(* addresses and may take over an address another node has left.           *)
(***************************************************************************)
EXTENDS Integers, FiniteSets

CONSTANTS
    TransportPeers,
    Target,         \* the peer replicated to
    Addresses,      \* "" is none
    MaxMoves

ASSUME TransportConstants == Target \in TransportPeers /\ "" \notin Addresses /\ MaxMoves \in Nat

VARIABLES
    home,           \* where each peer listens, "" if it is down
    hosts,          \* the peers whose RangeDirectory holds the group
    memberAddr,     \* the target's address in the default range's membership
    peerAddr,       \* StaticPeerDirectory: the target's entry
    synced,         \* the watcher has seen the current metrics
    channel,        \* the cached channel, by the address it was dialled at
    reached,        \* the peer the last RPC was handed to, or {}
    moves

transportVars == <<home, hosts, memberAddr, peerAddr, synced, channel, reached, moves>>

TransportInit ==
    /\ home \in {h \in [TransportPeers -> Addresses \cup {""}] :
                    /\ \A p, q \in TransportPeers : p # q /\ h[p] = h[q] => h[p] = ""
                    /\ \A p \in TransportPeers \ {Target} : h[p] = ""}
    /\ hosts = TransportPeers
    /\ memberAddr = "" /\ peerAddr = "" /\ synced = TRUE
    /\ channel = "" /\ reached = {} /\ moves = 0

At(address) == {p \in TransportPeers : address # "" /\ home[p] = address}

-------------------------------------------------------------------------------
(* client(): the cached channel, or one dialled at the directory's entry. *)
Dial ==
    /\ channel = ""
    /\ At(peerAddr) # {}
    /\ channel' = peerAddr
    /\ UNCHANGED <<home, hosts, memberAddr, peerAddr, synced, reached, moves>>

(* The RPC reaches the server at the channel's address, which looks only at
   the group id. *)
Deliver ==
    /\ channel # ""
    /\ \E p \in At(channel) \cap hosts : reached' = {p}
    /\ UNCHANGED <<home, hosts, memberAddr, peerAddr, synced, channel, moves>>

(* A mutant: a failed RPC leaves the channel in place. *)
RpcFails_NoReset ==
    /\ channel # "" /\ At(channel) \cap hosts = {}
    /\ reached' = {}
    /\ UNCHANGED <<home, hosts, memberAddr, peerAddr, synced, channel, moves>>

(* No server, or no such group there (NotFound): reset. *)
RpcFails ==
    /\ channel # "" /\ At(channel) \cap hosts = {}
    /\ channel' = "" /\ reached' = {}
    /\ UNCHANGED <<home, hosts, memberAddr, peerAddr, synced, moves>>

-------------------------------------------------------------------------------
(* add_learner (and initialize) writes the directory first, then asks Raft,
   which may refuse. *)
AddLearner(address, accepted) ==
    /\ moves < MaxMoves /\ moves' = moves + 1
    /\ peerAddr' = address
    /\ IF accepted THEN memberAddr' = address /\ synced' = FALSE
       ELSE UNCHANGED <<memberAddr, synced>>
    /\ UNCHANGED <<home, hosts, channel, reached>>

(* sync_directory and spawn_membership_watcher, on a change of the metrics;
   entries are only ever added or replaced. *)
WatchMembership ==
    /\ ~synced
    /\ synced' = TRUE
    /\ peerAddr' = IF memberAddr = "" THEN peerAddr ELSE memberAddr
    /\ UNCHANGED <<home, hosts, memberAddr, channel, reached, moves>>

(* Raft's metrics change: terms, indexes, another member. *)
MetricsChange ==
    /\ synced /\ synced' = FALSE
    /\ moves < MaxMoves /\ moves' = moves + 1
    /\ UNCHANGED <<home, hosts, memberAddr, peerAddr, channel, reached>>

(* A peer stops, or comes up at an address nobody has. *)
Relocate(p, address) ==
    /\ home[p] # address /\ At(address) = {} /\ moves < MaxMoves
    /\ home' = [home EXCEPT ![p] = address]
    /\ moves' = moves + 1
    /\ UNCHANGED <<hosts, memberAddr, peerAddr, synced, channel, reached>>

(* AddRange and RemoveRange on a peer. *)
HostChanges(p) ==
    /\ moves < MaxMoves /\ moves' = moves + 1
    /\ hosts' = IF p \in hosts THEN hosts \ {p} ELSE hosts \cup {p}
    /\ UNCHANGED <<home, memberAddr, peerAddr, synced, channel, reached>>

TransportSteps ==
    \/ Dial \/ Deliver \/ RpcFails \/ WatchMembership \/ MetricsChange
    \/ \E a \in Addresses, ok \in BOOLEAN : AddLearner(a, ok)
    \/ \E p \in TransportPeers, a \in Addresses \cup {""} : Relocate(p, a)
    \/ \E p \in TransportPeers : HostChanges(p)

(* openraft keeps replicating to the target; the watcher's task is polled. *)
TransportFairness ==
    /\ WF_transportVars(Dial) /\ WF_transportVars(Deliver)
    /\ WF_transportVars(RpcFails) /\ WF_transportVars(WatchMembership)

-------------------------------------------------------------------------------
(* Once the target is up, hosts the group and has the address the directory
   and the membership give, replication reaches it for good, whatever channel
   was cached before; unless another node that hosts the group has taken over
   the address of the old channel: nothing on the wire names the target, so
   that node gets the RPCs and the channel never fails. *)
TargetReached ==
    (<>[](Target \in At(peerAddr) /\ memberAddr = peerAddr /\ Target \in hosts
            /\ At(channel) \cap hosts \subseteq {Target}))
        => <>[](reached = {Target})
================================================================================
