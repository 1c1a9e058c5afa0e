--------------------------- MODULE PeerDiscovery ---------------------------
(***************************************************************************)
(* How the nodes of the overlay learn of each other: bootstrap lists,      *)
(* announcements, requests for peers and the answers to them, the hour     *)
(* after which an unheard-of peer is forgotten, and the peer database that *)
(* survives a restart.                                                     *)
(*                                                                         *)
(* An answer is sent with a signature field nobody writes: its bytes are   *)
(* indeterminate, and the receiver drops the message when they are all     *)
(* zero.  A node asked for peers when it knows nobody to name divides by   *)
(* zero in select_random_peers (generate_uint64() % 0) and goes down.      *)
(* The bootstrap flag is set on a copy, so no peer ever carries it.        *)
(* Nothing in the repository sends announcements or requests yet: announce *)
(* and request_peers stand for peers that do.                              *)
(***************************************************************************)
EXTENDS Integers, FiniteSets

CONSTANTS
    Node,
    Bootstrap,  \* the nodes of everyone's bootstrap list
    Stale,      \* PEER_STALE_TIMEOUT
    Fresh,      \* 300 seconds: how old a message may be
    MaxTime,    \* bound: ticks of the clock
    MaxSent     \* bound: messages sent

VARIABLES
    discovered_peers, \* [Node -> a function from known peers to last_seen]
    up,               \* the nodes that run
    disk,             \* the peer database each node saved last
    wire,             \* messages that were sent, to be delivered at any time
    sent, clock

vars == <<discovered_peers, up, disk, wire, sent, clock>>

Empty == [m \in {} |-> 0]

\* The messages: what from_bytes reads back of what to_bytes wrote.
PeerAnnouncementMessage(n) == [type |-> "announcement", node |-> n, at |-> clock]
PeerRequestMessage(n, m) == [type |-> "request", from |-> n, to |-> m, at |-> clock]
PeerResponseMessage(n, m, peers) ==
    [type |-> "response", from |-> n, to |-> m, peers |-> peers, at |-> clock]

Init ==
    /\ discovered_peers = [n \in Node |-> Empty] /\ disk = [n \in Node |-> Empty]
    /\ up = Node /\ wire = {} /\ sent = 0 /\ clock = 0

-----------------------------------------------------------------------------
is_stale(last_seen) == clock - last_seen > Stale

\* add_discovered_peer: now is when it was seen, whoever told us and however
\* long ago they saw it themselves.
add_discovered_peers(n, peers) ==
    discovered_peers' = [discovered_peers EXCEPT ![n] =
        [m \in DOMAIN @ \cup peers |-> IF m \in peers THEN clock ELSE @[m]]]

Send(msg) == sent < MaxSent /\ sent' = sent + 1 /\ wire' = wire \cup {msg}

on_time(msg) == clock - msg.at <= Fresh

\* Every bootstrap node is added and a connection to it is tried.
connect_to_bootstrap_nodes(n) ==
    /\ n \in up /\ Bootstrap \ {n} # {}
    /\ add_discovered_peers(n, Bootstrap \ {n})
    /\ UNCHANGED <<up, disk, wire, sent, clock>>

\* A signed announcement, carried by gossip to everyone, its author included.
announce(n) ==
    /\ n \in up
    /\ Send(PeerAnnouncementMessage(n))
    /\ UNCHANGED <<discovered_peers, up, disk, clock>>

\* Mutant: an announcement of one's own that comes back is not dropped.
handle_announcement_of_anyone(n, msg) ==
    /\ n \in up /\ msg.type = "announcement"
    /\ on_time(msg)
    /\ add_discovered_peers(n, {msg.node})
    /\ UNCHANGED <<up, disk, wire, sent, clock>>

handle_peer_announcement(n, msg) ==
    /\ n \in up /\ msg.type = "announcement"
    /\ on_time(msg) /\ msg.node # n
    /\ add_discovered_peers(n, {msg.node})
    /\ UNCHANGED <<up, disk, wire, sent, clock>>

request_peers(n, m) ==
    /\ n \in up /\ m \in DOMAIN discovered_peers[n]
    /\ Send(PeerRequestMessage(n, m))
    /\ UNCHANGED <<discovered_peers, up, disk, clock>>

\* Peers worth naming to somebody: not themselves, not us, not stale.
candidates(n, m) ==
    {p \in DOMAIN discovered_peers[n] \ {n, m} : ~is_stale(discovered_peers[n][p])}

\* Some of the candidates, at random.
handle_peer_request(n, msg, peers) ==
    /\ n \in up /\ msg.type = "request" /\ msg.to = n /\ on_time(msg)
    /\ peers \subseteq candidates(n, msg.from) /\ peers # {}
    /\ Send(PeerResponseMessage(n, msg.from, peers))
    /\ UNCHANGED <<discovered_peers, up, disk, clock>>

\* The shuffle starts at size() - 1, which for no candidates is the largest
\* size_t, and takes a random number modulo that plus one.
select_random_peers_of_none(n, msg) ==
    /\ n \in up /\ msg.type = "request" /\ msg.to = n /\ on_time(msg)
    /\ candidates(n, msg.from) = {}
    /\ up' = up \ {n}
    /\ UNCHANGED <<discovered_peers, disk, wire, sent, clock>>

\* A response whose signature bytes happen not to be all zero; one from a peer
\* that is not connected is never looked at and just stays on the wire.
handle_peer_response(n, msg) ==
    /\ n \in up /\ msg.type = "response" /\ msg.to = n /\ on_time(msg)
    /\ add_discovered_peers(n, msg.peers \ {n})
    /\ UNCHANGED <<up, disk, wire, sent, clock>>

cleanup_stale_peers(n) ==
    LET kept == {m \in DOMAIN discovered_peers[n] : ~is_stale(discovered_peers[n][m])} IN
    /\ n \in up /\ kept # DOMAIN discovered_peers[n]
    /\ discovered_peers' = [discovered_peers EXCEPT ![n] = [m \in kept |-> @[m]]]
    /\ UNCHANGED <<up, disk, wire, sent, clock>>

save_to_disk(n) ==
    /\ n \in up
    /\ disk' = [disk EXCEPT ![n] = discovered_peers[n]]
    /\ UNCHANGED <<discovered_peers, up, wire, sent, clock>>

\* The node goes away without saving.
stop(n) ==
    /\ n \in up /\ up' = up \ {n}
    /\ UNCHANGED <<discovered_peers, disk, wire, sent, clock>>

\* It comes back and reads what it saved.
load_from_disk(n) ==
    /\ n \notin up /\ up' = up \cup {n}
    /\ discovered_peers' = [discovered_peers EXCEPT ![n] = disk[n]]
    /\ UNCHANGED <<disk, wire, sent, clock>>

Tick ==
    /\ clock < MaxTime /\ clock' = clock + 1
    /\ UNCHANGED <<discovered_peers, up, disk, wire, sent>>

Next ==
    \/ Tick
    \/ \E n \in Node :
        \/ connect_to_bootstrap_nodes(n) \/ announce(n) \/ cleanup_stale_peers(n)
        \/ save_to_disk(n) \/ stop(n) \/ load_from_disk(n)
        \/ \E m \in Node : request_peers(n, m)
        \/ \E msg \in wire :
            \/ handle_peer_announcement(n, msg)
            \/ \E peers \in SUBSET Node : handle_peer_request(n, msg, peers)
            \/ select_random_peers_of_none(n, msg)
            \/ handle_peer_response(n, msg)

Spec == Init /\ [][Next]_vars

-----------------------------------------------------------------------------
\* A node never takes itself for a peer, in memory or in the database it will
\* read back: it would connect to itself and name itself to others.
OnlyOthersKnown ==
    \A n \in Node : n \notin DOMAIN discovered_peers[n] /\ n \notin DOMAIN disk[n]
=============================================================================
