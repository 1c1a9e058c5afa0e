------------------------------- MODULE Gossip -------------------------------
(***************************************************************************)
(* GossipProtocol of src/network/gossip.cpp: epidemic propagation with a   *)
(* cache of seen message ids, a hop limit and an age limit.                *)
(*                                                                         *)
(* Every node reads its own clock.  The age of a message is an unsigned    *)
(* difference, so a message stamped ahead of the receiver's clock counts   *)
(* as too old.  Packets are lost or arrive late and in any order; each     *)
(* message id is broadcast once (create_* digest a fresh timestamp).       *)
(***************************************************************************)
EXTENDS Integers, Sequences, FiniteSetsExt

CONSTANTS
    Node,
    Msg,             \* message ids
    Fanout,          \* fanout_ (3)
    MaxHops,         \* GossipMessage::MAX_HOPS (10)
    MaxAge,          \* GossipMessage::MAX_AGE_SECONDS (300)
    SeenTTL,         \* SEEN_MESSAGE_TTL_SECONDS (600)
    MaxSeen,         \* max_seen_messages_ (10000)
    NotSent,
    MaxTime          \* bound: last clock value explored

ASSUME GossipAssumption ==
    /\ MaxHops \in Nat /\ Fanout \in Nat
    /\ MaxAge \in Nat /\ SeenTTL \in Nat /\ MaxAge <= SeenTTL
    /\ MaxSeen \in Nat \ {0}
    /\ MaxTime \in Nat \ {0}
    /\ NotSent \notin Nat

VARIABLES
    clock,           \* clock[n]
    peers,           \* peers[n]: peers_
    seen,            \* seen[n]: seen_messages_, oldest first
    born,            \* born[m]: timestamp of message m
    wire,            \* packets under way
    handled,         \* history: handled[n]: messages n has called invoke_handlers for
                     \* and that no full cache has pushed out since
    repeated         \* history: repeated[n]: messages handled although in handled[n]

vars == <<clock, peers, seen, born, wire, handled, repeated>>

-----------------------------------------------------------------------------

Packet(from, to, m, hops) == [from |-> from, to |-> to, id |-> m, hop_count |-> hops]

has_seen_message(n, m) == \E i \in DOMAIN seen[n] : seen[n][i].id = m

is_too_old(n, m) == born[m] > clock[n] \/ clock[n] - born[m] > MaxAge

has_exceeded_hops(pkt) == pkt.hop_count >= MaxHops

should_propagate(pkt) ==
    /\ ~has_seen_message(pkt.to, pkt.id)
    /\ ~is_too_old(pkt.to, pkt.id)
    /\ ~has_exceeded_hops(pkt)

\* A full cache drops its oldest entry first.
mark_as_seen(s, m, now) ==
    Append(IF Len(s) >= MaxSeen THEN Tail(s) ELSE s, [id |-> m, time |-> now])

\* What mark_as_seen pushes out.
Evicted(n) == IF Len(seen[n]) >= MaxSeen THEN {Head(seen[n]).id} ELSE {}

get_random_peers(n) ==
    IF Cardinality(peers[n]) <= Fanout THEN {peers[n]} ELSE kSubset(Fanout, peers[n])

-----------------------------------------------------------------------------
(* Actions *)

Init ==
    /\ clock \in [Node -> {0, 1}]
    /\ peers = [n \in Node |-> Node \ {n}]
    /\ seen = [n \in Node |-> <<>>]
    /\ born = [m \in Msg |-> NotSent]
    /\ wire = {}
    /\ handled = [n \in Node |-> {}]
    /\ repeated = [n \in Node |-> {}]

\* The messages a node creates itself are marked but not handled.
broadcast_message(n, m) ==
    /\ born[m] = NotSent
    /\ born' = [born EXCEPT ![m] = clock[n]]
    /\ seen' = [seen EXCEPT ![n] = mark_as_seen(@, m, clock[n])]
    /\ handled' = [handled EXCEPT ![n] = @ \ Evicted(n)]
    /\ \E S \in get_random_peers(n) : wire' = wire \cup {Packet(n, p, m, 0) : p \in S}
    /\ UNCHANGED <<clock, peers, repeated>>

\* Mutant: the hop count is not counted up.
AcceptSameHops(pkt) ==
    LET n == pkt.to IN
    /\ should_propagate(pkt)
    /\ seen' = [seen EXCEPT ![n] = mark_as_seen(@, pkt.id, clock[n])]
    /\ handled' = [handled EXCEPT ![n] = (@ \ Evicted(n)) \cup {pkt.id}]
    /\ repeated' = [repeated EXCEPT ![n] = @ \cup (handled[n] \cap {pkt.id})]
    /\ \E S \in get_random_peers(n) :
          wire' = (wire \ {pkt}) \cup {Packet(n, p, pkt.id, pkt.hop_count) : p \in S}
    /\ UNCHANGED <<clock, peers, born>>

\* receive_message when should_propagate says yes.
Accept(pkt) ==
    LET n == pkt.to IN
    /\ should_propagate(pkt)
    /\ seen' = [seen EXCEPT ![n] = mark_as_seen(@, pkt.id, clock[n])]
    /\ handled' = [handled EXCEPT ![n] = (@ \ Evicted(n)) \cup {pkt.id}]
    /\ repeated' = [repeated EXCEPT ![n] = @ \cup (handled[n] \cap {pkt.id})]
    /\ \E S \in get_random_peers(n) :
          wire' = (wire \ {pkt}) \cup {Packet(n, p, pkt.id, pkt.hop_count + 1) : p \in S}
    /\ UNCHANGED <<clock, peers, born>>

\* receive_message when it says no.
Discard(pkt) ==
    /\ ~should_propagate(pkt)
    /\ wire' = wire \ {pkt}
    /\ UNCHANGED <<clock, peers, seen, born, handled, repeated>>

\* send_callback_ fails, or the packet is lost.
Lose(pkt) ==
    /\ wire' = wire \ {pkt}
    /\ UNCHANGED <<clock, peers, seen, born, handled, repeated>>

\* The entries of s, in their order, that are at most ttl old at now.
Kept(s, now, ttl) ==
    LET kept[i \in 0..Len(s)] ==
            IF i = 0 THEN <<>>
            ELSE IF now - s[i].time > ttl THEN kept[i - 1] ELSE Append(kept[i - 1], s[i])
    IN  kept[Len(s)]

\* Mutant: an entry expires a second early.
cleanup_early(n) ==
    /\ seen' = [seen EXCEPT ![n] = Kept(@, clock[n], SeenTTL - 1)]
    /\ UNCHANGED <<clock, peers, born, wire, handled, repeated>>

cleanup_old_seen_messages(n) ==
    /\ seen' = [seen EXCEPT ![n] = Kept(@, clock[n], SeenTTL)]
    /\ UNCHANGED <<clock, peers, born, wire, handled, repeated>>

remove_peer(n, p) ==
    /\ peers' = [peers EXCEPT ![n] = @ \ {p}]
    /\ UNCHANGED <<clock, seen, born, wire, handled, repeated>>

add_peer(n, p) ==
    /\ peers' = [peers EXCEPT ![n] = @ \cup {p}]
    /\ UNCHANGED <<clock, seen, born, wire, handled, repeated>>

Tick(n) ==
    /\ clock[n] < MaxTime
    /\ clock' = [clock EXCEPT ![n] = @ + 1]
    /\ UNCHANGED <<peers, seen, born, wire, handled, repeated>>

Receive(pkt) == Accept(pkt) \/ Discard(pkt)

Next ==
    \/ \E n \in Node, m \in Msg : broadcast_message(n, m)
    \/ \E pkt \in wire : Receive(pkt) \/ Lose(pkt)
    \/ \E n \in Node : cleanup_old_seen_messages(n) \/ Tick(n)
    \/ \E n \in Node : \E p \in Node \ {n} : remove_peer(n, p) \/ add_peer(n, p)

Spec == Init /\ [][Next]_vars

\* The transport hands over every packet that it does not lose.
FairSpec == Spec /\ WF_vars(\E pkt \in wire : Receive(pkt))

-----------------------------------------------------------------------------
(* Properties *)

\* The cache never exceeds its limit and packets carry what was broadcast.
TypeOK ==
    /\ clock \in [Node -> 0..MaxTime]
    /\ peers \in [Node -> SUBSET Node]
    /\ born \in [Msg -> Nat \cup {NotSent}]
    /\ handled \in [Node -> SUBSET Msg] /\ repeated \in [Node -> SUBSET Msg]
    /\ DOMAIN seen = Node
    /\ \A n \in Node : seen[n] \in Seq([id : Msg, time : 0..clock[n]]) /\ Len(seen[n]) <= MaxSeen
    /\ \A pkt \in wire : /\ pkt.from \in Node /\ pkt.to \in Node /\ pkt.id \in Msg
                         /\ pkt.hop_count \in 0..MaxHops
                         /\ born[pkt.id] # NotSent

\* "Deduplication (seen message cache)" (gossip.hpp): a node handles a message
\* again only if a full cache pushed it out.  Expired entries never cause it,
\* however far the clocks of the nodes are apart, because an entry outlives
\* the age limit of its message.
HandledOnceUnlessEvicted ==
    \A n \in Node : repeated[n] = {}

\* Forwarding dies out: with finitely many broadcasts the network falls silent,
\* even when caches forget and messages circle.
GossipDiesOut == <>[](wire = {})

\* The seen cache does its work within its limit.
DedupSound == TypeOK /\ HandledOnceUnlessEvicted
=============================================================================
