----------------------------- MODULE StateView ------------------------------
(***************************************************************************)
(* The views derived from one node's ledger: the caches of LedgerIndex     *)
(* (ledger.cpp), updated inside Ledger::add_event, and the StateManager    *)
(* (state.cpp), updated by apply_event for events that arrive from the     *)
(* network (ledger_sync.cpp), by rebuild_state, by update_node_activity    *)
(* and by cleanup_stale_state.  The record calls of the local node do not  *)
(* call apply_event: the view misses them until the next rebuild_state.    *)
(*                                                                         *)
(* An event is reduced to what the handlers look at: its type, source and  *)
(* timestamp, the node in its data (for the other types its source), the   *)
(* network or Thing in its data, and a count.  There is one key type.      *)
(***************************************************************************)
EXTENDS Integers, Sequences, FiniteSets

CONSTANTS
    Node, Net, Thing,
    Kinds,           \* the event types of this instance
    Counts,          \* the counts of KEY_ISSUED and KEY_REVOKED
    InactivityThreshold,   \* INACTIVITY_THRESHOLD_SECONDS (14 days)
    StaleThreshold,        \* INACTIVE_THRESHOLD (30 days)
    None,
    MaxTime,         \* bound: last clock value explored
    MaxLog           \* bound: events in the ledger

ASSUME ThresholdAssumption == InactivityThreshold \in Nat /\ StaleThreshold \in Nat

ASSUME NodesAssumption == IsFiniteSet(Node) /\ Counts \subseteq Nat /\ MaxTime \in Nat

SelfKinds  == {"NODE_JOINED", "NODE_LEFT", "POW_SOLUTION_SUBMITTED", "POSTAKE_CONTRIBUTION"}
KeyKinds   == {"KEY_ISSUED", "KEY_REVOKED"}
NetKinds   == {"NETWORK_MEMBER_ADDED", "NETWORK_MEMBER_REMOVED"}
ThingKinds == {"THING_REPLICATED", "THING_REMOVED"}
AllKinds   == SelfKinds \cup KeyKinds \cup NetKinds \cup ThingKinds
              \cup {"NETWORK_CREATED", "REPUTATION_UPDATED"}

ASSUME KindsAssumption == Kinds \subseteq AllKinds

VARIABLES
    log,             \* the events of the ledger
    index,           \* LedgerIndex's state caches
    view,            \* StateManager: nodes_, networks_ and things_
    clock

vars == <<log, index, view, clock>>

-----------------------------------------------------------------------------
(* The events a node may see *)

Event(k, src, node, target, count, t) ==
    [type |-> k, source |-> src, node |-> node, target |-> target, count |-> count, time |-> t]

EventsAt(t) ==
    { Event(k, n, n, None, 1, t)    : k \in Kinds \cap SelfKinds, n \in Node }
    \cup { Event(k, n, n, None, c, t)    : k \in Kinds \cap KeyKinds, n \in Node, c \in Counts }
    \cup { Event(k, s, n, w, 1, t)       : k \in Kinds \cap NetKinds, s \in Node, n \in Node, w \in Net }
    \cup { Event(k, s, n, th, 1, t)      : k \in Kinds \cap ThingKinds, s \in Node, n \in Node, th \in Thing }
    \cup { Event(k, s, s, w, 1, t)       : k \in Kinds \cap {"NETWORK_CREATED"}, s \in Node, w \in Net }
    \cup { Event(k, s, n, None, 1, t)    : k \in Kinds \cap {"REPUTATION_UPDATED"}, s \in Node, n \in Node }

-----------------------------------------------------------------------------
(* LedgerIndex *)

EmptyIndex ==
    [ key_balances    |-> [n \in Node |-> 0],
      network_members |-> [w \in Net |-> {}],
      thing_hosts     |-> [t \in Thing |-> {}],
      node_join_times |-> [n \in Node |-> None] ]

\* LedgerIndex::add_event: the caches only grow, nothing handles removals.
IndexEvent(ix, e) ==
    CASE e.type = "NODE_JOINED"          -> [ix EXCEPT !.node_join_times[e.source] = e.time]
      [] e.type = "KEY_ISSUED"           -> [ix EXCEPT !.key_balances[e.source] = @ + e.count]
      [] e.type = "NETWORK_MEMBER_ADDED" -> [ix EXCEPT !.network_members[e.target] = @ \cup {e.node}]
      [] e.type = "THING_REPLICATED"     -> [ix EXCEPT !.thing_hosts[e.target] = @ \cup {e.node}]
      [] OTHER                           -> ix

-----------------------------------------------------------------------------
(* StateManager.  A map that lacks a key holds the default record under it:
   map::operator[] would create just that, and the queries answer the same;
   known tells whether the key is there. *)

NewNode ==
    [ known |-> FALSE, joined_at |-> 0, is_active |-> FALSE, key_balance |-> 0,
      networks |-> {}, hosted_things |-> {}, reputation_score |-> 0, contributions |-> 0 ]
NewNetwork == [ known |-> FALSE, is_active |-> FALSE, members |-> {} ]
NewThing ==
    [ known |-> FALSE, is_available |-> FALSE, hosts |-> {}, replication_count |-> 0 ]

EmptyView ==
    [ nodes    |-> [n \in Node |-> NewNode],
      networks |-> [w \in Net |-> NewNetwork],
      things   |-> [t \in Thing |-> NewThing] ]

apply_node_joined(v, e) ==
    [v EXCEPT !.nodes[e.source] = [NewNode EXCEPT !.known = TRUE, !.joined_at = e.time,
                                                  !.is_active = TRUE]]

apply_node_left(v, e) == [v EXCEPT !.nodes[e.source].is_active = FALSE]

apply_key_issued(v, e) ==
    LET state == v.nodes[e.source] IN
    [v EXCEPT !.nodes[e.source] = [state EXCEPT !.known = TRUE, !.key_balance = @ + e.count]]

apply_key_revoked(v, e) ==
    LET state == v.nodes[e.source] IN
    [v EXCEPT !.nodes[e.source] =
        [state EXCEPT !.known = TRUE, !.key_balance = IF @ > e.count THEN @ - e.count ELSE 0]]

apply_network_created(v, e) ==
    [v EXCEPT !.networks[e.target] = [NewNetwork EXCEPT !.known = TRUE, !.is_active = TRUE]]

apply_network_member_added(v, e) ==
    LET network == v.networks[e.target]
        state == v.nodes[e.node]
    IN  [v EXCEPT !.networks[e.target] = [network EXCEPT !.known = TRUE, !.members = @ \cup {e.node}],
                  !.nodes[e.node] = [state EXCEPT !.known = TRUE, !.networks = @ \cup {e.target}]]

apply_network_member_removed(v, e) ==
    [v EXCEPT !.networks[e.target].members = @ \ {e.node},
              !.nodes[e.node].networks = @ \ {e.target}]

\* The network a Thing was replicated in plays no part in any check here.
apply_thing_replicated(v, e) ==
    LET hosts == v.things[e.target].hosts \cup {e.node}
        state == v.nodes[e.node]
    IN  [v EXCEPT !.things[e.target] = [@ EXCEPT !.known = TRUE, !.is_available = TRUE, !.hosts = hosts,
                                                 !.replication_count = Cardinality(hosts)],
                  !.nodes[e.node] = [state EXCEPT !.known = TRUE, !.hosted_things = @ \cup {e.target}]]

\* Mutant: the node keeps the Thing in its list.
apply_thing_removed_half(v, e) ==
    LET thing == v.things[e.target]
        hosts == thing.hosts \ {e.node} IN
    IF ~thing.known THEN v
    ELSE [v EXCEPT !.things[e.target] = [thing EXCEPT !.hosts = hosts,
                                                      !.replication_count = Cardinality(hosts),
                                                      !.is_available = @ /\ hosts # {}]]

\* Returns early for an unknown Thing, before it touches the node.
apply_thing_removed(v, e) ==
    LET thing == v.things[e.target]
        hosts == thing.hosts \ {e.node} IN
    IF ~thing.known THEN v
    ELSE [v EXCEPT !.things[e.target] = [thing EXCEPT !.hosts = hosts,
                                                      !.replication_count = Cardinality(hosts),
                                                      !.is_available = @ /\ hosts # {}],
                   !.nodes[e.node].hosted_things = @ \ {e.target}]

apply_reputation_updated(v, e) ==
    LET state == v.nodes[e.node] IN
    [v EXCEPT !.nodes[e.node] = [state EXCEPT !.known = TRUE, !.reputation_score = @ + e.count]]

\* apply_pow_solution and apply_postake_contribution, whose counters are alike.
apply_contribution(v, e) ==
    LET state == v.nodes[e.source] IN
    [v EXCEPT !.nodes[e.source] = [state EXCEPT !.known = TRUE, !.contributions = @ + 1]]

apply_event(v, e) ==
    CASE e.type = "NODE_JOINED"            -> apply_node_joined(v, e)
      [] e.type = "NODE_LEFT"              -> apply_node_left(v, e)
      [] e.type = "KEY_ISSUED"             -> apply_key_issued(v, e)
      [] e.type = "KEY_REVOKED"            -> apply_key_revoked(v, e)
      [] e.type = "NETWORK_CREATED"        -> apply_network_created(v, e)
      [] e.type = "NETWORK_MEMBER_ADDED"   -> apply_network_member_added(v, e)
      [] e.type = "NETWORK_MEMBER_REMOVED" -> apply_network_member_removed(v, e)
      [] e.type = "THING_REPLICATED"       -> apply_thing_replicated(v, e)
      [] e.type = "THING_REMOVED"          -> apply_thing_removed(v, e)
      [] e.type = "REPUTATION_UPDATED"     -> apply_reputation_updated(v, e)
      [] OTHER                             -> apply_contribution(v, e)

Replayed(events) ==
    LET after[i \in 0..Len(events)] ==
            IF i = 0 THEN EmptyView ELSE apply_event(after[i - 1], events[i])
    IN  after[Len(events)]

\* The latest event of n, or its join, as update_node_activity finds it.
LastActivity(n) ==
    LET times == {view.nodes[n].joined_at}
                 \cup {log[i].time : i \in {j \in DOMAIN log : log[j].source = n}}
    IN  CHOOSE t \in times : \A u \in times : u <= t

\* cleanup_stale_state measures from joined_at, in unsigned arithmetic: a join
\* stamped ahead of the clock counts as ages ago.
IsStale(n) ==
    LET s == view.nodes[n] IN
    /\ s.known
    /\ ~s.is_active
    /\ s.joined_at > clock \/ clock - s.joined_at > StaleThreshold

-----------------------------------------------------------------------------
(* Actions *)

Init ==
    /\ log = <<>>
    /\ index = EmptyIndex
    /\ view = EmptyView
    /\ clock = 0

\* process_received_event: the ledger takes the event, then apply_event.
ReceiveEvent(e) ==
    /\ Len(log) < MaxLog
    /\ log' = Append(log, e)
    /\ index' = IndexEvent(index, e)
    /\ view' = apply_event(view, e)
    /\ UNCHANGED clock

\* A record call of the local node: the ledger only.
RecordEvent(e) ==
    /\ Len(log) < MaxLog
    /\ log' = Append(log, e)
    /\ index' = IndexEvent(index, e)
    /\ UNCHANGED <<view, clock>>

rebuild_state ==
    /\ view' = Replayed(log)
    /\ UNCHANGED <<log, index, clock>>

update_node_activity ==
    /\ view' = [view EXCEPT !.nodes =
                  [n \in Node |->
                     [view.nodes[n] EXCEPT !.is_active = @ /\ ~(clock - LastActivity(n) > InactivityThreshold)]]]
    /\ UNCHANGED <<log, index, clock>>

cleanup_stale_state ==
    /\ view' = [view EXCEPT !.nodes = [n \in Node |-> IF IsStale(n) THEN NewNode ELSE view.nodes[n]]]
    /\ UNCHANGED <<log, index, clock>>

Tick ==
    /\ clock < MaxTime
    /\ clock' = clock + 1
    /\ UNCHANGED <<log, index, view>>

\* An event's timestamp may be one tick ahead of this node's clock.
Next ==
    \/ \E t \in {clock, clock + 1} : \E e \in EventsAt(t) : ReceiveEvent(e)
    \/ \E e \in EventsAt(clock) : RecordEvent(e)
    \/ rebuild_state
    \/ update_node_activity
    \/ cleanup_stale_state
    \/ Tick

Spec == Init /\ [][Next]_vars

-----------------------------------------------------------------------------
(* Properties *)

\* The maps have their types and the view holds nothing for an absent key.
TypeOK ==
    /\ clock \in 0..MaxTime
    /\ index.key_balances \in [Node -> Nat]
    /\ index.network_members \in [Net -> SUBSET Node]
    /\ index.thing_hosts \in [Thing -> SUBSET Node]
    /\ DOMAIN view.nodes = Node /\ DOMAIN view.networks = Net /\ DOMAIN view.things = Thing
    /\ \A n \in Node : /\ view.nodes[n].key_balance \in Nat
                       /\ ~view.nodes[n].known => view.nodes[n] = NewNode
    /\ \A w \in Net : ~view.networks[w].known => view.networks[w] = NewNetwork
    /\ \A t \in Thing : ~view.things[t].known => view.things[t] = NewThing

\* What get_thing_state says of a Thing is coherent: its replication count is
\* the number of its hosts, it is available exactly while it has one, and a
\* node that lists it among its hosted Things is one of its hosts, whatever
\* was replicated, removed, cleaned up, forgotten or rebuilt in between.
HostingConsistent ==
    \A t \in Thing :
        LET s == view.things[t] IN
        /\ s.replication_count = Cardinality(s.hosts)
        /\ s.is_available <=> s.hosts # {}
        /\ \A n \in Node : t \in view.nodes[n].hosted_things => n \in s.hosts

\* The view never shows more than the ledger has recorded: no key that was not
\* issued, no member and no host that was never added.
ViewWithinIndex ==
    /\ \A n \in Node : view.nodes[n].key_balance <= index.key_balances[n]
    /\ \A w \in Net : view.networks[w].members \subseteq index.network_members[w]
    /\ \A t \in Thing : view.things[t].hosts \subseteq index.thing_hosts[t]

\* A node is active in the view only through a join that is in the ledger, and
\* with the time of that join: rejoining, cleaning up and rebuilding never
\* make a node active by themselves.
ActiveHasJoined ==
    \A n \in Node :
        view.nodes[n].is_active =>
            \E i \in DOMAIN log : /\ log[i].type = "NODE_JOINED"
                                  /\ log[i].source = n
                                  /\ log[i].time = view.nodes[n].joined_at

\* What the queries of StateManager answer is coherent and backed by the ledger,
\* whatever events, clean-ups and rebuilds came in whatever order.
ViewSound == TypeOK /\ HostingConsistent /\ ViewWithinIndex /\ ActiveHasJoined
=============================================================================
