----------------------------- MODULE WebSocket -----------------------------
(***************************************************************************)
(* The WebSocket handler of the gateway: its connections, the event        *)
(* subscriptions that refer to them weakly, the keep-alive thread, and the *)
(* count of subscriptions it reports.                                      *)
(*                                                                         *)
(* A connection is made CONNECTING and nothing sets it OPEN: state_ is     *)
(* private and close() is its only writer.  is_alive() is therefore false  *)
(* of every connection, so frames are ignored, no event is sent, the       *)
(* keep-alive pass drops every connection it finds and a broadcast drops   *)
(* every subscriber.  The branches for live connections are left out.      *)
(***************************************************************************)
EXTENDS Integers, FiniteSets, Sequences

CONSTANTS
    Id,             \* connection ids
    Event,          \* event types
    MaxConnections, \* config_.max_connections
    MaxPerClient,   \* config_.max_subscriptions_per_client
    MaxObjects,     \* bound: connection objects made
    MaxCount        \* bound: subscription_count

VARIABLES
    running,       \* running_, and with it the keep-alive thread
    id,            \* id of each object made: a sequence of ids
    connections,   \* connections_: set of [id, object]
    held,          \* objects the transport still holds a pointer to
    subscriptions, \* subscriptions_: set of [event, object]
    touched,       \* event types that have an entry in subscriptions_
    count          \* stats_.subscription_count, a size_t

vars == <<running, id, connections, held, subscriptions, touched, count>>

Object == DOMAIN id

Init ==
    /\ running = FALSE
    /\ id = <<>>
    /\ connections = {} /\ held = {} /\ subscriptions = {} /\ touched = {}
    /\ count = 0

-----------------------------------------------------------------------------
\* weak_ptr::expired: neither the map nor the transport holds the object.
expired(o) == o \notin held /\ \A c \in connections : c.object # o

is_alive(o) == FALSE

start ==
    /\ ~running /\ running' = TRUE
    /\ UNCHANGED <<id, connections, held, subscriptions, touched, count>>

\* stop() closes the connections and clears the map once the thread ended.
stop ==
    /\ running /\ running' = FALSE
    /\ connections' = {}
    /\ UNCHANGED <<id, held, subscriptions, touched, count>>

\* A connection accepted under an id in use replaces the one that had it.
accept_connection(i) ==
    LET o == Len(id) + 1 IN
    /\ Len(id) < MaxObjects
    /\ Cardinality(connections) < MaxConnections
    /\ id' = Append(id, i)
    /\ connections' = {c \in connections : c.id # i} \cup {[id |-> i, object |-> o]}
    /\ held' = held \cup {o}
    /\ UNCHANGED <<running, subscriptions, touched, count>>

\* The transport lets go of its pointer.
release(o) ==
    /\ o \in held /\ held' = held \ {o}
    /\ UNCHANGED <<running, id, connections, subscriptions, touched, count>>

Live(i) == {s \in subscriptions : ~expired(s.object) /\ id[s.object] = i}

\* By id, not by object: a second connection under the same id shares the
\* subscriptions of the first while that one lives.
subscribe(o, e) ==
    /\ o \in held /\ count < MaxCount
    /\ touched' = touched \cup {e}
    /\ IF /\ \A s \in Live(id[o]) : s.event # e
          /\ Cardinality(Live(id[o])) < MaxPerClient
       THEN /\ subscriptions' = subscriptions \cup {[event |-> e, object |-> o]}
            /\ count' = count + 1
       ELSE UNCHANGED <<subscriptions, count>>
    /\ UNCHANGED <<running, id, connections, held>>

\* Mutant: counted off though nothing was found.
unsubscribe_uncounted(o, e) ==
    LET found == {s \in Live(id[o]) : s.event = e} IN
    /\ o \in held /\ e \in touched
    /\ \E dead \in SUBSET {s \in subscriptions : s.event = e /\ expired(s.object)} :
        subscriptions' = (subscriptions \ dead) \ found
    /\ count' = count - 1
    /\ UNCHANGED <<running, id, connections, held, touched>>

\* Expired entries met before the one it looks for go too, uncounted: all of
\* them when there is nothing to find, and some of them otherwise.
unsubscribe(o, e) ==
    LET found == {s \in Live(id[o]) : s.event = e}
        expired_here == {s \in subscriptions : s.event = e /\ expired(s.object)}
    IN
    /\ o \in held /\ e \in touched
    /\ \E dead \in SUBSET expired_here :
        /\ found = {} => dead = expired_here
        /\ subscriptions' = (subscriptions \ dead) \ found
    /\ count' = count - Cardinality(found)
    /\ UNCHANGED <<running, id, connections, held, touched>>

\* Every subscriber that is not alive is dropped, uncounted.
broadcast_event(e) ==
    /\ e \in touched
    /\ subscriptions' = {s \in subscriptions : s.event # e \/ is_alive(s.object)}
    /\ UNCHANGED <<running, id, connections, held, touched, count>>

\* One pass of keepalive_loop: connections that are not alive leave the map,
\* then cleanup_connections drops the subscriptions that have expired by now.
keepalive_loop ==
    LET kept == {c \in connections : is_alive(c.object)} IN
    /\ running
    /\ connections' = kept
    /\ subscriptions' = {s \in subscriptions : s.object \in held \/ \E c \in kept : c.object = s.object}
    /\ UNCHANGED <<running, id, held, touched, count>>

Next ==
    \/ start \/ stop \/ keepalive_loop
    \/ \E i \in Id : accept_connection(i)
    \/ \E o \in Object : release(o)
    \/ \E o \in Object : \E e \in Event : subscribe(o, e) \/ unsubscribe(o, e)
    \/ \E e \in Event : broadcast_event(e)

Spec == Init /\ [][Next]_vars

-----------------------------------------------------------------------------
\* The unsigned subscription_count never falls below the subscriptions that
\* are there, so that it cannot wrap: entries leave it uncounted when their
\* connection died, but none is counted off twice or without having been there.
CountCoversSubscribers == count >= Cardinality(subscriptions)
=============================================================================
