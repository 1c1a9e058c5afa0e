---------------------------- MODULE RoutingTable ----------------------------
(***************************************************************************)
(* RoutingTable of network/router.cpp: what one node knows of others, and  *)
(* which of them host which content.  The hop distance and the score serve *)
(* only to choose among usable hosts: any of them may be the best.         *)
(***************************************************************************)
EXTENDS Integers, FiniteSets

CONSTANTS
    Node,
    Content,
    EntryTTL,        \* ENTRY_TTL_SECONDS (3600)
    None,
    MaxTime          \* bound: last time explored

VARIABLES
    entries,         \* entries_: [last_seen, reliable, advertised] or None
    content_index,   \* content_index_[c]: the hosts of c
    clock,
    early            \* <<n, c>> advertised while n had no entry (history)

vars == <<entries, content_index, clock, early>>

is_stale(e) == clock - e.last_seen > EntryTTL

\* reliable: reliability_score is at least MIN_RELIABILITY_SCORE.
RoutingEntry == [last_seen |-> clock, reliable |-> TRUE, advertised |-> {}]

Usable(n) == entries[n] # None /\ ~is_stale(entries[n]) /\ entries[n].reliable

\* select_best_host gives one of these, select_multiple_hosts the first few.
Selectable(c) == {n \in content_index[c] : Usable(n)}

Init ==
    /\ entries = [n \in Node |-> None]
    /\ content_index = [c \in Content |-> {}]
    /\ clock = 0
    /\ early = {}

-----------------------------------------------------------------------------

add_node(n) ==
    /\ entries' = [entries EXCEPT ![n] = IF @ = None THEN RoutingEntry ELSE [@ EXCEPT !.last_seen = clock]]
    /\ UNCHANGED <<content_index, clock, early>>

\* The table without the nodes of gone: only what their entries list is
\* taken out of the index.
Without(gone) ==
    /\ entries' = [n \in Node |-> IF n \in gone THEN None ELSE entries[n]]
    /\ content_index' = [c \in Content |->
          {n \in content_index[c] : n \notin gone \/ c \notin entries[n].advertised}]

remove_node(n) ==
    /\ entries[n] # None
    /\ Without({n})
    /\ UNCHANGED <<clock, early>>

\* Mutant: the clean-up forgets the index.
cleanup_entries_only ==
    /\ entries' = [n \in Node |-> IF entries[n] # None /\ is_stale(entries[n]) THEN None ELSE entries[n]]
    /\ UNCHANGED <<content_index, clock, early>>

cleanup_stale_entries ==
    /\ Without({n \in Node : entries[n] # None /\ is_stale(entries[n])})
    /\ UNCHANGED <<clock, early>>

\* A moving average; after a score of 1 it is at least 0.3, and reliable.
update_node_reliability(n, score) ==
    /\ entries[n] # None
    /\ \E r \in BOOLEAN :
          /\ score = 1 => r
          /\ entries' = [entries EXCEPT ![n].reliable = r]
    /\ UNCHANGED <<content_index, clock, early>>

\* A node without an entry comes into the index alone.
advertise_content(n, c) ==
    /\ entries' = IF entries[n] = None THEN entries
                  ELSE [entries EXCEPT ![n].advertised = @ \cup {c}]
    /\ content_index' = [content_index EXCEPT ![c] = @ \cup {n}]
    /\ early' = IF entries[n] = None THEN early \cup {<<n, c>>} ELSE early
    /\ UNCHANGED clock

remove_content_advertisement(n, c) ==
    /\ entries' = IF entries[n] = None THEN entries
                  ELSE [entries EXCEPT ![n].advertised = @ \ {c}]
    /\ content_index' = [content_index EXCEPT ![c] = @ \ {n}]
    /\ early' = early \ {<<n, c>>}
    /\ UNCHANGED clock

Tick ==
    /\ clock < MaxTime
    /\ clock' = clock + 1
    /\ UNCHANGED <<entries, content_index, early>>

Next ==
    \/ \E n \in Node :
          \/ add_node(n)
          \/ remove_node(n)
          \/ \E score \in {0, 1} : update_node_reliability(n, score)
          \/ \E c \in Content : advertise_content(n, c) \/ remove_content_advertisement(n, c)
    \/ cleanup_stale_entries
    \/ Tick

Spec == Init /\ [][Next]_vars

-----------------------------------------------------------------------------

\* The index offers a node for a content exactly while the entry of the node
\* lists it, through removals, clean-ups and returns of nodes; the only others
\* it may hold were advertised before the node was known.  These aside, the
\* hosts that may be selected are the usable ones that list the content.
IndexBacked ==
    \A n \in Node, c \in Content :
        LET listed == entries[n] # None /\ c \in entries[n].advertised IN
        /\ listed => n \in content_index[c]
        /\ n \in content_index[c] => listed \/ <<n, c>> \in early
        /\ <<n, c>> \notin early => (n \in Selectable(c) <=> listed /\ Usable(n))
=============================================================================
