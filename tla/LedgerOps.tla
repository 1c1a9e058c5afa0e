----------------------------- MODULE LedgerOps ------------------------------
(***************************************************************************)
(* The Ledger object of src/core/ledger/ledger.cpp as a value: a record    *)
(* with its members, and one operator per method that reads or rebuilds    *)
(* it.  The modules Ledger, LedgerFile and LedgerSync give it processes,   *)
(* files and messages.                                                     *)
(*                                                                         *)
(* Digests are symbolic: Blake3(layout, x) is a tagged pair, so it is      *)
(* injective and never the all-zero hash; inputs of different layouts have *)
(* different digests.  Event type and data are one payload; the signature, *)
(* a digest of other fields that no code path checks, is left out.  A tick *)
(* of the clock is one second.                                             *)
(***************************************************************************)
EXTENDS Integers, Sequences

CONSTANTS
    EpochLength,     \* ticks per epoch (600 s in current_epoch)
    MaxFutureSkew    \* MAX_FUTURE_SKEW_SECONDS (300 s)

ASSUME EpochAssumption == EpochLength \in Nat \ {0}
ASSUME SkewAssumption == MaxFutureSkew \in Nat

Blake3(layout, x) == <<layout, x>>
ZeroHash  == <<"zero">>

\* Mutant: the digest leaves out the link.
hash_of_id(e) == Blake3("event", e.event_id)

\* LedgerEvent::compute_hash digests to_bytes, which covers every field.
compute_hash(e) == Blake3("event", e)

\* The event that the link of e names, a set of one or none: a digest is a pair
\* that holds what was digested.
Predecessor(e) == IF e.previous_hash = ZeroHash THEN {} ELSE {e.previous_hash[2]}

current_epoch(now) == now \div EpochLength

\* The constructor.
EmptyLedger ==
    [ events         |-> <<>>,                 \* events_
      event_lookup   |-> [id \in {} |-> 0],    \* event_id -> index in events_
      events_by_node |-> [n \in {} |-> <<>>],  \* of LedgerIndex
      latest_hash    |-> ZeroHash,
      event_counter  |-> 0 ]

Tip(l) == l.events[Len(l.events)]

IsKnown(l, id) == id \in DOMAIN l.event_lookup

get_event(l, id) == l.events[l.event_lookup[id]]

\* The clock is read twice, for the timestamp and for the epoch.
create_event(l, n, now, later, p) ==
    [ event_id      |-> Blake3("id", <<n, l.event_counter, now>>),
      source_node   |-> n,
      timestamp     |-> now,
      epoch         |-> current_epoch(later),
      previous_hash |-> l.latest_hash,
      payload       |-> p ]

TooFarAhead(e, now) == e.timestamp > now + MaxFutureSkew

\* Mutant: the link of the first event only is tested.
verify_first_link(l, e, now) ==
    IF l.events = <<>> THEN e.previous_hash = ZeroHash ELSE ~TooFarAhead(e, now)

\* An empty ledger returns before the clock-skew test.
verify_event_chain(l, e, now) ==
    IF l.events = <<>>
    THEN e.previous_hash = ZeroHash
    ELSE /\ e.previous_hash = compute_hash(Tip(l))
         /\ ~TooFarAhead(e, now)

\* Mutant: without the test for a known id.
verify_without_id(l, e, now) == verify_event_chain(l, e, now) /\ ~TooFarAhead(e, now)

\* Mutant: without a skew test of its own.
verify_without_skew(l, e, now) == ~IsKnown(l, e.event_id) /\ verify_event_chain(l, e, now)

verify_event(l, e, now) ==
    /\ ~IsKnown(l, e.event_id)
    /\ verify_event_chain(l, e, now)
    /\ ~TooFarAhead(e, now)

\* LedgerIndex::add_event, the index by source node.
IndexByNode(index, e) ==
    [ n \in DOMAIN index \cup {e.source_node} |->
        IF n # e.source_node THEN index[n]
        ELSE Append(IF n \in DOMAIN index THEN index[n] ELSE <<>>, e.event_id) ]

\* Mutant: latest_hash_ is not moved.
AppendedStaleTip(l, e) ==
    [ l EXCEPT !.events = Append(@, e),
               !.event_lookup = [id \in DOMAIN @ \cup {e.event_id} |->
                                   IF id = e.event_id THEN Len(l.events) + 1 ELSE @[id]],
               !.events_by_node = IndexByNode(@, e) ]

\* Mutant: the oldest event makes room.
AppendedRolling(l, e) ==
    [ l EXCEPT !.events = Append(IF Len(@) > 1 THEN Tail(@) ELSE @, e),
               !.event_lookup = [id \in DOMAIN @ \cup {e.event_id} |->
                                   IF id = e.event_id THEN Len(l.events) + 1 ELSE @[id]],
               !.events_by_node = IndexByNode(@, e),
               !.latest_hash = compute_hash(e) ]

Appended(l, e) ==
    [ events         |-> Append(l.events, e),
      event_lookup   |-> [id \in DOMAIN l.event_lookup \cup {e.event_id} |->
                            IF id = e.event_id THEN Len(l.events) + 1 ELSE l.event_lookup[id]],
      events_by_node |-> IndexByNode(l.events_by_node, e),
      latest_hash    |-> compute_hash(e),
      event_counter  |-> l.event_counter ]

add_event(l, e, now) == IF verify_event(l, e, now) THEN Appended(l, e) ELSE l

\* The tests add_external_event makes, and on which it answers true, before it
\* calls add_event, which may still refuse the event.
AcceptsExternal(l, e, now) == verify_event_chain(l, e, now) /\ ~IsKnown(l, e.event_id)

add_external_event(l, e, now) ==
    IF AcceptsExternal(l, e, now) THEN add_event(l, e, now) ELSE l

get_events_by_node(l, n) ==
    IF n \notin DOMAIN l.events_by_node THEN <<>>
    ELSE [i \in DOMAIN l.events_by_node[n] |-> get_event(l, l.events_by_node[n][i])]

validate_chain(l) ==
    \A i \in 2..Len(l.events) : l.events[i].previous_hash = compute_hash(l.events[i - 1])

\* The ids detect_conflicts reports: repeated ids and broken links.
detect_conflicts(l) ==
    LET ids == DOMAIN l.events IN
    {l.events[i].event_id : i \in {k \in ids : \E j \in ids \ {k} :
                                      l.events[j].event_id = l.events[k].event_id}}
    \cup {l.events[i].event_id : i \in {k \in ids \ {1} :
                                      l.events[k].previous_hash # compute_hash(l.events[k - 1])}}

\* t lists exactly the members of s that are in A, in the order of s: where no
\* event occurs twice in s, it is s without the others.  For the properties.
ListsInOrder(t, s, A) ==
    /\ \A i \in 1..Len(t) : t[i] \in A /\ \E k \in 1..Len(s) : s[k] = t[i]
    /\ \A k \in 1..Len(s) : s[k] \in A => \E i \in 1..Len(t) : t[i] = s[k]
    /\ \A i, j \in 1..Len(t) : i < j => \E k, l \in 1..Len(s) : k < l /\ s[k] = t[i] /\ s[l] = t[j]
=============================================================================
