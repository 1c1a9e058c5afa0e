------------------------------- MODULE Ledger -------------------------------
(***************************************************************************)
(* The event ledgers of a set of nodes.                                    *)
(*                                                                         *)
(* Local record calls create and append an event; events of other nodes    *)
(* arrive in any order, any number of times, or never, and are offered to  *)
(* add_external_event.  A restart runs the constructor again: main.cpp     *)
(* neither saves nor loads the ledger (LedgerFile adds both).  Each node   *)
(* has its own clock, which never runs backwards.                          *)
(***************************************************************************)
EXTENDS LedgerOps, FiniteSets

CONSTANTS
    Node,            \* node ids
    Payload,         \* event_type together with the event's data
    MaxTime,         \* bound: last clock value explored
    MaxCounter,      \* bound: events a process creates before it restarts
    MaxPublished     \* bound: events created by all nodes together

ASSUME BoundAssumption == MaxTime \in Nat /\ MaxCounter \in Nat /\ MaxPublished \in Nat

VARIABLES
    ledger,          \* ledger[n]: the Ledger object of node n
    clock,           \* clock[n]: system_clock of node n; clocks may differ
    published        \* every event some node has appended locally

vars == <<ledger, clock, published>>

-----------------------------------------------------------------------------
(* Actions *)

Init ==
    /\ ledger = [n \in Node |-> EmptyLedger]
    /\ clock = [n \in Node |-> 0]
    /\ published = {}

\* Every record call is create_event, which always consumes a counter value,
\* followed by add_event, which may refuse the event.  The clock may advance
\* between the two reads of create_event.
Record(n, p, later) ==
    LET l == [ledger[n] EXCEPT !.event_counter = @ + 1]
        e == create_event(ledger[n], n, clock[n], later, p)
    IN  /\ ledger[n].event_counter < MaxCounter
        /\ Cardinality(published) < MaxPublished
        /\ later <= MaxTime
        /\ ledger' = [ledger EXCEPT ![n] = add_event(l, e, later)]
        /\ published' = IF verify_event(l, e, later) THEN published \cup {e} ELSE published
        /\ clock' = [clock EXCEPT ![n] = later]

AddExternal(n, e) ==
    /\ ledger' = [ledger EXCEPT ![n] = add_external_event(@, e, clock[n])]
    /\ UNCHANGED <<clock, published>>

\* The process ends and a new one constructs an empty Ledger.
Restart(n) ==
    /\ ledger' = [ledger EXCEPT ![n] = EmptyLedger]
    /\ UNCHANGED <<clock, published>>

Tick(n) ==
    /\ clock[n] < MaxTime
    /\ clock' = [clock EXCEPT ![n] = @ + 1]
    /\ UNCHANGED <<ledger, published>>

Next ==
    \/ \E n \in Node, p \in Payload : \E later \in {clock[n], clock[n] + 1} : Record(n, p, later)
    \/ \E n \in Node : \E e \in published : AddExternal(n, e)
    \/ \E n \in Node : Restart(n)
    \/ \E n \in Node : Tick(n)

Spec == Init /\ [][Next]_vars

-----------------------------------------------------------------------------
(* Properties *)

Events(n) == ledger[n].events

\* A published event, whatever its id and its link are.
WellTyped(e) ==
    /\ e.source_node \in Node
    /\ e.timestamp \in 0..MaxTime
    /\ e.epoch \in Nat
    /\ e.payload \in Payload

\* Every ledger holds only events that some node really appended, and its
\* counter and clock stay in range (the members of Ledger in ledger.hpp).
TypeOK ==
    /\ clock \in [Node -> 0..MaxTime]
    /\ \A e \in published : WellTyped(e)
    /\ DOMAIN ledger = Node
    /\ \A n \in Node :
          /\ Events(n) \in Seq(published)
          /\ ledger[n].event_counter \in 0..MaxCounter

\* validate_chain returns true and detect_conflicts finds nothing, and the
\* first event continues the zero hash, whatever mix of local and external
\* events was appended and whatever was lost or repeated on the way.
ChainIntact ==
    \A n \in Node :
        /\ validate_chain(ledger[n])
        /\ detect_conflicts(ledger[n]) = {}
        /\ Events(n) # <<>> => Events(n)[1].previous_hash = ZeroHash

\* Two ledgers that share one event agree on its position and on everything
\* before it: ledgers fork, but once forked they never meet again.
PrefixAgreement ==
    \A m, n \in Node :
        \A i \in 1..Len(Events(m)), j \in 1..Len(Events(n)) :
            Events(m)[i] = Events(n)[j] =>
                /\ i = j
                /\ \A k \in 1..i : Events(m)[k] = Events(n)[k]

\* get_event finds exactly the events of events_, each under its own id: the
\* two never drift apart, even when a restarted node creates an id that it
\* also gets back from the network.
LookupFaithful ==
    \A n \in Node :
        LET l == ledger[n] IN
        /\ DOMAIN l.event_lookup = {l.events[i].event_id : i \in 1..Len(l.events)}
        /\ \A i \in 1..Len(l.events) : get_event(l, l.events[i].event_id) = l.events[i]

\* get_events_by_node, which goes from the index through event_lookup_, gives
\* the same events in the same order as a scan of events_.
IndexFaithful ==
    \A n, m \in Node :
        ListsInOrder(get_events_by_node(ledger[n], m), Events(n),
                     {e \in published : e.source_node = m})

\* latest_hash_, which create_event links to, is the hash of the tip that
\* verify_event_chain compares with, so no record call can ever be refused
\* for its link.
TipTracked ==
    \A n \in Node :
        ledger[n].latest_hash =
            IF Events(n) = <<>> THEN ZeroHash ELSE compute_hash(Tip(ledger[n]))

\* No ledger holds an event further ahead of its node's clock than the allowed
\* skew: the test skipped for an empty ledger is made up for in verify_event.
NoFutureEvents ==
    \A n \in Node : \A i \in 1..Len(Events(n)) :
        Events(n)[i].timestamp <= clock[n] + MaxFutureSkew

\* An append-only log: a step extends a ledger by at most one event, or the
\* process restarts; no event is ever replaced or dropped.
AppendOnly ==
    [][ \A n \in Node :
          \/ Events(n)' = Events(n)
          \/ \E e \in published' : Events(n)' = Append(Events(n), e)
          \/ ledger[n]' = EmptyLedger ]_vars

\* The copies that record_event and add_external_event keep next to events_
\* say what events_ says: event_lookup_ finds each event under its id,
\* latest_hash_ is the hash of the tip and the index lists what was applied, in
\* ledgers of well-formed events.
CopiesFaithful == TypeOK /\ LookupFaithful /\ IndexFaithful /\ TipTracked

-----------------------------------------------------------------------------
(* Refinement *)

Log == INSTANCE ReplicatedLog WITH
    before <- [e \in published |-> Predecessor(e)],
    log <- [n \in Node |-> Events(n)]

\* The ledgers implement a replicated log: record calls, external events in any
\* order, repetitions and restarts with reused ids leave all published events
\* in one tree and every ledger on a path of it (verify_event_chain and
\* latest_hash_ see to it).
ImplementsReplicatedLog == Log!Spec
=============================================================================
