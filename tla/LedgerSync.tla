----------------------------- MODULE LedgerSync -----------------------------
(***************************************************************************)
(* Ledgers kept in step by LedgerGossipBridge (network/ledger_sync.cpp)    *)
(* over GossipProtocol (network/gossip.cpp).                               *)
(*                                                                         *)
(* A message on the wire may be lost (never delivered), delivered late, in *)
(* any order and any number of times.  gossip_seen is seen_messages_: its  *)
(* entries outlive the age limit of a message, and its size limit is far   *)
(* above the bounds here, so it never forgets (module Gossip drops both    *)
(* simplifications).  The networks are small enough for the fanout to      *)
(* cover every peer and for MAX_HOPS never to be reached.                  *)
(***************************************************************************)
EXTENDS LedgerOps, FiniteSetsExt

CONSTANTS
    Node,
    Payload,
    Writers,         \* the nodes that make record calls
    CheckpointInterval,  \* CHECKPOINT_INTERVAL of the scheduler (10 epochs)
    StaleThreshold,  \* STALE_THRESHOLD of cleanup_sync_state (300 s)
    MaxTime,         \* bound: last clock value explored
    MaxRecords,      \* bound: record calls of all nodes together
    MaxRequests      \* bound: sync requests the application makes by itself

ASSUME SyncAssumption == Writers \subseteq Node /\ StaleThreshold \in Nat /\ CheckpointInterval \in Nat \ {0}
ASSUME BoundAssumption == MaxTime \in Nat /\ MaxRequests \in Nat

VARIABLES
    ledger,          \* ledger[n]: as in module Ledger
    clock,           \* clock[n]
    gossip_seen,     \* gossip_seen[n]: message ids
    seen_event_ids,  \* seen_event_ids[n]: of the bridge
    peer_sync,       \* peer_sync[n]: peer_sync_states_, a map on some peers
    applied,         \* applied[n]: the calls of StateManager::apply_event
    last_checkpoint, \* last_checkpoint[n]: last_checkpoint_epoch_ of the scheduler
    wire,            \* packets sent: [from, to, msg]
    requests         \* sync requests made by the application

vars == <<ledger, clock, gossip_seen, seen_event_ids, peer_sync, applied, last_checkpoint, wire, requests>>

Events(n) == ledger[n].events

-----------------------------------------------------------------------------
(* Messages *)

Message(id, type, events, start, end, hash) ==
    [id |-> id, type |-> type, events |-> events, start |-> start, end |-> end, hash |-> hash]

EventBroadcast(l, e) ==
    Message(e.event_id, "EVENT_BROADCAST", <<e>>, e.epoch, e.epoch, l.latest_hash)

Checkpoint(l, epoch) ==
    Message(l.latest_hash, "CHECKPOINT", <<>>, epoch, epoch, l.latest_hash)

\* The id depends on the range alone.
SyncRequest(l, start, end) ==
    Message(Blake3("range", <<start, end>>), "SYNC_REQUEST", <<>>, start, end, l.latest_hash)

\* All events, filtered by epoch.
EventsBetween(events, start, end) ==
    LET picked[i \in 0..Len(events)] ==
            IF i = 0 THEN <<>>
            ELSE IF start <= events[i].epoch /\ events[i].epoch <= end
                 THEN Append(picked[i - 1], events[i]) ELSE picked[i - 1]
    IN  picked[Len(events)]

\* The id is the digest of the whole message.
SyncResponse(l, start, end) ==
    LET evs == EventsBetween(l.events, start, end) IN
    Message(Blake3("response", <<evs, start, end, l.latest_hash>>), "SYNC_RESPONSE",
            evs, start, end, l.latest_hash)

\* serialize writes 53 bytes before the first event, deserialize refuses less
\* than 57: a message without events is not readable.
Readable(m) == m.events # <<>>

Packet(from, to, m) == [from |-> from, to |-> to, msg |-> m]

\* send_to_peer for every peer that get_random_peers may pick.
ToPeers(n, m) == { Packet(n, p, m) : p \in Node \ {n} }

-----------------------------------------------------------------------------
(* The bridge of one node as a value *)

Bridge(n) == [ ledger |-> ledger[n], seen |-> seen_event_ids[n], applied |-> applied[n] ]

\* A future epoch skips the chain test here, not in add_external_event.  Source
\* nodes are never the zero id.
validate_event_chain(l, e, now) ==
    /\ ~TooFarAhead(e, now)
    /\ e.epoch > current_epoch(now) \/ verify_event_chain(l, e, now)

\* Mutant: the event is marked as seen before it is validated.
process_marking_first(b, e, now) ==
    IF e.event_id \in b.seen THEN b
    ELSE IF validate_event_chain(b.ledger, e, now) /\ AcceptsExternal(b.ledger, e, now)
         THEN [ ledger  |-> add_external_event(b.ledger, e, now),
                seen    |-> b.seen \cup {e.event_id},
                applied |-> Append(b.applied, e) ]
         ELSE [ b EXCEPT !.seen = @ \cup {e.event_id} ]

process_received_event(b, e, now) ==
    IF /\ e.event_id \notin b.seen
       /\ validate_event_chain(b.ledger, e, now)
       /\ AcceptsExternal(b.ledger, e, now)
    THEN [ ledger  |-> add_external_event(b.ledger, e, now),
           seen    |-> b.seen \cup {e.event_id},
           applied |-> Append(b.applied, e) ]
    ELSE b

ProcessAll(b, events, now) ==
    LET after[i \in 0..Len(events)] ==
            IF i = 0 THEN b ELSE process_received_event(after[i - 1], events[i], now)
    IN  after[Len(events)]

update_peer_sync_state(peers, peer, epoch, hash, now) ==
    [ p \in DOMAIN peers \cup {peer} |->
        IF p = peer THEN [epoch |-> epoch, hash |-> hash, time |-> now] ELSE peers[p] ]

\* The peer table after a message of each type.
PeersAfter(n, from, m) ==
    CASE m.type = "CHECKPOINT" ->
            update_peer_sync_state(peer_sync[n], from, m.start, m.hash, clock[n])
      [] m.type = "SYNC_RESPONSE" /\ m.events # <<>> ->
            LET last == m.events[Len(m.events)] IN
            update_peer_sync_state(peer_sync[n], from, last.epoch, last.event_id, clock[n])
      [] OTHER -> peer_sync[n]

\* What the handler of each type sends in answer.
Answers(n, from, m) ==
    IF m.type = "SYNC_REQUEST"
    THEN {Packet(n, from, SyncResponse(ledger[n], m.start, m.end))}
    ELSE {}

-----------------------------------------------------------------------------
(* What the duties of the scheduler send and forget *)

SyncTargets(n) == {p \in DOMAIN peer_sync[n] : peer_sync[n][p].epoch > current_epoch(clock[n])}

\* The packets it may send: one request, to any peer that is ahead of this
\* node's clock epoch, up to the highest epoch heard of.
sync_with_network(n) ==
    LET request == SyncRequest(ledger[n], current_epoch(clock[n]) + 1,
                               Max({peer_sync[n][p].epoch : p \in SyncTargets(n)}))
    IN  IF SyncTargets(n) = {} THEN {{}} ELSE { {Packet(n, p, request)} : p \in SyncTargets(n) }

\* A request to every peer at this epoch with another hash; none at epoch 0.
validate_consistency(n) ==
    LET epoch == current_epoch(clock[n]) IN
    { Packet(n, p, SyncRequest(ledger[n], epoch, epoch)) :
        p \in {q \in DOMAIN peer_sync[n] : /\ epoch > 0
                                           /\ peer_sync[n][q].epoch = epoch
                                           /\ peer_sync[n][q].hash # ledger[n].latest_hash} }

\* The peers heard of lately.
cleanup_sync_state(n) ==
    [p \in {q \in DOMAIN peer_sync[n] : clock[n] - peer_sync[n][q].time <= StaleThreshold} |->
        peer_sync[n][p]]

checkpoint_due(n) == current_epoch(clock[n]) >= last_checkpoint[n] + CheckpointInterval

-----------------------------------------------------------------------------
(* Actions *)

Init ==
    /\ ledger = [n \in Node |-> EmptyLedger]
    /\ clock = [n \in Node |-> 0]
    /\ gossip_seen = [n \in Node |-> {}]
    /\ seen_event_ids = [n \in Node |-> {}]
    /\ peer_sync = [n \in Node |-> [p \in {} |-> 0]]
    /\ applied = [n \in Node |-> <<>>]
    /\ last_checkpoint = [n \in Node |-> 0]
    /\ wire = {}
    /\ requests = 0

\* A record call followed by broadcast_event of the new event.  No process
\* restarts here, so the event is never refused.
Record(n, p) ==
    LET l == [ledger[n] EXCEPT !.event_counter = @ + 1]
        e == create_event(ledger[n], n, clock[n], clock[n], p)
    IN  /\ MapThenSumSet(LAMBDA m : ledger[m].event_counter, Node) < MaxRecords
        /\ verify_event(l, e, clock[n])
        /\ ledger' = [ledger EXCEPT ![n] = Appended(l, e)]
        /\ gossip_seen' = [gossip_seen EXCEPT ![n] = @ \cup {e.event_id}]
        /\ wire' = wire \cup ToPeers(n, EventBroadcast(ledger'[n], e))
        /\ UNCHANGED <<clock, seen_event_ids, peer_sync, applied, last_checkpoint, requests>>

\* GossipProtocol::receive_message, handle_gossip_message as its handler, and
\* the propagation to the other peers.
receive_message(pkt) ==
    LET n == pkt.to
        m == pkt.msg
        b == IF m.type \in {"EVENT_BROADCAST", "SYNC_RESPONSE"}
             THEN ProcessAll(Bridge(n), m.events, clock[n]) ELSE Bridge(n)
    IN  /\ m.id \notin gossip_seen[n]
        /\ gossip_seen' = [gossip_seen EXCEPT ![n] = @ \cup {m.id}]
        /\ IF Readable(m)
           THEN /\ ledger' = [ledger EXCEPT ![n] = b.ledger]
                /\ seen_event_ids' = [seen_event_ids EXCEPT ![n] = b.seen]
                /\ applied' = [applied EXCEPT ![n] = b.applied]
                /\ peer_sync' = [peer_sync EXCEPT ![n] = PeersAfter(n, pkt.from, m)]
                /\ wire' = wire \cup Answers(n, pkt.from, m) \cup ToPeers(n, m)
           ELSE /\ wire' = wire \cup ToPeers(n, m)
                /\ UNCHANGED <<ledger, seen_event_ids, applied, peer_sync>>
        /\ UNCHANGED <<clock, last_checkpoint, requests>>

\* request_sync called by the application, for the epochs up to now.
RequestSync(n, p) ==
    /\ requests < MaxRequests
    /\ requests' = requests + 1
    /\ wire' = wire \cup {Packet(n, p, SyncRequest(ledger[n], 0, current_epoch(clock[n])))}
    /\ UNCHANGED <<ledger, clock, gossip_seen, seen_event_ids, peer_sync, applied, last_checkpoint>>

\* handle_sync_request called by the application, which got a request by
\* other means than gossip.
HandleSyncRequest(n, p, start) ==
    /\ requests < MaxRequests
    /\ requests' = requests + 1
    /\ wire' = wire \cup {Packet(n, p, SyncResponse(ledger[n], start, current_epoch(clock[n])))}
    /\ UNCHANGED <<ledger, clock, gossip_seen, seen_event_ids, peer_sync, applied, last_checkpoint>>

\* LedgerSyncScheduler::tick.  Its two interval timers are not kept: any call
\* may find either of them elapsed.
tick(n, sync_due, validation_due) ==
    LET epoch == current_epoch(clock[n])
        m == Checkpoint(ledger[n], epoch)
    IN  /\ \E sent \in IF sync_due THEN sync_with_network(n) ELSE {{}} :
              wire' = wire \cup sent
                      \cup (IF checkpoint_due(n) THEN ToPeers(n, m) ELSE {})
                      \cup (IF validation_due THEN validate_consistency(n) ELSE {})
        /\ gossip_seen' = [gossip_seen EXCEPT ![n] =
                             IF checkpoint_due(n) THEN @ \cup {m.id} ELSE @]
        /\ last_checkpoint' = [last_checkpoint EXCEPT ![n] = IF checkpoint_due(n) THEN epoch ELSE @]
        /\ peer_sync' = [peer_sync EXCEPT ![n] = IF validation_due THEN cleanup_sync_state(n) ELSE @]
        /\ UNCHANGED <<ledger, clock, seen_event_ids, applied, requests>>

Tick(n) ==
    /\ clock[n] < MaxTime
    /\ clock' = [clock EXCEPT ![n] = @ + 1]
    /\ UNCHANGED <<ledger, gossip_seen, seen_event_ids, peer_sync, applied, last_checkpoint, wire,
                   requests>>

Deliver == \E pkt \in wire : receive_message(pkt)

Next ==
    \/ \E n \in Writers, p \in Payload : Record(n, p)
    \/ Deliver
    \/ \E n \in Node : \E p \in Node \ {n} : RequestSync(n, p)
    \/ \E n \in Node : \E p \in Node \ {n} :
          \E s \in {0, current_epoch(clock[n])} : HandleSyncRequest(n, p, s)
    \/ \E n \in Node : \E sync_due, validation_due \in BOOLEAN : tick(n, sync_due, validation_due)
    \/ \E n \in Node : Tick(n)

Spec == Init /\ [][Next]_vars

\* The transport delivers every packet it is given, perhaps late and out of
\* order, clocks run and the scheduler's timers keep elapsing.
FairSpec ==
    /\ Spec
    /\ \A n \in Node : WF_vars(Tick(n)) /\ WF_vars(tick(n, TRUE, TRUE))
    /\ \A n \in Node : WF_vars(\E pkt \in wire : pkt.to = n /\ receive_message(pkt))

-----------------------------------------------------------------------------
(* Properties *)

Ids(events) == {events[i].event_id : i \in DOMAIN events}

\* The tables have their types; a peer table never holds the node itself.
TypeOK ==
    /\ clock \in [Node -> 0..MaxTime]
    /\ requests \in 0..MaxRequests
    /\ \A pkt \in wire : pkt.from \in Node /\ pkt.to \in Node /\ pkt.from # pkt.to
    /\ \A n \in Node : DOMAIN peer_sync[n] \subseteq Node \ {n}

\* The state manager is told of each event that came from the network exactly
\* once and in ledger order, however broadcasts and sync responses overlap:
\* an event the bridge has marked as seen is in the ledger, so it is never
\* applied without being stored nor shut out before it is stored.
AppliedExactlyOnce ==
    \A n \in Node :
        /\ seen_event_ids[n] \subseteq Ids(Events(n))
        /\ ListsInOrder(applied[n], Events(n),
              {e \in {Events(n)[i] : i \in 1..Len(Events(n))} : e.event_id \in seen_event_ids[n]})

\* Ledgers that receive through the bridge still share only a common prefix,
\* and none holds a broken link.
SyncedPrefix ==
    \A m, n \in Node :
        /\ validate_chain(ledger[n])
        /\ \A i \in DOMAIN Events(m), j \in DOMAIN Events(n) :
              Events(m)[i] = Events(n)[j] => i = j

\* A peer is taken to be at an epoch only if that peer, or the one that passed
\* its message on, held an event of that epoch: no epoch is invented.
PeerEpochReal ==
    \A n \in Node : \A p \in DOMAIN peer_sync[n] :
        \E m \in Node : \E i \in DOMAIN Events(m) : Events(m)[i].epoch = peer_sync[n][p].epoch

\* "Request missing events from peers" (ledger_sync.hpp): with one writer,
\* every event of the writer reaches every other node in the end.
CatchUp ==
    \A w \in Writers, n \in Node : \A k \in 1..MaxRecords :
        (Len(Events(w)) >= k) ~> (Len(Events(n)) >= k)

\* What the bridge keeps beside the ledger agrees with it, however broadcasts,
\* forwarded copies, responses and checkpoints of several writers overlap.
SyncSound == TypeOK /\ AppliedExactlyOnce /\ SyncedPrefix /\ PeerEpochReal

-----------------------------------------------------------------------------
(* Refinement *)

\* The events in the ledgers.
Held == UNION {{Events(n)[i] : i \in 1..Len(Events(n))} : n \in Node}

Log == INSTANCE ReplicatedLog WITH
    before <- [e \in Held |-> Predecessor(e)],
    log <- [n \in Node |-> Events(n)]

\* Ledgers that are fed by gossip implement a replicated log: whatever is lost,
\* repeated or overtaken, a node takes over only what continues its own path of
\* the one tree of events, and no event ever leaves a ledger or gets a second
\* place (process_received_event, add_external_event).
BridgedLogs == Log!GrowingSpec
=============================================================================
