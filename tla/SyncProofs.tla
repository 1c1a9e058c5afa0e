----------------------------- MODULE SyncProofs -----------------------------
(***************************************************************************)
(* Proofs about the parts of MCSync, for any nodes, contents, addresses,   *)
(* limits and bounds.                                                      *)
(***************************************************************************)
EXTENDS MCSync, LedgerOpsProofs, FiniteSetTheorems

-----------------------------------------------------------------------------
(* RoutingTable: entries are records or None *)

Entry == [last_seen : Nat, reliable : BOOLEAN, advertised : SUBSET Content]

TableType ==
    /\ entries \in [Host -> Entry \cup {None}]
    /\ content_index \in [Content -> SUBSET Host]
    /\ table_clock \in Nat

\* The third part of IndexBacked says no more than the first two: only these
\* are carried from step to step.
Listed(n, c) == entries[n] # None /\ c \in entries[n].advertised

IndexInv ==
    \A n \in Host, c \in Content :
        /\ Listed(n, c) => n \in content_index[c]
        /\ n \in content_index[c] => Listed(n, c) \/ <<n, c>> \in early

TableInv == TableType /\ IndexInv

LEMMA TableInitially == E!Init => TableInv
BY DEF E!Init, TableInv, TableType, IndexInv, Listed

\* What removing nodes and cleaning up share.
LEMMA TableWithout ==
    ASSUME TableInv, NEW gone \in SUBSET Host, \A n \in gone : entries[n] # None,
           E!Without(gone), UNCHANGED <<table_clock, early>>
    PROVE  TableInv'
<1>1. TableType'
  BY DEF TableInv, TableType, E!Without
<1>2. IndexInv'
  BY TableAssumption DEF TableInv, TableType, IndexInv, Listed, E!Without, Entry
<1> QED BY <1>1, <1>2 DEF TableInv

LEMMA TableStep == TableInv /\ E!Next => TableInv'
<1> SUFFICES ASSUME TableInv, E!Next PROVE TableInv' OBVIOUS
<1> USE TableAssumption DEF TableInv, TableType
<1>1. ASSUME NEW n \in Host, E!add_node(n) PROVE TableInv'
  <2>1. entries' \in [Host -> Entry \cup {None}]
    BY <1>1 DEF E!add_node, E!RoutingEntry, Entry
  <2>2. CASE entries[n] = None
    BY <1>1, <2>1, <2>2 DEF E!add_node, E!RoutingEntry, Entry, IndexInv, Listed
  <2>3. CASE entries[n] # None
    <3>1. entries' = [entries EXCEPT ![n] = [entries[n] EXCEPT !.last_seen = table_clock]]
      BY <1>1, <2>3 DEF E!add_node
    <3>2. entries'[n] # None /\ entries'[n].advertised = entries[n].advertised
      BY <2>3, <3>1 DEF Entry
    <3>3. \A m \in Host \ {n} : entries'[m] = entries[m]
      BY <3>1
    <3> QED BY <1>1, <2>1, <2>3, <3>2, <3>3 DEF E!add_node, IndexInv, Listed
  <2> QED BY <2>2, <2>3
<1>2. ASSUME NEW n \in Host, E!remove_node(n) PROVE TableInv'
  BY <1>2, TableWithout DEF E!remove_node
<1>3. ASSUME NEW n \in Host, NEW score \in {0, 1}, E!update_node_reliability(n, score)
      PROVE  TableInv'
  <2>1. PICK r \in BOOLEAN : entries' = [entries EXCEPT ![n].reliable = r]
    BY <1>3 DEF E!update_node_reliability
  <2>2. entries[n] # None
    BY <1>3 DEF E!update_node_reliability
  <2>3. entries' \in [Host -> Entry \cup {None}]
    BY <2>1, <2>2 DEF Entry
  <2>4. entries'[n] # None /\ entries'[n].advertised = entries[n].advertised
    BY <2>1, <2>2 DEF Entry
  <2>5. \A m \in Host \ {n} : entries'[m] = entries[m]
    BY <2>1
  <2> QED BY <1>3, <2>2, <2>3, <2>4, <2>5 DEF E!update_node_reliability, IndexInv, Listed
<1>4. ASSUME NEW n \in Host, NEW c \in Content, E!advertise_content(n, c) PROVE TableInv'
  <2>1. CASE entries[n] = None
    BY <1>4, <2>1 DEF E!advertise_content, IndexInv, Listed
  <2>2. CASE entries[n] # None
    <3>1. entries' = [entries EXCEPT ![n].advertised = @ \cup {c}]
      BY <1>4, <2>2 DEF E!advertise_content
    <3>2. entries' \in [Host -> Entry \cup {None}]
      BY <2>2, <3>1 DEF Entry
    <3>3. entries'[n] # None /\ entries'[n].advertised = entries[n].advertised \cup {c}
      BY <2>2, <3>1 DEF Entry
    <3>4. \A m \in Host \ {n} : entries'[m] = entries[m]
      BY <3>1
    <3> QED BY <1>4, <2>2, <3>2, <3>3, <3>4 DEF E!advertise_content, IndexInv, Listed
  <2> QED BY <2>1, <2>2
<1>5. ASSUME NEW n \in Host, NEW c \in Content, E!remove_content_advertisement(n, c)
      PROVE  TableInv'
  <2>1. CASE entries[n] = None
    BY <1>5, <2>1 DEF E!remove_content_advertisement, IndexInv, Listed
  <2>2. CASE entries[n] # None
    <3>1. entries' = [entries EXCEPT ![n].advertised = @ \ {c}]
      BY <1>5, <2>2 DEF E!remove_content_advertisement
    <3>2. entries' \in [Host -> Entry \cup {None}]
      BY <2>2, <3>1 DEF Entry
    <3>3. entries'[n] # None /\ entries'[n].advertised = entries[n].advertised \ {c}
      BY <2>2, <3>1 DEF Entry
    <3>4. \A m \in Host \ {n} : entries'[m] = entries[m]
      BY <3>1
    <3> QED BY <1>5, <2>2, <3>2, <3>3, <3>4 DEF E!remove_content_advertisement, IndexInv, Listed
  <2> QED BY <2>1, <2>2
<1>6. CASE E!cleanup_stale_entries
  BY <1>6, TableWithout DEF E!cleanup_stale_entries
<1>7. CASE E!Tick
  BY <1>7 DEF E!Tick, IndexInv, Listed
<1> QED BY <1>1, <1>2, <1>3, <1>4, <1>5, <1>6, <1>7 DEF E!Next

\* The index of contents of RoutingTable offers a node for a content exactly
\* while the node's entry lists it, whatever nodes are added, removed, expired
\* or cleaned up, for any nodes, contents and lifetimes.
THEOREM IndexBackedHolds == SyncSpec => []IndexBacked
<1> DEFINE I == part = "table" => TableInv
<1>1. SyncInit => I
  BY TableInitially DEF SyncInit
<1>2. I /\ [SyncNext]_all_vars => I'
  <2> SUFFICES ASSUME I, [SyncNext]_all_vars PROVE I' OBVIOUS
  <2>1. CASE part = "table" /\ E!Next /\ part' = part
    BY <2>1, TableStep
  <2>2. CASE part' = part /\ UNCHANGED E_vars
    BY <2>2 DEF E_vars, TableInv, TableType, IndexInv, Listed
  <2> QED BY <2>1, <2>2 DEF SyncNext, all_vars
<1>3. I => IndexBacked
  BY DEF TableInv, IndexInv, Listed, IndexBacked, E!IndexBacked, E!Selectable
<1> QED BY <1>1, <1>2, <1>3, PTL DEF SyncSpec

-----------------------------------------------------------------------------
(* PeerDiscovery *)

\* OnlyOthersKnown is inductive once the two tables are known to have an
\* entry for every node: nothing depends on what is on the wire.
PeersInv ==
    /\ DOMAIN discovered_peers = Peer /\ DOMAIN disk = Peer
    /\ \A n \in Peer : n \notin DOMAIN discovered_peers[n] /\ n \notin DOMAIN disk[n]

\* Others are added to what a node knows, never the node itself.
LEMMA OthersAdded ==
    ASSUME PeersInv, NEW n \in Peer, NEW peers, n \notin peers,
           P!add_discovered_peers(n, peers), disk' = disk
    PROVE  PeersInv'
BY DEF PeersInv, P!add_discovered_peers

LEMMA PeersStep == PeersInv /\ P!Next => PeersInv'
<1> SUFFICES ASSUME PeersInv, P!Next PROVE PeersInv' OBVIOUS
<1>1. CASE P!Tick
  BY <1>1 DEF P!Tick, PeersInv
<1>2. ASSUME NEW n \in Peer, P!connect_to_bootstrap_nodes(n) PROVE PeersInv'
  BY <1>2, OthersAdded DEF P!connect_to_bootstrap_nodes
<1>3. ASSUME NEW n \in Peer, P!announce(n) \/ P!stop(n) PROVE PeersInv'
  BY <1>3 DEF P!announce, P!stop, PeersInv
<1>4. ASSUME NEW n \in Peer, P!cleanup_stale_peers(n) PROVE PeersInv'
  BY <1>4 DEF P!cleanup_stale_peers, PeersInv
<1>5. ASSUME NEW n \in Peer, P!save_to_disk(n) PROVE PeersInv'
  BY <1>5 DEF P!save_to_disk, PeersInv
<1>6. ASSUME NEW n \in Peer, P!load_from_disk(n) PROVE PeersInv'
  BY <1>6 DEF P!load_from_disk, PeersInv
<1>7. ASSUME NEW n \in Peer, NEW m \in Peer, P!request_peers(n, m) PROVE PeersInv'
  BY <1>7 DEF P!request_peers, PeersInv
<1>8. ASSUME NEW n \in Peer, NEW msg \in discovery_wire, P!handle_peer_announcement(n, msg)
      PROVE  PeersInv'
  BY <1>8, OthersAdded DEF P!handle_peer_announcement
<1>9. ASSUME NEW n \in Peer, NEW msg \in discovery_wire, NEW peers \in SUBSET Peer,
             P!handle_peer_request(n, msg, peers)
      PROVE  PeersInv'
  BY <1>9 DEF P!handle_peer_request, PeersInv
<1>10. ASSUME NEW n \in Peer, NEW msg \in discovery_wire, P!select_random_peers_of_none(n, msg)
       PROVE  PeersInv'
  BY <1>10 DEF P!select_random_peers_of_none, PeersInv
<1>11. ASSUME NEW n \in Peer, NEW msg \in discovery_wire, P!handle_peer_response(n, msg)
       PROVE  PeersInv'
  BY <1>11, OthersAdded DEF P!handle_peer_response
<1> QED BY <1>1, <1>2, <1>3, <1>4, <1>5, <1>6, <1>7, <1>8, <1>9, <1>10, <1>11 DEF P!Next

\* No announcement, answer, clean-up, crash or restart makes a node of
\* PeerDiscovery its own peer, in memory or in its peer database, for any
\* nodes, bootstrap lists and timeouts and any number of messages.
THEOREM OnlyOthersKnownHolds == SyncSpec => []OnlyOthersKnown
<1> DEFINE I == part = "discovery" => PeersInv
<1>1. SyncInit => I
  BY DEF SyncInit, P!Init, P!Empty, PeersInv
<1>2. I /\ [SyncNext]_all_vars => I'
  <2> SUFFICES ASSUME I, [SyncNext]_all_vars PROVE I' OBVIOUS
  <2>1. CASE part = "discovery" /\ P!Next /\ part' = part
    BY <2>1, PeersStep
  <2>2. CASE part' = part /\ UNCHANGED P_vars
    BY <2>2 DEF P_vars, PeersInv
  <2> QED BY <2>1, <2>2 DEF SyncNext, all_vars
<1>3. I => OnlyOthersKnown
  BY DEF PeersInv, OnlyOthersKnown, P!OnlyOthersKnown
<1> QED BY <1>1, <1>2, <1>3, PTL DEF SyncSpec

-----------------------------------------------------------------------------
(* Connection: one bucket of tokens, many senders *)

Fan == Cardinality(Address)

\* The largest limit bounds every limit.
LEMMA MaxLimitIsMax == N!MaxLimit \in Limits /\ N!MaxLimit \in Nat /\ \A l \in Limits : l <= N!MaxLimit
<1>1. \E most \in Limits : \A l \in Limits : most >= l
  BY ConnectionAssumption
<1> QED BY <1>1, ConnectionAssumption DEF N!MaxLimit, N!Max

LEMMA MinOfTwo ==
    ASSUME NEW x \in Int, NEW y \in Int
    PROVE  N!Min({x, y}) = IF x <= y THEN x ELSE y
BY DEF N!Min

LEMMA FanIsPositive == Fan \in Nat \ {0}
BY ConnectionAssumption, FS_CardinalityType, FS_EmptySet DEF Fan

ConnectionType ==
    /\ sending \subseteq Address
    /\ limit \in Limits
    /\ tokens \in 0..N!MaxLimit
    /\ link_clock \in 0..ConnectionMaxTime
    /\ last_update \in 0..link_clock
    /\ link_sent \in [0..ConnectionMaxTime -> Nat]

Inside == Cardinality(sending)

\* What was sent this tick and what is left in the bucket fit in the largest
\* bucket, until a sender finds too little left.  From then on the bucket is
\* empty, nobody passes the limiter any more, and the senders inside have one
\* message each to go.  All connections are inside only if the last one to
\* come found enough for a message, and nothing was sent since.
BucketInv ==
    /\ last_update < link_clock => link_sent[link_clock] = 0
    /\ \/ link_sent[link_clock] + tokens <= N!MaxLimit
       \/ tokens = 0 /\ link_sent[link_clock] + Inside * Bytes <= N!MaxLimit + (Fan - 1) * Bytes
    /\ sending # {} => Bytes <= N!MaxLimit
    /\ sending = Address => link_sent[link_clock] + Bytes <= N!MaxLimit

PastInv ==
    /\ \A t \in 0..(link_clock - 1) : link_sent[t] <= N!MaxLimit + (Fan - 1) * Bytes
    /\ \A t \in (link_clock + 1)..ConnectionMaxTime : link_sent[t] = 0

ConnectionInv == ConnectionType /\ BucketInv /\ PastInv

LEMMA ConnectionInitially == N!Init => ConnectionInv
<1> SUFFICES ASSUME N!Init PROVE ConnectionInv OBVIOUS
<1> USE ConnectionAssumption, MaxLimitIsMax, FanIsPositive
<1>1. ConnectionType
  BY DEF N!Init, ConnectionType
<1>2. BucketInv
  BY FS_EmptySet DEF N!Init, BucketInv
<1>3. PastInv
  BY DEF N!Init, PastInv
<1> QED BY <1>1, <1>2, <1>3 DEF ConnectionInv

\* A refill gives at most a full bucket, and nothing in a tick in which there
\* was one before.
LEMMA RefillBounded ==
    ASSUME ConnectionType
    PROVE  /\ N!refill_tokens \in 0..N!MaxLimit
           /\ last_update = link_clock => N!refill_tokens <= tokens
<1> DEFINE d == link_clock - last_update
<1>1. limit \in Nat /\ tokens \in Nat /\ d \in Nat /\ limit <= N!MaxLimit /\ N!MaxLimit \in Nat
  BY MaxLimitIsMax, ConnectionAssumption DEF ConnectionType
<1>2. limit * d \in Nat
  BY <1>1
<1>3. d = 0 => limit * d = 0
  BY <1>1
<1>4. N!refill_tokens = IF tokens + limit * d <= limit THEN tokens + limit * d ELSE limit
  <2> HIDE DEF d
  <2>1. tokens + limit * d \in Int /\ limit \in Int
    BY <1>1, <1>2
  <2>2. N!refill_tokens = N!Min({tokens + limit * d, limit})
    BY DEF N!refill_tokens, d
  <2> QED BY <2>1, <2>2, MinOfTwo
<1>5. last_update = link_clock => d = 0
  BY DEF ConnectionType
<1> HIDE DEF d
<1> QED BY <1>1, <1>2, <1>3, <1>4, <1>5

\* What the bucket holds after a refill obeys the same bounds.
LEMMA RefillKeepsBucket ==
    ASSUME ConnectionType, BucketInv
    PROVE  \/ link_sent[link_clock] + N!refill_tokens <= N!MaxLimit
           \/ /\ N!refill_tokens = 0
              /\ link_sent[link_clock] + Inside * Bytes <= N!MaxLimit + (Fan - 1) * Bytes
<1>1. link_sent[link_clock] \in Nat /\ N!MaxLimit \in Nat
  BY MaxLimitIsMax DEF ConnectionType
<1>2. CASE last_update = link_clock
  BY <1>1, <1>2, RefillBounded DEF BucketInv, ConnectionType
<1>3. CASE last_update < link_clock
  BY <1>1, <1>3, RefillBounded DEF BucketInv, ConnectionType
<1> QED BY <1>2, <1>3 DEF ConnectionType

LEMMA InsideCounts ==
    ASSUME NEW S \in SUBSET Address
    PROVE  /\ IsFiniteSet(S) /\ Cardinality(S) \in Nat /\ Cardinality(S) <= Fan
           /\ S # Address => Cardinality(S) <= Fan - 1
<1>1. IsFiniteSet(S) /\ Cardinality(S) <= Fan /\ (Fan = Cardinality(S) => S = Address)
  BY ConnectionAssumption, FS_Subset DEF Fan
<1>2. Cardinality(S) \in Nat
  BY <1>1, FS_CardinalityType
<1> QED BY <1>1, <1>2, FanIsPositive

LEMMA ProductMonotone ==
    ASSUME NEW x \in Nat, NEW y \in Nat, NEW z \in Nat, x <= y
    PROVE  x * z <= y * z /\ x * z \in Nat /\ y * z \in Nat
OBVIOUS

\* Senders that give up leave room for the others.
LEMMA FewerSenders ==
    ASSUME ConnectionInv, sending' \subseteq sending,
           UNCHANGED <<tokens, limit, last_update, link_clock, link_sent>>
    PROVE  ConnectionInv'
<1>1. ConnectionType'
  BY DEF ConnectionInv, ConnectionType
<1>2. PastInv'
  BY DEF ConnectionInv, PastInv
<1>3. Inside \in Nat /\ Inside' \in Nat /\ Inside' <= Inside
  <2>1. IsFiniteSet(sending) /\ Cardinality(sending) \in Nat
    BY InsideCounts DEF ConnectionInv, ConnectionType
  <2>2. Cardinality(sending') <= Cardinality(sending) /\ IsFiniteSet(sending')
    BY <2>1, FS_Subset
  <2> QED BY <2>1, <2>2, FS_CardinalityType DEF Inside
<1>4. Inside' * Bytes <= Inside * Bytes /\ Inside' * Bytes \in Nat /\ Inside * Bytes \in Nat
  BY <1>3, ConnectionAssumption, ProductMonotone
<1>5. (Fan - 1) * Bytes \in Nat /\ link_sent[link_clock] \in Nat /\ N!MaxLimit \in Nat
  BY FanIsPositive, ConnectionAssumption, MaxLimitIsMax DEF ConnectionInv, ConnectionType
<1>6. link_sent[link_clock] + Inside * Bytes <= N!MaxLimit + (Fan - 1) * Bytes
      => link_sent[link_clock] + Inside' * Bytes <= N!MaxLimit + (Fan - 1) * Bytes
  <2> DEFINE spare == (Fan - 1) * Bytes
             rest == Inside * Bytes
             less == Inside' * Bytes
  <2>1. spare \in Nat /\ rest \in Nat /\ less \in Nat /\ less <= rest
    BY <1>4, <1>5
  <2> HIDE DEF spare, rest, less
  <2>2. link_sent[link_clock] + rest <= N!MaxLimit + spare
        => link_sent[link_clock] + less <= N!MaxLimit + spare
    BY <1>5, <2>1
  <2> QED BY <2>2 DEF spare, rest, less
<1>7. BucketInv'
  BY <1>6 DEF ConnectionInv, ConnectionType, BucketInv
<1> QED BY <1>1, <1>2, <1>7 DEF ConnectionInv

LEMMA RecordSentStep ==
    ASSUME ConnectionInv, NEW a \in Address, N!record_sent(a)
    PROVE  ConnectionInv'
<1> DEFINE r == N!refill_tokens
           s == link_sent[link_clock]
<1>1. /\ s \in Nat /\ N!MaxLimit \in Nat /\ Bytes \in Nat \ {0} /\ r \in 0..N!MaxLimit
      /\ link_clock \in 0..ConnectionMaxTime /\ ConnectionMaxTime \in Nat
  BY MaxLimitIsMax, ConnectionAssumption, RefillBounded DEF ConnectionInv, ConnectionType
<1>2. /\ tokens' = IF r >= Bytes THEN r - Bytes ELSE 0
      /\ last_update' = link_clock /\ link_clock' = link_clock /\ limit' = limit
      /\ sending' = sending \ {a} /\ a \in sending
      /\ link_sent' = [link_sent EXCEPT ![link_clock] = s + Bytes]
  BY DEF N!record_sent, N!Refilled
<1>3. \/ s + r <= N!MaxLimit
      \/ r = 0 /\ s + Inside * Bytes <= N!MaxLimit + (Fan - 1) * Bytes
  BY RefillKeepsBucket DEF ConnectionInv
<1>4. sending = Address => s + Bytes <= N!MaxLimit
  BY DEF ConnectionInv, BucketInv
<1>5. Bytes <= N!MaxLimit
  BY <1>2 DEF ConnectionInv, BucketInv
<1>6. sending \in SUBSET Address /\ limit \in Limits /\ link_sent \in [0..ConnectionMaxTime -> Nat]
  BY DEF ConnectionInv, ConnectionType
<1>7. PastInv
  BY DEF ConnectionInv
<1> HIDE DEF r, s
<1>8. ConnectionType'
  BY <1>1, <1>2, <1>6 DEF ConnectionType
<1>9. link_sent'[link_clock] = s + Bytes
  BY <1>1, <1>2, <1>6
<1>10. Inside \in Nat \ {0} /\ Inside' = Inside - 1
  BY <1>2, <1>6, InsideCounts, FS_RemoveElement, FS_EmptySet DEF Inside
<1>11. s + Bytes + (Inside - 1) * Bytes <= N!MaxLimit + (Fan - 1) * Bytes \/ (r # 0 /\ r >= Bytes)
  <2> DEFINE spare == (Fan - 1) * Bytes
             rest == Inside * Bytes
             less == (Inside - 1) * Bytes
  <2>1. less = rest - Bytes /\ rest \in Nat /\ spare \in Nat
    BY <1>1, <1>10, FanIsPositive
  <2>2. sending = Address => less = spare
    BY DEF Inside, Fan
  <2>3. sending # Address => rest <= spare
    <3>1. sending # Address => Inside <= Fan - 1 /\ Fan - 1 \in Nat
      BY <1>6, InsideCounts, FanIsPositive DEF Inside
    <3> QED BY <1>1, <1>10, <3>1, ProductMonotone
  <2>4. s + r <= N!MaxLimit \/ (r = 0 /\ s + rest <= N!MaxLimit + spare)
    BY <1>3
  <2> HIDE DEF spare, rest, less
  <2>5. s + Bytes + less <= N!MaxLimit + spare \/ (r # 0 /\ r >= Bytes)
    BY <1>1, <1>4, <2>1, <2>2, <2>3, <2>4
  <2> QED BY <2>5 DEF spare, less
<1>12. BucketInv'
  <2>1. ~ (last_update' < link_clock')
    BY <1>1, <1>2
  <2>2. sending' # Address
    BY <1>2
  <2>3. CASE r >= Bytes
    <3>1. s + r <= N!MaxLimit /\ tokens' = r - Bytes
      BY <1>1, <1>2, <1>3, <2>3
    <3> QED BY <1>1, <1>2, <1>5, <1>9, <2>1, <2>2, <3>1 DEF BucketInv
  <2>4. CASE ~ (r >= Bytes)
    <3>1. tokens' = 0
      BY <1>2, <2>4
    <3> QED BY <1>2, <1>5, <1>9, <1>10, <1>11, <2>1, <2>2, <2>4, <3>1 DEF BucketInv
  <2> QED BY <2>3, <2>4
<1>13. PastInv'
  BY <1>1, <1>2, <1>6, <1>7 DEF PastInv
<1> QED BY <1>8, <1>12, <1>13 DEF ConnectionInv

LEMMA ConnectionStep == ConnectionInv /\ N!Next => ConnectionInv'
<1> SUFFICES ASSUME ConnectionInv, N!Next PROVE ConnectionInv' OBVIOUS
<1>1. ASSUME NEW a \in Address, N!create_connection(a) \/ N!close_connection(a) \/ N!peer_gone(a)
                               \/ N!send_failed(a)
      PROVE  ConnectionInv'
  BY <1>1, FewerSenders
  DEF N!create_connection, N!close_connection, N!peer_gone, N!send_failed, N!disconnect
<1>2. CASE N!close_all_connections
  BY <1>2, FewerSenders DEF N!close_all_connections, N!disconnect
<1>3. ASSUME NEW a \in Address, N!can_send(a) PROVE ConnectionInv'
  <2>1. tokens' = N!refill_tokens /\ last_update' = link_clock /\ tokens' >= Bytes
        /\ UNCHANGED <<limit, link_clock, link_sent>> /\ sending' = sending \cup {a}
    BY <1>3 DEF N!can_send, N!Refilled
  <2>2. link_sent[link_clock] + tokens' <= N!MaxLimit /\ tokens' \in 0..N!MaxLimit
    BY <2>1, RefillKeepsBucket, RefillBounded, ConnectionAssumption, MaxLimitIsMax DEF ConnectionInv
  <2>3. ConnectionType'
    BY <2>1, <2>2 DEF ConnectionInv, ConnectionType
  <2>4. BucketInv'
    BY <2>1, <2>2, ConnectionAssumption, MaxLimitIsMax DEF ConnectionInv, ConnectionType, BucketInv
  <2>5. PastInv'
    BY <2>1 DEF ConnectionInv, PastInv
  <2> QED BY <2>3, <2>4, <2>5 DEF ConnectionInv
<1>4. ASSUME NEW a \in Address, N!send_blocked(a) PROVE ConnectionInv'
  <2>1. tokens' = N!refill_tokens /\ last_update' = link_clock
        /\ UNCHANGED <<limit, link_clock, link_sent, sending>>
    BY <1>4 DEF N!send_blocked, N!Refilled
  <2>2. ConnectionType'
    BY <2>1, RefillBounded DEF ConnectionInv, ConnectionType
  <2>3. BucketInv'
    BY <2>1, RefillKeepsBucket DEF ConnectionInv, ConnectionType, BucketInv, Inside
  <2>4. PastInv'
    BY <2>1 DEF ConnectionInv, PastInv
  <2> QED BY <2>2, <2>3, <2>4 DEF ConnectionInv
<1>5. ASSUME NEW a \in Address, N!record_sent(a) PROVE ConnectionInv'
  BY <1>5, RecordSentStep
<1>6. ASSUME NEW l \in Limits, N!set_limit(l) PROVE ConnectionInv'
  BY <1>6 DEF N!set_limit, ConnectionInv, ConnectionType, BucketInv, PastInv, Inside
<1>7. CASE N!Tick
  <2>1. /\ link_clock < ConnectionMaxTime /\ link_clock' = link_clock + 1
        /\ UNCHANGED <<sending, tokens, limit, last_update, link_sent>>
    BY <1>7 DEF N!Tick
  <2>2. ConnectionType'
    BY <2>1, ConnectionAssumption DEF ConnectionInv, ConnectionType
  <2>3. link_sent[link_clock'] = 0
    BY <2>1, ConnectionAssumption DEF ConnectionInv, ConnectionType, PastInv
  <2>4. BucketInv'
    BY <2>1, <2>3, ConnectionAssumption, MaxLimitIsMax DEF ConnectionInv, ConnectionType, BucketInv
  <2>5. link_sent[link_clock] <= N!MaxLimit + (Fan - 1) * Bytes
    <3>1. (Fan - 1) * Bytes \in Nat /\ Inside * Bytes \in Nat
      BY FanIsPositive, InsideCounts, ConnectionAssumption DEF ConnectionInv, ConnectionType, Inside
    <3> QED BY <3>1, MaxLimitIsMax DEF ConnectionInv, ConnectionType, BucketInv
  <2>6. PastInv'
    BY <2>1, <2>5 DEF ConnectionInv, ConnectionType, PastInv
  <2> QED BY <2>2, <2>4, <2>6 DEF ConnectionInv
<1> QED BY <1>1, <1>2, <1>3, <1>4, <1>5, <1>6, <1>7 DEF N!Next

\* Whatever senders of Connection test the shared limiter before others have
\* paid, and however the limit changes, one tick sees at most a full bucket
\* and one message more for every connection but one: for any number of
\* connections, any limits and any size of message.
THEOREM SharedLimitHoldsAlways == SyncSpec => []SharedLimitHolds
<1> DEFINE I == part = "connection" => ConnectionInv
<1>1. SyncInit => I
  BY ConnectionInitially DEF SyncInit
<1>2. I /\ [SyncNext]_all_vars => I'
  <2> SUFFICES ASSUME I, [SyncNext]_all_vars PROVE I' OBVIOUS
  <2>1. CASE part = "connection" /\ N!Next /\ part' = part
    BY <2>1, ConnectionStep
  <2>2. CASE part' = part /\ UNCHANGED N_vars
    BY <2>2 DEF N_vars, ConnectionInv, ConnectionType, BucketInv, PastInv, Inside
  <2> QED BY <2>1, <2>2 DEF SyncNext, all_vars
<1>3. I => SharedLimitHolds
  <2> SUFFICES ASSUME ConnectionInv PROVE N!SharedLimitHolds
    BY DEF SharedLimitHolds
  <2> SUFFICES ASSUME NEW t \in 0..ConnectionMaxTime
               PROVE  link_sent[t] <= N!MaxLimit + (Fan - 1) * Bytes
    BY DEF N!SharedLimitHolds, Fan, N!Cardinality, Cardinality
  <2>1. /\ (Fan - 1) * Bytes \in Nat /\ Inside * Bytes \in Nat /\ N!MaxLimit \in Nat
        /\ link_sent[link_clock] \in Nat
    BY FanIsPositive, InsideCounts, ConnectionAssumption, MaxLimitIsMax
    DEF ConnectionInv, ConnectionType, Inside
  <2>2. CASE t = link_clock
    BY <2>1, <2>2 DEF ConnectionInv, ConnectionType, BucketInv
  <2>3. CASE t # link_clock
    BY <2>1, <2>3, ConnectionAssumption DEF ConnectionInv, ConnectionType, PastInv
  <2> QED BY <2>2, <2>3
<1> QED BY <1>1, <1>2, <1>3, PTL DEF SyncSpec

-----------------------------------------------------------------------------
(* LedgerSync: the loops of the bridge, by least counterexample *)

\* f holds the bridge after each of the first k events.
Runs(f, b, events, now, k) ==
    f = [i \in 0..k |-> IF i = 0 THEN b ELSE process_received_event(f[i - 1], events[i], now)]

LEMMA RunExists ==
    ASSUME NEW S, NEW events \in Seq(S), NEW b, NEW now
    PROVE  \E f : Runs(f, b, events, now, Len(events))
<1> DEFINE T == {k \in 0..Len(events) : ~ \E f : Runs(f, b, events, now, k)}
<1>0. Len(events) \in Nat
  OBVIOUS
<1>1. SUFFICES ASSUME T # {} PROVE FALSE
  BY <1>0
<1>9. T \in SUBSET Nat
  BY <1>0
<1>2. PICK k \in T : \A j \in T : k <= j
  <2> HIDE DEF T
  <2> QED BY <1>1, <1>9, LeastNumber
<1>3. k # 0
  <2>1. Runs([i \in 0..0 |-> b], b, events, now, 0)
    BY DEF Runs
  <2> QED BY <2>1
<1>4. k - 1 \in 0..Len(events) /\ k \in 1..Len(events)
  BY <1>0, <1>3
<1>5. PICK f : Runs(f, b, events, now, k - 1)
  BY <1>2, <1>4
<1> DEFINE new == process_received_event(f[k - 1], events[k], now)
           g == [i \in 0..k |-> IF i = k THEN new ELSE f[i]]
<1>6. ASSUME NEW i \in 0..k
      PROVE  g[i] = IF i = 0 THEN b ELSE process_received_event(g[i - 1], events[i], now)
  <2>1. CASE i = k
    <3>1. g[k - 1] = f[k - 1] /\ g[k] = new
      BY <1>4
    <3> QED BY <1>3, <2>1, <3>1
  <2>2. CASE i # k
    <3>1. g[i] = f[i] /\ i \in 0..(k - 1) /\ (i # 0 => g[i - 1] = f[i - 1])
      BY <1>4, <2>2
    <3>2. f[i] = IF i = 0 THEN b ELSE process_received_event(f[i - 1], events[i], now)
      BY <1>5, <3>1 DEF Runs
    <3> QED BY <3>1, <3>2
  <2> QED BY <2>1, <2>2
<1>7. Runs(g, b, events, now, k)
  <2> HIDE DEF new
  <2>1. g = [i \in 0..k |-> g[i]]
    OBVIOUS
  <2> HIDE DEF g
  <2> QED BY <1>6, <2>1 DEF Runs
<1> QED BY <1>7

\* The same for the filter that answers a sync request.
Picks(f, events, start, end, k) ==
    f = [i \in 0..k |->
           IF i = 0 THEN <<>>
           ELSE IF start <= events[i].epoch /\ events[i].epoch <= end
                THEN Append(f[i - 1], events[i]) ELSE f[i - 1]]

LEMMA PickExists ==
    ASSUME NEW S, NEW events \in Seq(S), NEW start, NEW end
    PROVE  \E f : Picks(f, events, start, end, Len(events))
<1> DEFINE T == {k \in 0..Len(events) : ~ \E f : Picks(f, events, start, end, k)}
           next(q, e) == IF start <= e.epoch /\ e.epoch <= end THEN Append(q, e) ELSE q
<1>0. Len(events) \in Nat
  OBVIOUS
<1>1. SUFFICES ASSUME T # {} PROVE FALSE
  BY <1>0
<1>9. T \in SUBSET Nat
  BY <1>0
<1>2. PICK k \in T : \A j \in T : k <= j
  <2> HIDE DEF T
  <2> QED BY <1>1, <1>9, LeastNumber
<1>3. k # 0
  <2>1. Picks([i \in 0..0 |-> <<>>], events, start, end, 0)
    BY DEF Picks
  <2> QED BY <2>1
<1>4. k - 1 \in 0..Len(events) /\ k \in 1..Len(events)
  BY <1>0, <1>3
<1>5. PICK f : Picks(f, events, start, end, k - 1)
  BY <1>2, <1>4
<1>a. f = [i \in 0..(k - 1) |-> IF i = 0 THEN <<>> ELSE next(f[i - 1], events[i])]
  BY <1>5 DEF Picks
<1> DEFINE new == next(f[k - 1], events[k])
           g == [i \in 0..k |-> IF i = k THEN new ELSE f[i]]
<1> HIDE DEF next
<1>6. ASSUME NEW i \in 0..k
      PROVE  g[i] = IF i = 0 THEN <<>> ELSE next(g[i - 1], events[i])
  <2>1. CASE i = k
    <3>1. g[k - 1] = f[k - 1] /\ g[k] = new
      BY <1>4
    <3> QED BY <1>3, <2>1, <3>1
  <2>2. CASE i # k
    <3>1. g[i] = f[i] /\ i \in 0..(k - 1) /\ (i # 0 => g[i - 1] = f[i - 1])
      BY <1>4, <2>2
    <3>2. f[i] = IF i = 0 THEN <<>> ELSE next(f[i - 1], events[i])
      BY <1>a, <3>1
    <3> QED BY <3>1, <3>2
  <2> QED BY <2>1, <2>2
<1>7. g = [i \in 0..k |-> IF i = 0 THEN <<>> ELSE next(g[i - 1], events[i])]
  <2> HIDE DEF new
  <2>1. g = [i \in 0..k |-> g[i]]
    OBVIOUS
  <2> HIDE DEF g
  <2> QED BY <1>6, <2>1
<1>8. Picks(g, events, start, end, k)
  <2> HIDE DEF g
  <2> QED BY <1>7 DEF Picks, next
<1> QED BY <1>8

\* A sync response carries events of the ledger that answers.
LEMMA PickedEvents ==
    ASSUME NEW S, NEW events \in Seq(S), NEW start, NEW end
    PROVE  EventsBetween(events, start, end) \in Seq(S)
<1> DEFINE L == Len(events)
           f == CHOOSE g : Picks(g, events, start, end, L)
           T == {k \in 0..L : f[k] \notin Seq(S)}
<1>0. L \in Nat /\ \A i \in 1..L : events[i] \in S
  OBVIOUS
<1>1. Picks(f, events, start, end, L)
  BY PickExists
<1>2. EventsBetween(events, start, end) = f[L]
  BY DEF EventsBetween, Picks
<1> HIDE DEF f
<1>3. ASSUME T # {} PROVE FALSE
  <2>0. T \in SUBSET Nat
    BY <1>0
  <2>1. PICK k \in T : \A j \in T : k <= j
    <3> HIDE DEF T
    <3> QED BY <1>3, <2>0, LeastNumber
  <2>5. f[k] \notin Seq(S)
    OBVIOUS
  <2>2. f[k] = IF k = 0 THEN <<>>
               ELSE IF start <= events[k].epoch /\ events[k].epoch <= end
                    THEN Append(f[k - 1], events[k]) ELSE f[k - 1]
    BY <1>1 DEF Picks
  <2>3. CASE k = 0
    BY <2>2, <2>3, <2>5
  <2>4. CASE k # 0
    <3>1. k \in 1..L /\ k - 1 \in 0..L
      BY <1>0, <2>4
    <3>2. f[k - 1] \in Seq(S) /\ events[k] \in S
      BY <1>0, <2>1, <3>1
    <3>3. Append(f[k - 1], events[k]) \in Seq(S)
      BY <3>2
    <3> QED BY <2>2, <2>4, <2>5, <3>2, <3>3
  <2> QED BY <2>3, <2>4
<1> QED BY <1>0, <1>2, <1>3

-----------------------------------------------------------------------------
(* LedgerSync: one bridge *)

\* The events of s the bridge has marked as seen.
Marked(s, ids) == {e \in {s[i] : i \in 1..Len(s)} : e.event_id \in ids}

BridgeGood(b, S) ==
    /\ b = [ledger |-> b.ledger, seen |-> b.seen, applied |-> b.applied]
    /\ Good(b.ledger)
    /\ b.ledger.events \in Seq(S)
    /\ b.applied \in Seq(S)
    /\ b.seen \subseteq Ids(b.ledger.events)
    /\ ListsInOrder(b.applied, b.ledger.events, Marked(b.ledger.events, b.seen))

\* Nothing is lost from s.
Extends(s, t) == Len(s) <= Len(t) /\ \A i \in 1..Len(s) : t[i] = s[i]

LEMMA ExtendsTransitive ==
    ASSUME NEW S, NEW s \in Seq(S), NEW t \in Seq(S), NEW u \in Seq(S), Extends(s, t), Extends(t, u)
    PROVE  Extends(s, u)
<1>1. Len(s) \in Nat /\ Len(t) \in Nat /\ Len(u) \in Nat
  OBVIOUS
<1> QED BY <1>1 DEF Extends

\* An event that verify_event let pass has an id no event of the ledger has.
LEMMA NewId ==
    ASSUME NEW l, Good(l), NEW e, NEW now, verify_event(l, e, now)
    PROVE  \A i \in 1..Len(l.events) : l.events[i].event_id # e.event_id
BY DEF verify_event, IsKnown, Good, Lookup

\* A new event, marked or not, keeps the list of applied events in step.
LEMMA MarkedGrows ==
    ASSUME NEW S, NEW s \in Seq(S), NEW t \in Seq(S), NEW e \in S, NEW ids,
           ids \subseteq Ids(s),
           \A i \in 1..Len(s) : s[i].event_id # e.event_id,
           ListsInOrder(t, s, Marked(s, ids))
    PROVE  LET s2 == Append(s, e)
               more == ids \cup {e.event_id}
           IN  /\ ListsInOrder(t, s2, Marked(s2, ids)) /\ ids \subseteq Ids(s2)
               /\ ListsInOrder(Append(t, e), s2, Marked(s2, more)) /\ more \subseteq Ids(s2)
<1> DEFINE s2 == Append(s, e)
           more == ids \cup {e.event_id}
<1>1. /\ Len(s) \in Nat /\ Len(s2) = Len(s) + 1 /\ s2[Len(s) + 1] = e /\ s2 \in Seq(S)
      /\ \A i \in 1..Len(s) : s2[i] = s[i]
  BY AppendFacts
<1>2. DOMAIN s = 1..Len(s) /\ DOMAIN s2 = 1..(Len(s) + 1)
  BY <1>1
<1> HIDE DEF s2
<1>3. ids \subseteq Ids(s2) /\ more \subseteq Ids(s2)
  <2>1. Ids(s) \subseteq Ids(s2)
    BY <1>1, <1>2 DEF Ids
  <2>2. e.event_id \in Ids(s2)
    BY <1>1, <1>2 DEF Ids
  <2> QED BY <2>1, <2>2
<1>4. e.event_id \notin ids
  BY <1>2 DEF Ids
<1>5. \A i \in 1..Len(s) : i \in 1..Len(s2) /\ s2[i] = s[i]
  BY <1>1
<1>6. \A i \in 1..Len(s) : s[i] \in Marked(s2, ids) <=> s[i] \in Marked(s, ids)
  BY <1>5 DEF Marked
<1>7. \A i \in 1..Len(s) : s[i] \in Marked(s2, more) <=> s[i] \in Marked(s, ids)
  BY <1>5 DEF Marked
<1>8. Len(s) + 1 \in 1..Len(s2)
  BY <1>1
<1>9. e \in Marked(s2, more) /\ e \notin Marked(s2, ids)
  BY <1>1, <1>4, <1>8 DEF Marked
<1>10. ListsInOrder(t, s2, Marked(s2, ids))
  BY <1>6, <1>9, ListGrows DEF s2
<1>11. ListsInOrder(Append(t, e), s2, Marked(s2, more))
  BY <1>7, <1>9, ListGrows DEF s2
<1> QED BY <1>3, <1>10, <1>11 DEF s2

LEMMA ProcessGood ==
    ASSUME NEW S, NEW b, BridgeGood(b, S), NEW e \in S, NEW now
    PROVE  /\ BridgeGood(process_received_event(b, e, now), S)
           /\ Extends(b.ledger.events, process_received_event(b, e, now).ledger.events)
<1> DEFINE taken == /\ e.event_id \notin b.seen
                    /\ validate_event_chain(b.ledger, e, now)
                    /\ AcceptsExternal(b.ledger, e, now)
           l == b.ledger
           r == process_received_event(b, e, now)
           a == add_event(l, e, now)
<1>0. Good(l) /\ l.events \in Seq(S)
  BY DEF BridgeGood
<1>1. CASE ~taken
  <2>1. r = b
    BY <1>1 DEF process_received_event
  <2> QED BY <1>0, <2>1 DEF Extends
<1>2. CASE taken
  <2>1. /\ verify_event(l, e, now)
        /\ add_external_event(l, e, now) = a
    BY <1>2 DEF verify_event, validate_event_chain, AcceptsExternal, add_external_event
  <2>2. /\ r.ledger = a /\ r.seen = b.seen \cup {e.event_id} /\ r.applied = Append(b.applied, e)
        /\ r = [ledger |-> r.ledger, seen |-> r.seen, applied |-> r.applied]
    BY <1>2, <2>1 DEF process_received_event
  <2>3. Good(a) /\ a.events = Append(l.events, e)
    BY <1>0, <2>1, AddEventCases
  <2>4. \A i \in 1..Len(l.events) : l.events[i].event_id # e.event_id
    BY <1>0, <2>1, NewId
  <2>5. /\ b.applied \in Seq(S)
        /\ b.seen \subseteq Ids(l.events)
        /\ ListsInOrder(b.applied, l.events, Marked(l.events, b.seen))
    BY DEF BridgeGood
  <2> HIDE DEF l, r, a
  <2>6. /\ ListsInOrder(Append(b.applied, e), Append(l.events, e),
                        Marked(Append(l.events, e), b.seen \cup {e.event_id}))
        /\ b.seen \cup {e.event_id} \subseteq Ids(Append(l.events, e))
    BY <1>0, <2>4, <2>5, MarkedGrows
  <2>7. Append(l.events, e) \in Seq(S) /\ Append(b.applied, e) \in Seq(S)
        /\ Extends(l.events, Append(l.events, e))
    BY <1>0, <2>5, AppendFacts DEF Extends
  <2>8. BridgeGood(r, S)
    BY <2>2, <2>3, <2>6, <2>7 DEF BridgeGood
  <2> QED BY <2>2, <2>3, <2>7, <2>8 DEF r, l
<1> QED BY <1>1, <1>2

\* The loop over the events of a message.
LEMMA ProcessAllGood ==
    ASSUME NEW S, NEW b, BridgeGood(b, S), NEW events \in Seq(S), NEW now
    PROVE  /\ BridgeGood(ProcessAll(b, events, now), S)
           /\ Extends(b.ledger.events, ProcessAll(b, events, now).ledger.events)
<1> DEFINE L == Len(events)
           f == CHOOSE g : Runs(g, b, events, now, L)
           Sound(x) == BridgeGood(x, S) /\ Extends(b.ledger.events, x.ledger.events)
           T == {k \in 0..L : ~ Sound(f[k])}
<1>0. L \in Nat /\ \A i \in 1..L : events[i] \in S
  OBVIOUS
<1>1. Runs(f, b, events, now, L)
  BY RunExists
<1>2. ProcessAll(b, events, now) = f[L]
  BY DEF ProcessAll, Runs
<1> HIDE DEF f
<1>3. ASSUME T # {} PROVE FALSE
  <2>0. T \in SUBSET Nat
    BY <1>0
  <2>1. PICK k \in T : \A j \in T : k <= j
    <3> HIDE DEF T
    <3> QED BY <1>3, <2>0, LeastNumber
  <2>2. f[k] = IF k = 0 THEN b ELSE process_received_event(f[k - 1], events[k], now)
    BY <1>1 DEF Runs
  <2>3. CASE k = 0
    <3>1. b.ledger.events \in Seq(S)
      BY DEF BridgeGood
    <3>2. Extends(b.ledger.events, b.ledger.events)
      BY <3>1 DEF Extends
    <3> QED BY <2>2, <2>3, <3>2
  <2>4. CASE k # 0
    <3>1. k \in 1..L /\ k - 1 \in 0..L
      BY <1>0, <2>4
    <3>2. Sound(f[k - 1]) /\ events[k] \in S
      BY <1>0, <2>1, <3>1
    <3>3. /\ BridgeGood(f[k], S)
          /\ Extends(f[k - 1].ledger.events, f[k].ledger.events)
      BY <2>2, <2>4, <3>2, ProcessGood
    <3>4. /\ b.ledger.events \in Seq(S) /\ f[k - 1].ledger.events \in Seq(S)
          /\ f[k].ledger.events \in Seq(S)
      BY <3>2, <3>3 DEF BridgeGood
    <3>5. Extends(b.ledger.events, f[k].ledger.events)
      BY <3>2, <3>3, <3>4, ExtendsTransitive
    <3> QED BY <3>3, <3>5
  <2> QED BY <2>3, <2>4
<1>4. Sound(f[L])
  BY <1>0, <1>3
<1> QED BY <1>2, <1>4

-----------------------------------------------------------------------------
(* LedgerSync: all nodes and the wire *)

\* No checkpoint has events, so none is readable.
MessageGood(m, S) ==
    /\ m.events \in Seq(S)
    /\ m.type = "CHECKPOINT" => m.events = <<>>

WireGood(packets, S) ==
    \A pkt \in packets :
        /\ pkt.from \in Node /\ pkt.to \in Node /\ pkt.from # pkt.to
        /\ MessageGood(pkt.msg, S)

PeersGood(table, S) ==
    \A n \in Node :
        /\ DOMAIN table[n] \subseteq Node \ {n}
        /\ \A p \in DOMAIN table[n] : \E e \in S : e.epoch = table[n][p].epoch

Tables ==
    /\ clock \in [Node -> 0..MaxTime]
    /\ requests \in 0..MaxRequests
    /\ DOMAIN ledger = Node /\ DOMAIN seen_event_ids = Node
    /\ DOMAIN applied = Node /\ DOMAIN peer_sync = Node

\* Packets and peer tables speak of events that some ledger holds, and ledgers
\* only grow.
SyncInv ==
    /\ Tables
    /\ \A n \in Node : BridgeGood(Bridge(n), Held)
    /\ WireGood(wire, Held)
    /\ PeersGood(peer_sync, Held)

LEMMA MessagesGood ==
    ASSUME NEW S
    PROVE  /\ \A l, e : e \in S => MessageGood(EventBroadcast(l, e), S)
           /\ \A l, k : MessageGood(Checkpoint(l, k), S)
           /\ \A l, j, k : MessageGood(SyncRequest(l, j, k), S)
           /\ \A l, j, k : l.events \in Seq(S) => MessageGood(SyncResponse(l, j, k), S)
<1>1. <<>> \in Seq(S) /\ \A e \in S : <<e>> \in Seq(S)
  OBVIOUS
<1>2. ASSUME NEW l, NEW j, NEW k, l.events \in Seq(S)
      PROVE  MessageGood(SyncResponse(l, j, k), S)
  <2>1. EventsBetween(l.events, j, k) \in Seq(S)
    BY <1>2, PickedEvents
  <2> QED BY <2>1 DEF MessageGood, SyncResponse, Message
<1> QED BY <1>1, <1>2 DEF MessageGood, EventBroadcast, Checkpoint, SyncRequest, Message

LEMMA PacketsGood ==
    ASSUME NEW S, NEW n \in Node, NEW m, MessageGood(m, S)
    PROVE  /\ WireGood(ToPeers(n, m), S)
           /\ \A T \in SUBSET (Node \ {n}) : WireGood({Packet(n, p, m) : p \in T}, S)
           /\ \A p \in Node \ {n} : WireGood({Packet(n, p, m)}, S)
<1>1. \A p \in Node \ {n} : LET pkt == Packet(n, p, m) IN
        pkt.from = n /\ pkt.to = p /\ pkt.msg = m
  BY DEF Packet
<1> QED BY <1>1 DEF WireGood, ToPeers

LEMMA Monotone ==
    ASSUME NEW S, NEW More, S \subseteq More
    PROVE  /\ \A b : BridgeGood(b, S) => BridgeGood(b, More)
           /\ \A packets : WireGood(packets, S) => WireGood(packets, More)
           /\ \A table : PeersGood(table, S) => PeersGood(table, More)
<1>1. \A s : s \in Seq(S) => s \in Seq(More)
  OBVIOUS
<1>2. \A b : BridgeGood(b, S) => BridgeGood(b, More)
  BY <1>1 DEF BridgeGood
<1>3. \A packets : WireGood(packets, S) => WireGood(packets, More)
  BY <1>1 DEF WireGood, MessageGood
<1>4. \A table : PeersGood(table, S) => PeersGood(table, More)
  BY DEF PeersGood
<1> QED BY <1>2, <1>3, <1>4

LEMMA SyncInitially == Init => SyncInv
<1> SUFFICES ASSUME Init PROVE SyncInv OBVIOUS
<1>1. Tables
  BY BoundAssumption DEF Init, Tables
<1>2. ASSUME NEW n \in Node PROVE BridgeGood(Bridge(n), Held)
  <2>1. Bridge(n) = [ledger |-> EmptyLedger, seen |-> {}, applied |-> <<>>]
    BY DEF Init, Bridge
  <2>2. EmptyLedger.events = <<>>
    BY DEF EmptyLedger
  <2>3. ListsInOrder(<<>>, <<>>, Marked(<<>>, {}))
    BY DEF ListsInOrder
  <2>4. <<>> \in Seq(Held)
    OBVIOUS
  <2> DEFINE b == Bridge(n)
  <2>5. /\ b = [ledger |-> b.ledger, seen |-> b.seen, applied |-> b.applied]
        /\ b.ledger = EmptyLedger /\ b.seen = {} /\ b.applied = <<>>
    BY <2>1
  <2> HIDE DEF b
  <2>6. BridgeGood(b, Held)
    BY <2>2, <2>3, <2>4, <2>5, EmptyGood DEF BridgeGood
  <2> QED BY <2>6 DEF b
<1>3. WireGood(wire, Held) /\ PeersGood(peer_sync, Held)
  BY DEF Init, WireGood, PeersGood
<1> QED BY <1>1, <1>2, <1>3 DEF SyncInv

\* A step changes one bridge; the events that are new to the ledgers are in
\* that bridge's ledger.
LEMMA BridgeStep ==
    ASSUME SyncInv, Tables', NEW n \in Node, NEW S, Held \subseteq S,
           \A m \in Node \ {n} : Bridge(m)' = Bridge(m),
           BridgeGood(Bridge(n)', S),
           Extends(Events(n), Events(n)'),
           \A e \in S \ Held : \E i \in 1..Len(Events(n)') : Events(n)'[i] = e,
           WireGood(wire', S), PeersGood(peer_sync', S)
    PROVE  SyncInv'
<1>1. \A m \in Node : BridgeGood(Bridge(m), Held) /\ Bridge(m).ledger = ledger[m] /\ Bridge(m)'.ledger = ledger'[m]
  BY DEF SyncInv, Bridge
<1>2. \A m \in Node : Events(m) \in Seq(Held)
  BY <1>1 DEF BridgeGood, Events
<1>3. Events(n)' \in Seq(S)
  BY <1>1 DEF BridgeGood, Events
<1>4. \A m \in Node \ {n} : Events(m)' = Events(m)
  BY <1>1 DEF Events
<1>5. Held \subseteq Held'
  <2> SUFFICES ASSUME NEW m \in Node, NEW i \in 1..Len(Events(m))
               PROVE  \E k \in Node : \E j \in 1..Len(Events(k)') : Events(k)'[j] = Events(m)[i]
    BY DEF Held
  <2>1. CASE m = n
    <3>1. i \in 1..Len(Events(n)') /\ Events(n)'[i] = Events(m)[i]
      BY <1>2, <1>3, <2>1 DEF Extends
    <3> QED BY <3>1
  <2>2. CASE m # n
    BY <1>4, <2>2
  <2> QED BY <2>1, <2>2
<1>6. S \subseteq Held'
  <2>1. \A i \in 1..Len(Events(n)') : Events(n)'[i] \in Held'
    BY DEF Held
  <2> QED BY <1>5, <2>1
<1>7. \A m \in Node \ {n} : BridgeGood(Bridge(m)', Held')
  BY <1>1, <1>5, Monotone
<1>8. BridgeGood(Bridge(n)', Held') /\ WireGood(wire', Held') /\ PeersGood(peer_sync', Held')
  BY <1>6, Monotone
<1>9. \A m \in Node : BridgeGood(Bridge(m)', Held')
  BY <1>7, <1>8
<1> QED BY <1>8, <1>9 DEF SyncInv

\* Steps that only send packets and change the table of peers.
LEMMA QuietStep ==
    ASSUME SyncInv, UNCHANGED <<ledger, seen_event_ids, applied>>, Tables',
           WireGood(wire', Held), PeersGood(peer_sync', Held)
    PROVE  SyncInv'
<1>1. Held' = Held /\ \A n \in Node : Bridge(n)' = Bridge(n)
  BY DEF Held, Bridge, Events
<1>2. \A n \in Node : BridgeGood(Bridge(n)', Held')
  BY <1>1 DEF SyncInv
<1> QED BY <1>1, <1>2 DEF SyncInv

\* What a step may do to the ledgers: n writes an event, or goes on with events
\* that others hold.
OnlyOf(n) == \A k \in Node \ {n} : Events(k)' = Events(k)

Writes(n, e) ==
    /\ Events(n)' = Append(Events(n), e) /\ OnlyOf(n)
    /\ e.previous_hash = IF Events(n) = <<>> THEN ZeroHash ELSE compute_hash(Tip(ledger[n]))

GoesOn(n) == Events(n)' \in Seq(Held) /\ Extends(Events(n), Events(n)') /\ OnlyOf(n)

LEMMA RecordStep ==
    ASSUME SyncInv, NEW n \in Node, NEW p \in Payload, Record(n, p)
    PROVE  SyncInv' /\ \E e : Writes(n, e)
<1> DEFINE l == [ledger[n] EXCEPT !.event_counter = @ + 1]
           e == create_event(ledger[n], n, clock[n], clock[n], p)
           S == Held \cup {e}
           a == add_event(l, e, clock[n])
<1>1. /\ verify_event(l, e, clock[n])
      /\ ledger' = [ledger EXCEPT ![n] = Appended(l, e)]
      /\ wire' = wire \cup ToPeers(n, EventBroadcast(ledger'[n], e))
      /\ UNCHANGED <<clock, seen_event_ids, peer_sync, applied, requests>>
  BY DEF Record
<1>2. Tables'
  BY <1>1 DEF SyncInv, Tables
<1>3. BridgeGood(Bridge(n), Held) /\ Bridge(n).ledger = ledger[n]
      /\ Bridge(n).seen = seen_event_ids[n] /\ Bridge(n).applied = applied[n]
  BY DEF SyncInv, Bridge
<1>4. Good(ledger[n]) /\ ledger[n].events \in Seq(Held) /\ applied[n] \in Seq(Held)
      /\ seen_event_ids[n] \subseteq Ids(ledger[n].events)
      /\ ListsInOrder(applied[n], ledger[n].events, Marked(ledger[n].events, seen_event_ids[n]))
  BY <1>3 DEF BridgeGood
<1>5. Good(l) /\ l.events = ledger[n].events
  BY <1>4, BumpedGood
<1>6. ledger[n].events \in Seq(S) /\ applied[n] \in Seq(S) /\ e \in S
  BY <1>4
<1>7. ledger'[n] = a
  BY <1>1 DEF SyncInv, Tables, add_event
<1> HIDE DEF l, e, S
<1>8. /\ Good(a) /\ a.events = Append(ledger[n].events, e)
      /\ e.previous_hash = IF ledger[n].events = <<>> THEN ZeroHash ELSE compute_hash(Tip(ledger[n]))
  <2>1. Good(l) /\ l.events \in Seq(S) /\ e \in S
    BY <1>5, <1>6
  <2>2. /\ Good(a) /\ a.events = Append(l.events, e)
        /\ e.previous_hash = IF l.events = <<>> THEN ZeroHash ELSE compute_hash(Tip(l))
    BY <1>1, <2>1, AddEventCases
  <2>3. Tip(l) = Tip(ledger[n])
    BY <1>5 DEF Tip
  <2> QED BY <1>5, <2>2, <2>3
<1>9. \A i \in 1..Len(ledger[n].events) : ledger[n].events[i].event_id # e.event_id
  BY <1>1, <1>5, NewId
<1>10. LET s2 == Append(ledger[n].events, e)
       IN  /\ ListsInOrder(applied[n], s2, Marked(s2, seen_event_ids[n]))
           /\ seen_event_ids[n] \subseteq Ids(s2)
  BY <1>4, <1>6, <1>9, MarkedGrows
<1> HIDE DEF a
<1> DEFINE b == Bridge(n)'
<1>11. /\ b = [ledger |-> b.ledger, seen |-> b.seen, applied |-> b.applied]
       /\ b.ledger = a /\ b.seen = seen_event_ids[n] /\ b.applied = applied[n]
  BY <1>1, <1>7 DEF Bridge
<1> HIDE DEF b
<1>12. a.events \in Seq(S) /\ Extends(ledger[n].events, a.events)
       /\ a.events[Len(a.events)] = e /\ Len(a.events) \in 1..Len(a.events)
  BY <1>6, <1>8, AppendFacts DEF Extends
<1>13. BridgeGood(b, S)
  BY <1>6, <1>8, <1>10, <1>11, <1>12 DEF BridgeGood
<1>14. Extends(Events(n), Events(n)')
  BY <1>7, <1>12 DEF Events
<1>15. \A x \in S \ Held : \E i \in 1..Len(Events(n)') : Events(n)'[i] = x
  BY <1>7, <1>12 DEF Events, S
<1>16. \A m \in Node \ {n} : Bridge(m)' = Bridge(m)
  BY <1>1 DEF Bridge, SyncInv, Tables
<1>17. Held \subseteq S
  BY DEF S
<1>18. WireGood(wire', S)
  <2>1. WireGood(wire, S)
    BY <1>17, Monotone DEF SyncInv
  <2>3. WireGood(ToPeers(n, EventBroadcast(ledger'[n], e)), S)
    BY <1>6, MessagesGood, PacketsGood
  <2> QED BY <1>1, <2>1, <2>3 DEF WireGood
<1>19. PeersGood(peer_sync', S)
  BY <1>1, <1>17, Monotone DEF SyncInv
<1>20. Writes(n, e)
  <2>1. OnlyOf(n)
    BY <1>1 DEF OnlyOf, Events, SyncInv, Tables
  <2> QED BY <1>7, <1>8, <2>1 DEF Writes, Events
<1>21. SyncInv'
  BY <1>2, <1>13, <1>14, <1>15, <1>16, <1>17, <1>18, <1>19, BridgeStep DEF b
<1> QED BY <1>20, <1>21

LEMMA ReceiveStep ==
    ASSUME SyncInv, NEW pkt \in wire, receive_message(pkt)
    PROVE  SyncInv' /\ \E n \in Node : GoesOn(n)
<1> DEFINE n == pkt.to
           m == pkt.msg
           b == IF m.type \in {"EVENT_BROADCAST", "SYNC_RESPONSE"}
                THEN ProcessAll(Bridge(n), m.events, clock[n]) ELSE Bridge(n)
<1>1. /\ n \in Node /\ pkt.from \in Node /\ pkt.from # n
      /\ m.events \in Seq(Held)
      /\ m.type = "CHECKPOINT" => m.events = <<>>
      /\ MessageGood(m, Held) /\ WireGood(wire, Held)
  BY DEF SyncInv, WireGood, MessageGood
<1>2. WireGood(ToPeers(n, m), Held)
  BY <1>1, PacketsGood
<1>3. CASE ~Readable(m)
  <2>1. /\ wire' = wire \cup ToPeers(n, m)
        /\ UNCHANGED <<ledger, seen_event_ids, applied, peer_sync, clock, requests>>
    BY <1>3 DEF receive_message
  <2>2. WireGood(wire', Held) /\ PeersGood(peer_sync', Held) /\ Tables'
    BY <1>1, <1>2, <2>1 DEF WireGood, SyncInv, Tables
  <2>3. Events(n) \in Seq(Held)
    BY <1>1 DEF SyncInv, BridgeGood, Bridge, Events
  <2>4. GoesOn(n)
    BY <2>1, <2>3 DEF GoesOn, OnlyOf, Extends, Events
  <2> QED BY <1>1, <2>1, <2>2, <2>4, QuietStep
<1>4. CASE Readable(m)
  <2>1. /\ ledger' = [ledger EXCEPT ![n] = b.ledger]
        /\ seen_event_ids' = [seen_event_ids EXCEPT ![n] = b.seen]
        /\ applied' = [applied EXCEPT ![n] = b.applied]
        /\ peer_sync' = [peer_sync EXCEPT ![n] = PeersAfter(n, pkt.from, m)]
        /\ wire' = wire \cup Answers(n, pkt.from, m) \cup ToPeers(n, m)
        /\ UNCHANGED <<clock, requests>>
    BY <1>4 DEF receive_message
  <2>2. Tables'
    BY <2>1 DEF SyncInv, Tables
  <2>3. BridgeGood(Bridge(n), Held) /\ Bridge(n).ledger.events = Events(n)
    BY <1>1 DEF SyncInv, Bridge, Events
  <2>4. Events(n) \in Seq(Held)
    BY <2>3 DEF BridgeGood
  <2>5. BridgeGood(b, Held) /\ Extends(Events(n), b.ledger.events)
    <3>1. CASE m.type \in {"EVENT_BROADCAST", "SYNC_RESPONSE"}
      BY <1>1, <2>3, <3>1, ProcessAllGood
    <3>2. CASE m.type \notin {"EVENT_BROADCAST", "SYNC_RESPONSE"}
      <4>1. Extends(Events(n), Events(n))
        BY <2>4 DEF Extends
      <4> QED BY <2>3, <3>2, <4>1
    <3> QED BY <3>1, <3>2
  <2> HIDE DEF b
  <2>6. Bridge(n)' = b
    BY <1>1, <2>1, <2>5 DEF Bridge, BridgeGood, SyncInv, Tables
  <2>7. \A k \in Node \ {n} : Bridge(k)' = Bridge(k)
    BY <2>1 DEF Bridge, SyncInv, Tables
  <2>8. Extends(Events(n), Events(n)')
    BY <1>1, <2>1, <2>5 DEF Events, SyncInv, Tables
  <2>9. WireGood(wire', Held)
    <3>1. MessageGood(SyncResponse(ledger[n], m.start, m.end), Held)
      BY <2>4, MessagesGood DEF Events
    <3>3. WireGood({Packet(n, pkt.from, SyncResponse(ledger[n], m.start, m.end))}, Held)
      BY <1>1, <3>1, PacketsGood
    <3>2. WireGood(Answers(n, pkt.from, m), Held)
      BY <3>3 DEF WireGood, Answers
    <3> QED BY <1>1, <1>2, <2>1, <3>2 DEF WireGood
  <2>10. PeersGood(peer_sync', Held)
    <3> DEFINE table == PeersAfter(n, pkt.from, m)
    <3>1. /\ DOMAIN table \subseteq Node \ {n}
          /\ \A p \in DOMAIN table : \E e \in Held : e.epoch = table[p].epoch
      <4>0. /\ DOMAIN peer_sync[n] \subseteq Node \ {n}
            /\ \A p \in DOMAIN peer_sync[n] : \E e \in Held : e.epoch = peer_sync[n][p].epoch
        BY <1>1 DEF SyncInv, PeersGood
      <4>1. m.type # "CHECKPOINT" /\ m.events # <<>>
        BY <1>1, <1>4 DEF Readable
      <4>2. CASE m.type = "SYNC_RESPONSE"
        <5> DEFINE last_event == m.events[Len(m.events)]
        <5>1. last_event \in Held
          BY <1>1, <4>1
        <5>2. table = update_peer_sync_state(peer_sync[n], pkt.from, last_event.epoch,
                                             last_event.event_id, clock[n])
          BY <4>1, <4>2 DEF PeersAfter
        <5> HIDE DEF last_event, table
        <5> QED BY <1>1, <4>0, <5>1, <5>2 DEF update_peer_sync_state
      <4>3. CASE m.type # "SYNC_RESPONSE"
        <5>1. table = peer_sync[n]
          BY <4>1, <4>3 DEF PeersAfter
        <5> QED BY <4>0, <5>1
      <4> QED BY <4>2, <4>3
    <3>2. peer_sync'[n] = table /\ \A k \in Node \ {n} : peer_sync'[k] = peer_sync[k]
      BY <1>1, <2>1 DEF SyncInv, Tables
    <3> HIDE DEF table
    <3> QED BY <3>1, <3>2 DEF SyncInv, PeersGood
  <2>11. BridgeGood(Bridge(n)', Held)
    BY <2>5, <2>6
  <2>12. GoesOn(n)
    <3>1. OnlyOf(n)
      BY <2>1 DEF OnlyOf, Events, SyncInv, Tables
    <3>2. Events(n)' \in Seq(Held)
      BY <1>1, <2>1, <2>5 DEF BridgeGood, Events, SyncInv, Tables
    <3> QED BY <2>8, <3>1, <3>2 DEF GoesOn
  <2> HIDE DEF n
  <2>13. SyncInv'
    BY <1>1, <2>2, <2>7, <2>8, <2>9, <2>10, <2>11, BridgeStep
  <2> QED BY <1>1, <2>12, <2>13
<1> QED BY <1>3, <1>4

\* The other steps only send packets; those of the scheduler also forget
\* peers.
LEMMA SchedulerStep ==
    ASSUME SyncInv, NEW n \in Node, NEW sync_due \in BOOLEAN, NEW validation_due \in BOOLEAN,
           tick(n, sync_due, validation_due)
    PROVE  SyncInv'
<1> DEFINE m == Checkpoint(ledger[n], current_epoch(clock[n]))
<1>1. PICK out \in IF sync_due THEN sync_with_network(n) ELSE {{}} :
        wire' = wire \cup out
                \cup (IF checkpoint_due(n) THEN ToPeers(n, m) ELSE {})
                \cup (IF validation_due THEN validate_consistency(n) ELSE {})
  BY DEF tick
<1>2. /\ UNCHANGED <<ledger, clock, seen_event_ids, applied, requests>>
      /\ peer_sync' = [peer_sync EXCEPT ![n] = IF validation_due THEN cleanup_sync_state(n) ELSE @]
  BY DEF tick
<1>3. Tables'
  BY <1>2 DEF SyncInv, Tables
<1>4. /\ DOMAIN peer_sync[n] \subseteq Node \ {n} /\ <<>> \in Seq(Held)
      /\ WireGood(wire, Held)
  BY DEF SyncInv, PeersGood
<1>5. WireGood(out, Held)
  <2>1. SyncTargets(n) \subseteq Node \ {n}
    BY <1>4 DEF SyncTargets
  <2>2. CASE sync_due
    <3>1. PICK m2 : MessageGood(m2, Held) /\
            sync_with_network(n) = IF SyncTargets(n) = {} THEN {{}}
                                   ELSE {{Packet(n, p, m2)} : p \in SyncTargets(n)}
      BY MessagesGood DEF sync_with_network
    <3>2. \A p \in SyncTargets(n) : WireGood({Packet(n, p, m2)}, Held)
      BY <2>1, <3>1, PacketsGood
    <3>3. WireGood({}, Held)
      BY DEF WireGood
    <3>4. out \in sync_with_network(n)
      BY <1>1, <2>2
    <3>5. CASE SyncTargets(n) = {}
      <4>1. out = {}
        BY <3>1, <3>4, <3>5
      <4> QED BY <3>3, <4>1
    <3>6. CASE SyncTargets(n) # {}
      <4>1. PICK p \in SyncTargets(n) : out = {Packet(n, p, m2)}
        <5>1. sync_with_network(n) = {{Packet(n, p, m2)} : p \in SyncTargets(n)}
          BY <3>1, <3>6
        <5> QED BY <3>4, <5>1
      <4> QED BY <3>2, <4>1
    <3> QED BY <3>5, <3>6
  <2>3. CASE ~sync_due
    BY <1>1, <2>3 DEF WireGood
  <2> QED BY <2>2, <2>3
<1>6. WireGood(ToPeers(n, m), Held)
  BY MessagesGood, PacketsGood
<1>7. WireGood(validate_consistency(n), Held)
  <2> DEFINE epoch == current_epoch(clock[n])
             T == {q \in DOMAIN peer_sync[n] : /\ epoch > 0
                                               /\ peer_sync[n][q].epoch = epoch
                                               /\ peer_sync[n][q].hash # ledger[n].latest_hash}
  <2>1. validate_consistency(n) = {Packet(n, p, SyncRequest(ledger[n], epoch, epoch)) : p \in T}
    BY DEF validate_consistency
  <2>2. T \in SUBSET (Node \ {n})
    BY <1>4
  <2>3. MessageGood(SyncRequest(ledger[n], epoch, epoch), Held)
    BY MessagesGood
  <2> HIDE DEF T
  <2> QED BY <2>1, <2>2, <2>3, PacketsGood
<1>8. WireGood(wire', Held)
  BY <1>1, <1>4, <1>5, <1>6, <1>7 DEF WireGood
<1>9. PeersGood(peer_sync', Held)
  <2>1. \A k \in Node \ {n} : peer_sync'[k] = peer_sync[k]
    BY <1>2 DEF SyncInv, Tables
  <2>2. /\ DOMAIN peer_sync'[n] \subseteq DOMAIN peer_sync[n]
        /\ \A p \in DOMAIN peer_sync'[n] : peer_sync'[n][p] = peer_sync[n][p]
    BY <1>2 DEF SyncInv, Tables, cleanup_sync_state
  <2> QED BY <2>1, <2>2 DEF SyncInv, PeersGood
<1> QED BY <1>2, <1>3, <1>8, <1>9, QuietStep

LEMMA SyncStep == SyncInv /\ [Next]_vars => SyncInv'
<1> SUFFICES ASSUME SyncInv, [Next]_vars PROVE SyncInv' OBVIOUS
<1>0. WireGood(wire, Held) /\ PeersGood(peer_sync, Held) /\ <<>> \in Seq(Held) /\ Tables
  BY DEF SyncInv
<1>1. ASSUME NEW n \in Writers, NEW p \in Payload, Record(n, p) PROVE SyncInv'
  BY <1>1, SyncAssumption, RecordStep
<1>2. ASSUME NEW pkt \in wire, receive_message(pkt) PROVE SyncInv'
  BY <1>2, ReceiveStep
<1>3. ASSUME NEW n \in Node, NEW p \in Node \ {n}, RequestSync(n, p) PROVE SyncInv'
  <2>1. Tables' /\ PeersGood(peer_sync', Held) /\ UNCHANGED <<ledger, seen_event_ids, applied>>
    BY <1>0, <1>3, BoundAssumption DEF RequestSync, Tables
  <2>2. WireGood(wire', Held)
    <3>1. WireGood({Packet(n, p, SyncRequest(ledger[n], 0, current_epoch(clock[n])))}, Held)
      BY MessagesGood, PacketsGood
    <3> QED BY <1>0, <1>3, <3>1 DEF RequestSync, WireGood
  <2> QED BY <2>1, <2>2, QuietStep
<1>4. ASSUME NEW n \in Node, NEW p \in Node \ {n}, NEW start, HandleSyncRequest(n, p, start)
      PROVE  SyncInv'
  <2>1. Tables' /\ PeersGood(peer_sync', Held) /\ UNCHANGED <<ledger, seen_event_ids, applied>>
    BY <1>0, <1>4, BoundAssumption DEF HandleSyncRequest, Tables
  <2>2. Events(n) \in Seq(Held)
    BY DEF SyncInv, BridgeGood, Bridge, Events
  <2> DEFINE m == SyncResponse(ledger[n], start, current_epoch(clock[n]))
  <2>3. WireGood({Packet(n, p, m)}, Held)
    <3>1. MessageGood(m, Held)
      BY <2>2, MessagesGood DEF Events
    <3> HIDE DEF m
    <3> QED BY <3>1, PacketsGood
  <2>4. WireGood(wire', Held)
    BY <1>0, <1>4, <2>3 DEF HandleSyncRequest, WireGood
  <2> QED BY <2>1, <2>4, QuietStep
<1>5. ASSUME NEW n \in Node, NEW sync_due \in BOOLEAN, NEW validation_due \in BOOLEAN,
             tick(n, sync_due, validation_due)
      PROVE  SyncInv'
  BY <1>5, SchedulerStep
<1>6. ASSUME NEW n \in Node, Tick(n) PROVE SyncInv'
  <2>1. /\ Tables' /\ WireGood(wire', Held) /\ PeersGood(peer_sync', Held)
        /\ UNCHANGED <<ledger, seen_event_ids, applied>>
    BY <1>0, <1>6, BoundAssumption DEF Tick, Tables
  <2> QED BY <2>1, QuietStep
<1>7. ASSUME UNCHANGED vars PROVE SyncInv'
  <2>1. /\ Tables' /\ WireGood(wire', Held) /\ PeersGood(peer_sync', Held)
        /\ UNCHANGED <<ledger, seen_event_ids, applied>>
    BY <1>0, <1>7 DEF vars, Tables
  <2> QED BY <2>1, QuietStep
<1> QED BY <1>1, <1>2, <1>3, <1>4, <1>5, <1>6, <1>7 DEF Next, Deliver

LEMMA SyncInvSound == SyncInv => SyncSound
<1> SUFFICES ASSUME SyncInv PROVE SyncSound OBVIOUS
<1>1. TypeOK
  BY DEF SyncInv, Tables, WireGood, PeersGood, TypeOK
<1>2. \A n \in Node : /\ Good(ledger[n]) /\ Events(n) \in Seq(Held)
                      /\ seen_event_ids[n] \subseteq Ids(Events(n))
                      /\ ListsInOrder(applied[n], Events(n), Marked(Events(n), seen_event_ids[n]))
  BY DEF SyncInv, BridgeGood, Bridge, Events
<1>3. AppliedExactlyOnce
  BY <1>2 DEF AppliedExactlyOnce, Marked
<1>4. \A n \in Node : LinkedSeq(Events(n))
  BY <1>2 DEF Good, Linked, LinkedSeq, Events
<1>5. \A n \in Node : DOMAIN Events(n) = 1..Len(Events(n)) /\ Len(Events(n)) \in Nat
  BY <1>2
<1>6. SyncedPrefix
  <2>1. \A m, n \in Node : Agree(Events(m), Events(n))
    BY <1>2, <1>4, LinkedAgree
  <2>2. \A n \in Node : validate_chain(ledger[n])
    BY <1>4, <1>5 DEF validate_chain, LinkedSeq, Events
  <2> QED BY <1>5, <2>1, <2>2 DEF SyncedPrefix, Agree
<1>7. PeerEpochReal
  BY <1>5 DEF SyncInv, PeersGood, PeerEpochReal, Held
<1> QED BY <1>1, <1>3, <1>6, <1>7 DEF SyncSound

LEMMA SyncInvariance == SyncSpec => []SyncInv
<1>1. SyncInit => SyncInv
  BY SyncInitially DEF SyncInit
<1>2. SyncInv /\ [SyncNext]_all_vars => SyncInv'
  <2> SUFFICES ASSUME SyncInv, [SyncNext]_all_vars PROVE SyncInv' OBVIOUS
  <2>1. [Next]_vars
    BY DEF SyncNext, all_vars
  <2> QED BY <2>1, SyncStep
<1> QED BY <1>1, <1>2, PTL DEF SyncSpec

\* What the bridge keeps beside the ledger agrees with it (AppliedExactlyOnce,
\* SyncedPrefix, PeerEpochReal of LedgerSync): for any number of nodes and
\* writers, and any loss, delay, reordering and repetition of packets.
THEOREM SyncSoundHolds == SyncSpec => []SyncSound
BY SyncInvariance, SyncInvSound, PTL

\* An event of a ledger has its place in the tree right after the one before it.
LEMMA PlacesInLedger ==
    ASSUME NEW s, LinkedSeq(s)
    PROVE  \A i \in 1..Len(s) : Predecessor(s[i]) = IF i = 1 THEN {} ELSE {s[i - 1]}
<1> SUFFICES ASSUME NEW i \in 1..Len(s)
             PROVE  Predecessor(s[i]) = IF i = 1 THEN {} ELSE {s[i - 1]}
  OBVIOUS
<1>1. s[i].previous_hash = IF i = 1 THEN ZeroHash ELSE compute_hash(s[i - 1])
  BY DEF LinkedSeq
<1>2. compute_hash(s[i - 1]) # ZeroHash /\ compute_hash(s[i - 1])[2] = s[i - 1]
  BY HashFacts DEF compute_hash, Blake3
<1> QED BY <1>1, <1>2 DEF Predecessor

\* A step of the ledgers is a step of the replicated log: a record call writes,
\* a message makes its receiver follow.
LEMMA SyncRefines ==
    ASSUME SyncInv, SyncInv', [Next]_vars
    PROVE  [Log!Growth]_(Log!logVars)
<1> DEFINE place == [e \in Held |-> Predecessor(e)]
           path == [k \in Node |-> Events(k)]
<1>0. \A n \in Node : /\ Events(n) \in Seq(Held) /\ LinkedSeq(Events(n)')
                      /\ path[n] = Events(n) /\ path'[n] = Events(n)'
  <2>1. \A n \in Node : BridgeGood(Bridge(n), Held) /\ Bridge(n).ledger = ledger[n]
    BY DEF SyncInv, Bridge
  <2>2. \A n \in Node : BridgeGood(Bridge(n)', Held') /\ Bridge(n)'.ledger = ledger'[n]
    BY DEF SyncInv, Bridge
  <2>3. \A n \in Node : Events(n) \in Seq(Held)
    BY <2>1 DEF BridgeGood, Events
  <2>4. \A n \in Node : LinkedSeq(Events(n)')
    BY <2>2 DEF BridgeGood, Good, Linked, LinkedSeq, Events
  <2> QED BY <2>3, <2>4
<1>1. CASE UNCHANGED ledger
  <2>1. path' = path /\ place' = place
    BY <1>1 DEF Events, Held
  <2> QED BY <2>1 DEF Log!logVars
<1>2. ASSUME NEW n \in Node, NEW e, Writes(n, e) PROVE Log!Growth
  <2>1. Held' = Held \cup {e}
    <3>1. /\ Len(Events(n)) \in Nat /\ Len(Events(n)') = Len(Events(n)) + 1
          /\ Events(n)'[Len(Events(n)) + 1] = e /\ \A i \in 1..Len(Events(n)) : Events(n)'[i] = Events(n)[i]
      BY <1>0, <1>2 DEF Writes
    <3>2. {Events(n)'[i] : i \in 1..Len(Events(n)')} = {Events(n)[i] : i \in 1..Len(Events(n))} \cup {e}
      BY <3>1
    <3>3. \A k \in Node \ {n} : Events(k)' = Events(k)
      BY <1>2 DEF Writes, OnlyOf
    <3>4. ASSUME NEW x PROVE x \in Held' <=> x \in Held \cup {e}
      <4>1. x \in Held <=> \E k \in Node : x \in {Events(k)[i] : i \in 1..Len(Events(k))}
        BY DEF Held
      <4>2. x \in Held' <=> \E k \in Node : x \in {Events(k)'[i] : i \in 1..Len(Events(k)')}
        BY DEF Held
      <4>3. \A k \in Node \ {n} : {Events(k)'[i] : i \in 1..Len(Events(k)')} = {Events(k)[i] : i \in 1..Len(Events(k))}
        BY <3>3
      <4> QED BY <3>2, <4>1, <4>2, <4>3
    <3> QED BY <3>4
  <2>2. Predecessor(e) = Log!End(path[n])
    <3>1. CASE Events(n) = <<>>
      BY <1>0, <1>2, <3>1 DEF Writes, Predecessor, Log!End
    <3>2. CASE Events(n) # <<>>
      <4>1. compute_hash(Tip(ledger[n])) # ZeroHash /\ compute_hash(Tip(ledger[n]))[2] = Tip(ledger[n])
        BY HashFacts DEF compute_hash, Blake3
      <4>2. Predecessor(e) = {Tip(ledger[n])}
        BY <1>2, <3>2, <4>1 DEF Writes, Predecessor
      <4> QED BY <1>0, <3>2, <4>2 DEF Log!End, Tip, Events
    <3> QED BY <3>1, <3>2
  <2>3. e \in DOMAIN place => place[e] = Log!End(path[n])
    BY <2>2
  <2>4. [x \in Held' |-> Predecessor(x)] = [x \in DOMAIN place \cup {e} |-> IF x = e THEN Log!End(path[n]) ELSE place[x]]
    BY <2>1, <2>2
  <2>5. [k \in Node |-> Events(k)'] = [path EXCEPT ![n] = Append(@, e)]
    BY <1>2 DEF Writes, OnlyOf
  <2>6. Log!Write(n, e)
    BY <2>3, <2>4, <2>5 DEF Log!Write
  <2>7. e \in Held'
    BY <2>1
  <2> QED BY <2>6, <2>7 DEF Log!Growth
<1>3. ASSUME NEW n \in Node, GoesOn(n) PROVE Log!Growth
  <2>1. \A k \in Node \ {n} : Events(k)' = Events(k)
    BY <1>3 DEF GoesOn, OnlyOf
  <2>2. /\ Events(n)' \in Seq(Held) /\ Len(Events(n)) <= Len(Events(n)')
        /\ \A i \in 1..Len(Events(n)) : Events(n)'[i] = Events(n)[i]
    BY <1>3 DEF GoesOn, Extends
  <2>3. \A i \in 1..Len(Events(n)) : i \in 1..Len(Events(n)')
    BY <1>0, <2>2
  <2>4. Held' = Held
    <3>1. \A k \in Node : \A i \in 1..Len(Events(k)') : Events(k)'[i] \in Held
      BY <1>0, <2>1, <2>2
    <3>2. \A k \in Node : \A i \in 1..Len(Events(k)) : i \in 1..Len(Events(k)') /\ Events(k)[i] = Events(k)'[i]
      BY <2>1, <2>2, <2>3
    <3>3. Held' \subseteq Held
      <4> SUFFICES ASSUME NEW x \in Held' PROVE x \in Held
        OBVIOUS
      <4>1. PICK k \in Node : \E i \in 1..Len(Events(k)') : x = Events(k)'[i]
        BY DEF Held
      <4> QED BY <3>1, <4>1
    <3>4. Held \subseteq Held'
      <4> SUFFICES ASSUME NEW x \in Held PROVE x \in Held'
        OBVIOUS
      <4>1. PICK k \in Node : \E i \in 1..Len(Events(k)) : x = Events(k)[i]
        BY DEF Held
      <4>2. \E i \in 1..Len(Events(k)') : x = Events(k)'[i]
        BY <3>2, <4>1
      <4> QED BY <4>2 DEF Held
    <3> QED BY <3>3, <3>4
  <2>5. \A i \in 1..Len(Events(n)') : /\ Events(n)'[i] \in DOMAIN place
                                      /\ place[Events(n)'[i]] = IF i = 1 THEN {} ELSE {Events(n)'[i - 1]}
    <3>1. PICK s : s = Events(n)'
      OBVIOUS
    <3>2. LinkedSeq(s) /\ s \in Seq(Held)
      BY <1>0, <2>2, <3>1
    <3>3. \A i \in 1..Len(s) : s[i] \in Held /\ Predecessor(s[i]) = IF i = 1 THEN {} ELSE {s[i - 1]}
      <4>1. \A i \in 1..Len(s) : Predecessor(s[i]) = IF i = 1 THEN {} ELSE {s[i - 1]}
        BY <3>2, PlacesInLedger, Zenon
      <4>2. \A i \in 1..Len(s) : s[i] \in Held
        BY <3>2
      <4> QED BY <4>1, <4>2
    <3>4. \A x \in Held : x \in DOMAIN place /\ place[x] = Predecessor(x)
      OBVIOUS
    <3> HIDE DEF place
    <3>5. \A i \in 1..Len(s) : s[i] \in DOMAIN place /\ place[s[i]] = IF i = 1 THEN {} ELSE {s[i - 1]}
      BY <3>3, <3>4
    <3> QED BY <3>1, <3>5
  <2>6. [x \in Held' |-> Predecessor(x)] = place
    BY <2>4
  <2>7. [k \in Node |-> Events(k)'] = [path EXCEPT ![n] = Events(n)']
    BY <2>1
  <2>8. [k \in Node |-> Events(k)'][n] = Events(n)'
    OBVIOUS
  <2>9. Log!IsPath(Events(n)')
    BY <2>5 DEF Log!IsPath
  <2>10. Log!Follow(n, Events(n)')
    BY <1>0, <2>2, <2>6, <2>7, <2>9 DEF Log!Follow
  <2> QED BY <2>8, <2>10 DEF Log!Growth
<1>4. ASSUME NEW n \in Writers, NEW p \in Payload, Record(n, p) PROVE Log!Growth
  BY <1>2, <1>4, SyncAssumption, RecordStep
<1>5. ASSUME NEW pkt \in wire, receive_message(pkt) PROVE Log!Growth
  BY <1>3, <1>5, ReceiveStep
<1>6. \/ \E n \in Writers, p \in Payload : Record(n, p)
      \/ \E pkt \in wire : receive_message(pkt)
      \/ UNCHANGED ledger
  BY DEF Next, Deliver, RequestSync, HandleSyncRequest, tick, Tick, vars
<1> QED BY <1>1, <1>4, <1>5, <1>6

\* Ledgers fed by gossip implement the replicated log, for any nodes, writers,
\* payloads and clocks and any loss, delay, reordering and repetition of
\* packets: one tree of events, and every ledger a path of it that only grows.
THEOREM BridgedLogsHold == SyncSpec => BridgedLogs
<1>1. SyncInit => Log!Init
  BY DEF SyncInit, Init, Log!Init, Events, EmptyLedger, Held
<1>2. SyncInv /\ SyncInv' /\ [SyncNext]_all_vars => [Log!Growth]_(Log!logVars)
  <2> SUFFICES ASSUME SyncInv, SyncInv', [SyncNext]_all_vars PROVE [Log!Growth]_(Log!logVars)
    OBVIOUS
  <2>1. [Next]_vars
    BY DEF SyncNext, all_vars
  <2> QED BY <2>1, SyncRefines
<1> QED BY <1>1, <1>2, SyncInvariance, PTL DEF SyncSpec, Log!GrowingSpec, BridgedLogs

-----------------------------------------------------------------------------
(* Reconciliation: what a merge makes of two ledgers *)

Ledgers == Seq(R!Kind)

\* remote agrees with local on its first k events.
Shared(local, remote, k) == k <= Len(local) /\ \A i \in 1..k : remote[i] = local[i]

\* An event of the peer is known exactly where the ledgers agree up to it.
LEMMA KnownEvents ==
    ASSUME NEW local \in Ledgers, NEW remote \in Ledgers, NEW k \in 1..Len(remote)
    PROVE  SubSeq(remote, 1, k) \in R!Events(local) <=> Shared(local, remote, k)
<1> DEFINE S == R!Kind
           u == SubSeq(remote, 1, k)
<1>0. local \in Seq(S) /\ remote \in Seq(S) /\ Len(local) \in Nat /\ Len(remote) \in Nat
  BY DEF Ledgers
<1> HIDE DEF S
<1>1. u \in Seq(S) /\ Len(u) = k /\ \A i \in 1..k : u[i] = remote[i]
  BY <1>0
<1>2. \A j \in 1..Len(local) : /\ SubSeq(local, 1, j) \in Seq(S) /\ Len(SubSeq(local, 1, j)) = j
                               /\ \A i \in 1..j : SubSeq(local, 1, j)[i] = local[i]
  BY <1>0
<1>3. ASSUME u \in R!Events(local) PROVE Shared(local, remote, k)
  <2>1. PICK j \in 1..Len(local) : u = SubSeq(local, 1, j)
    BY <1>3 DEF R!Events
  <2>2. j = k
    BY <1>1, <1>2, <2>1
  <2> QED BY <1>0, <1>1, <1>2, <2>1, <2>2 DEF Shared
<1>4. ASSUME Shared(local, remote, k) PROVE u \in R!Events(local)
  <2>1. k \in 1..Len(local)
    BY <1>0, <1>4 DEF Shared
  <2>2. u = SubSeq(local, 1, k)
    <3>1. PICK v : v = SubSeq(local, 1, k)
      OBVIOUS
    <3>2. v \in Seq(S) /\ Len(v) = k /\ \A i \in 1..k : v[i] = u[i]
      BY <1>1, <1>2, <1>4, <2>1, <3>1 DEF Shared
    <3> HIDE DEF u
    <3> QED BY <1>1, <3>1, <3>2
  <2> QED BY <2>1, <2>2 DEF R!Events
<1> QED BY <1>3, <1>4

\* Two ledgers agree up to some length and nowhere beyond.
LEMMA ForkPoint ==
    ASSUME NEW local \in Ledgers, NEW remote \in Ledgers
    PROVE  \E c \in 0..Len(remote) : \A k \in 1..Len(remote) : Shared(local, remote, k) <=> k <= c
<1> DEFINE T == {k \in 1..Len(remote) : ~Shared(local, remote, k)}
<1>0. Len(remote) \in Nat /\ Len(local) \in Nat
  BY DEF Ledgers
<1>1. CASE T = {}
  <2>1. \A k \in 1..Len(remote) : Shared(local, remote, k) <=> k <= Len(remote)
    BY <1>0, <1>1
  <2> QED BY <1>0, <2>1
<1>2. CASE T # {}
  <2>1. T \in SUBSET Nat
    BY <1>0
  <2>2. PICK m \in T : \A j \in T : m <= j
    <3> HIDE DEF T
    <3> QED BY <1>2, <2>1, LeastNumber
  <2>3. m \in 1..Len(remote) /\ m - 1 \in 0..Len(remote) /\ ~Shared(local, remote, m)
    BY <1>0
  <2>4. ASSUME NEW k \in 1..Len(remote) PROVE Shared(local, remote, k) <=> k <= m - 1
    <3>1. CASE k <= m - 1
      BY <1>0, <2>2, <2>3, <3>1
    <3>2. CASE ~(k <= m - 1)
      <4>1. m <= k
        BY <1>0, <2>3, <3>2
      <4> QED BY <1>0, <2>3, <3>2, <4>1 DEF Shared
    <3> QED BY <3>1, <3>2
  <2> QED BY <2>3, <2>4
<1> QED BY <1>1, <1>2

MissingRun(f, local, remote, k) ==
    f = [i \in 0..k |-> IF i = 0 THEN <<>>
                        ELSE IF SubSeq(remote, 1, i) \in R!Events(local) THEN f[i - 1]
                        ELSE Append(f[i - 1], SubSeq(remote, 1, i))]

\* The function find_missing_events is defined by exists: beyond the fork it
\* lists the prefixes of remote one by one.
LEMMA MissingRunExists ==
    ASSUME NEW local \in Ledgers, NEW remote \in Ledgers
    PROVE  \E f : MissingRun(f, local, remote, Len(remote))
<1> DEFINE T == {k \in 0..Len(remote) : ~ \E f : MissingRun(f, local, remote, k)}
           Next1(x, i) == IF SubSeq(remote, 1, i) \in R!Events(local) THEN x
                          ELSE Append(x, SubSeq(remote, 1, i))
<1>0. Len(remote) \in Nat
  BY DEF Ledgers
<1>1. SUFFICES ASSUME T # {} PROVE FALSE
  BY <1>0
<1>2. T \in SUBSET Nat
  BY <1>0
<1>3. PICK k \in T : \A j \in T : k <= j
  <2> HIDE DEF T
  <2> QED BY <1>1, <1>2, LeastNumber
<1>4. k # 0
  <2>1. MissingRun([i \in 0..0 |-> <<>>], local, remote, 0)
    BY DEF MissingRun
  <2> QED BY <2>1
<1>5. k - 1 \in 0..Len(remote) /\ k \in 1..Len(remote)
  BY <1>0, <1>4
<1>6. PICK f : MissingRun(f, local, remote, k - 1)
  <2>1. k - 1 \notin T
    <3>1. ~(k <= k - 1)
      BY <1>0
    <3> HIDE DEF T
    <3> QED BY <1>3, <3>1
  <2> QED BY <1>5, <2>1
<1>7. f = [i \in 0..(k - 1) |-> IF i = 0 THEN <<>> ELSE Next1(f[i - 1], i)]
  BY <1>6 DEF MissingRun
<1> DEFINE new == Next1(f[k - 1], k)
           g == [i \in 0..k |-> IF i = k THEN new ELSE f[i]]
<1> HIDE DEF Next1
<1>8. ASSUME NEW i \in 0..k
      PROVE  g[i] = IF i = 0 THEN <<>> ELSE Next1(g[i - 1], i)
  <2>1. CASE i = k
    <3>1. g[k - 1] = f[k - 1] /\ g[k] = new
      BY <1>5
    <3> QED BY <1>4, <2>1, <3>1
  <2>2. CASE i # k
    <3>1. g[i] = f[i] /\ i \in 0..(k - 1) /\ (i # 0 => g[i - 1] = f[i - 1])
      BY <1>5, <2>2
    <3>2. f[i] = IF i = 0 THEN <<>> ELSE Next1(f[i - 1], i)
      BY <1>7, <3>1
    <3> QED BY <3>1, <3>2
  <2> QED BY <2>1, <2>2
<1>9. g = [i \in 0..k |-> g[i]]
  OBVIOUS
<1> HIDE DEF g, new
<1>10. MissingRun(g, local, remote, k)
  BY <1>8, <1>9 DEF MissingRun, Next1
<1> QED BY <1>10

\* The missing events are the prefixes of remote beyond the fork, in order.
LEMMA MissingEvents ==
    ASSUME NEW local \in Ledgers, NEW remote \in Ledgers, NEW c \in 0..Len(remote),
           \A k \in 1..Len(remote) : Shared(local, remote, k) <=> k <= c
    PROVE  /\ R!find_missing_events(local, remote) \in Seq(Ledgers)
           /\ Len(R!find_missing_events(local, remote)) = Len(remote) - c
           /\ \A i \in 1..(Len(remote) - c) :
                 R!find_missing_events(local, remote)[i] = SubSeq(remote, 1, c + i)
<1> DEFINE n == Len(remote)
           f == CHOOSE g : MissingRun(g, local, remote, n)
           Lists(x, k) == /\ x \in Seq(Ledgers)
                          /\ Len(x) = IF k <= c THEN 0 ELSE k - c
                          /\ \A i \in 1..n : c + i <= k => x[i] = SubSeq(remote, 1, c + i)
           T == {k \in 0..n : ~Lists(f[k], k)}
<1>0. n \in Nat /\ remote \in Seq(R!Kind)
  BY DEF Ledgers
<1>1. MissingRun(f, local, remote, n)
  BY MissingRunExists
<1>2. R!find_missing_events(local, remote) = f[n]
  BY DEF R!find_missing_events, MissingRun
<1> HIDE DEF f
<1>3. ASSUME T # {} PROVE FALSE
  <2>1. T \in SUBSET Nat
    BY <1>0
  <2>2. PICK k \in T : \A j \in T : k <= j
    <3> HIDE DEF T
    <3> QED BY <1>3, <2>1, LeastNumber
  <2>3. f[k] = IF k = 0 THEN <<>>
               ELSE IF SubSeq(remote, 1, k) \in R!Events(local) THEN f[k - 1]
               ELSE Append(f[k - 1], SubSeq(remote, 1, k))
    BY <1>1 DEF MissingRun
  <2>4. CASE k = 0
    <3>1. <<>> \in Seq(Ledgers) /\ f[k] = <<>>
      BY <2>3, <2>4
    <3>2. c \in Nat /\ \A i \in 1..n : ~(c + i <= 0)
      BY <1>0
    <3>3. Lists(<<>>, 0)
      BY <3>1, <3>2
    <3> QED BY <2>2, <2>4, <3>1, <3>3
  <2>5. CASE k # 0
    <3>1. k \in 1..n /\ k - 1 \in 0..n
      BY <1>0, <2>5
    <3>2. PICK x : x = f[k - 1] /\ Lists(x, k - 1)
      <4>1. k - 1 \notin T
        <5>1. ~(k <= k - 1)
          BY <1>0
        <5> HIDE DEF T
        <5> QED BY <2>2, <5>1
      <4> HIDE DEF Lists
      <4> QED BY <3>1, <4>1
    <3>3. SubSeq(remote, 1, k) \in Ledgers
      BY <1>0, <3>1 DEF Ledgers
    <3>4. SubSeq(remote, 1, k) \in R!Events(local) <=> k <= c
      BY <3>1, KnownEvents
    <3>5. CASE k <= c
      <4>1. f[k] = x
        BY <2>3, <2>5, <3>2, <3>4, <3>5
      <4>2. Lists(x, k)
        BY <1>0, <3>1, <3>2, <3>5
      <4> QED BY <2>2, <4>1, <4>2
    <3>6. CASE ~(k <= c)
      <4>1. PICK z : z = SubSeq(remote, 1, k)
        OBVIOUS
      <4>2. f[k] = Append(x, z)
        BY <2>3, <2>5, <3>2, <3>4, <3>6, <4>1
      <4>3. x \in Seq(Ledgers) /\ Len(x) = k - 1 - c /\ z \in Ledgers
            /\ \A i \in 1..n : c + i <= k - 1 => x[i] = SubSeq(remote, 1, c + i)
        BY <1>0, <3>1, <3>2, <3>3, <3>6, <4>1
      <4>4. /\ Append(x, z) \in Seq(Ledgers) /\ Len(Append(x, z)) = k - c
            /\ Append(x, z)[k - c] = z
            /\ \A i \in 1..(k - 1 - c) : Append(x, z)[i] = x[i]
        BY <1>0, <3>1, <3>6, <4>3, AppendFacts
      <4>5. ASSUME NEW i \in 1..n, c + i <= k PROVE Append(x, z)[i] = SubSeq(remote, 1, c + i)
        <5>1. CASE c + i = k
          <6>1. i = k - c
            BY <1>0, <3>1, <5>1
          <6> QED BY <4>1, <4>4, <5>1, <6>1
        <5>2. CASE c + i # k
          <6>1. i \in 1..(k - 1 - c) /\ c + i <= k - 1
            BY <1>0, <3>1, <4>5, <5>2
          <6> QED BY <4>3, <4>4, <6>1
        <5> QED BY <5>1, <5>2
      <4>6. Lists(Append(x, z), k)
        BY <3>6, <4>4, <4>5
      <4> QED BY <2>2, <4>2, <4>6
    <3> QED BY <3>5, <3>6
  <2> QED BY <2>4, <2>5
<1>4. Lists(f[n], n)
  BY <1>0, <1>3
<1>5. PICK x : x = f[n]
  OBVIOUS
<1>6. x \in Seq(Ledgers) /\ Len(x) = n - c /\ \A i \in 1..(n - c) : x[i] = SubSeq(remote, 1, c + i)
  <2>1. \A i \in 1..(n - c) : i \in 1..n /\ c + i <= n
    BY <1>0
  <2>2. n <= c => n - c = 0
    BY <1>0
  <2> QED BY <1>4, <1>5, <2>1, <2>2
<1> QED BY <1>2, <1>5, <1>6

PrefixOf(s, t) == Len(s) <= Len(t) /\ \A i \in 1..Len(s) : s[i] = t[i]

LEMMA PrefixMeans ==
    ASSUME NEW s \in Ledgers, NEW t \in Ledgers
    PROVE  R!IsPrefix(s, t) <=> PrefixOf(s, t)
<1> DEFINE S == R!Kind
<1>0. s \in Seq(S) /\ t \in Seq(S) /\ Len(s) \in Nat /\ Len(t) \in Nat
  BY DEF Ledgers
<1> HIDE DEF S
<1>1. SubSeq(s, 1, Len(s)) \in Seq(S) /\ Len(SubSeq(s, 1, Len(s))) = Len(s)
      /\ \A i \in 1..Len(s) : SubSeq(s, 1, Len(s))[i] = s[i]
  BY <1>0
<1>2. CASE Len(s) <= Len(t)
  <2>1. SubSeq(t, 1, Len(s)) \in Seq(S) /\ Len(SubSeq(t, 1, Len(s))) = Len(s)
        /\ \A i \in 1..Len(s) : SubSeq(t, 1, Len(s))[i] = t[i]
    BY <1>0, <1>2
  <2>2. PICK u, v : u = SubSeq(s, 1, Len(s)) /\ v = SubSeq(t, 1, Len(s))
    OBVIOUS
  <2>3. u = v <=> \A i \in 1..Len(s) : s[i] = t[i]
    BY <1>0, <1>1, <2>1, <2>2
  <2> QED BY <1>2, <2>2, <2>3 DEF R!IsPrefix, PrefixOf
<1>3. CASE ~(Len(s) <= Len(t))
  BY <1>3 DEF R!IsPrefix, PrefixOf
<1> QED BY <1>2, <1>3

\* add_external_event takes the event that is one longer than the ledger.
LEMMA OfferEvent ==
    ASSUME NEW local \in Ledgers, NEW remote \in Ledgers, NEW k \in 1..Len(remote)
    PROVE  R!add_external_event(local, SubSeq(remote, 1, k)) =
               IF Len(local) = k - 1 /\ PrefixOf(local, remote) THEN SubSeq(remote, 1, k) ELSE local
<1> DEFINE S == R!Kind
           u == SubSeq(remote, 1, k)
           v == R!Front(u)
<1>0. local \in Seq(S) /\ remote \in Seq(S) /\ Len(local) \in Nat /\ Len(remote) \in Nat
  BY DEF Ledgers
<1> HIDE DEF S
<1>1. u \in Seq(S) /\ Len(u) = k /\ \A i \in 1..k : u[i] = remote[i]
  BY <1>0
<1>2. v \in Seq(S) /\ Len(v) = k - 1 /\ \A i \in 1..(k - 1) : v[i] = remote[i]
  <2>1. v = SubSeq(u, 1, k - 1)
    BY <1>1 DEF R!Front
  <2> HIDE DEF u, v
  <2>2. CASE k = 1
    BY <1>1, <2>1, <2>2
  <2>3. CASE k > 1
    BY <1>1, <2>1, <2>3
  <2> QED BY <2>2, <2>3
<1> HIDE DEF u, v
<1>3. v = local <=> Len(local) = k - 1 /\ PrefixOf(local, remote)
  <2>1. k - 1 <= Len(remote) /\ k - 1 \in Nat
    BY <1>0
  <2> QED BY <1>0, <1>2, <2>1 DEF PrefixOf
<1>4. R!add_external_event(local, u) = IF v = local THEN u ELSE local
  BY DEF R!add_external_event, v
<1> QED BY <1>3, <1>4 DEF u

MergeRun(f, local, missing, k) ==
    f = [i \in 0..k |-> IF i = 0 THEN local ELSE R!add_external_event(f[i - 1], missing[i])]

LEMMA MergeRunExists ==
    ASSUME NEW local, NEW missing, Len(missing) \in Nat
    PROVE  \E f : MergeRun(f, local, missing, Len(missing))
<1> DEFINE n == Len(missing)
           T == {k \in 0..n : ~ \E f : MergeRun(f, local, missing, k)}
<1>1. SUFFICES ASSUME T # {} PROVE FALSE
  OBVIOUS
<1>2. T \in SUBSET Nat
  OBVIOUS
<1>3. PICK k \in T : \A j \in T : k <= j
  <2> HIDE DEF T
  <2> QED BY <1>1, <1>2, LeastNumber
<1>4. k # 0
  <2>1. MergeRun([i \in 0..0 |-> local], local, missing, 0)
    BY DEF MergeRun
  <2> QED BY <2>1
<1>5. k - 1 \in 0..n /\ k \in 1..n
  BY <1>4
<1>6. PICK f : MergeRun(f, local, missing, k - 1)
  <2>1. k - 1 \notin T
    <3>1. ~(k <= k - 1)
      BY <1>5
    <3> HIDE DEF T
    <3> QED BY <1>3, <3>1
  <2> QED BY <1>5, <2>1
<1>7. f = [i \in 0..(k - 1) |-> IF i = 0 THEN local ELSE R!add_external_event(f[i - 1], missing[i])]
  BY <1>6 DEF MergeRun
<1> DEFINE new == R!add_external_event(f[k - 1], missing[k])
           g == [i \in 0..k |-> IF i = k THEN new ELSE f[i]]
<1>8. ASSUME NEW i \in 0..k
      PROVE  g[i] = IF i = 0 THEN local ELSE R!add_external_event(g[i - 1], missing[i])
  <2>1. CASE i = k
    <3>1. g[k - 1] = f[k - 1] /\ g[k] = new
      BY <1>5
    <3> QED BY <1>4, <2>1, <3>1
  <2>2. CASE i # k
    <3>1. g[i] = f[i] /\ i \in 0..(k - 1) /\ (i # 0 => g[i - 1] = f[i - 1])
      BY <1>5, <2>2
    <3>2. f[i] = IF i = 0 THEN local ELSE R!add_external_event(f[i - 1], missing[i])
      BY <1>7, <3>1
    <3> QED BY <3>1, <3>2
  <2> QED BY <2>1, <2>2
<1>9. g = [i \in 0..k |-> g[i]]
  OBVIOUS
<1> HIDE DEF g, new
<1>10. MergeRun(g, local, missing, k)
  BY <1>8, <1>9 DEF MergeRun
<1> QED BY <1>10

\* A merge takes over all of remote when the ledger is the start of it, and
\* nothing otherwise; it claims success in the first case, and in the second
\* exactly when remote is the start of the ledger.
Merged(r, local, remote) ==
    IF PrefixOf(local, remote) THEN r.chain = remote /\ r.success = TRUE
    ELSE r.chain = local /\ r.success = PrefixOf(remote, local)

LEMMA MergeBoth ==
    ASSUME NEW local \in Ledgers, NEW remote \in Ledgers
    PROVE  Merged(R!apply_merge_both(local, remote), local, remote)
<1> DEFINE n == Len(remote)
           missing == R!find_missing_events(local, remote)
           f == CHOOSE g : MergeRun(g, local, missing, Len(missing))
<1>0. n \in Nat /\ Len(local) \in Nat /\ remote \in Seq(R!Kind) /\ local \in Seq(R!Kind)
  BY DEF Ledgers
<1>1. PICK c \in 0..n : \A k \in 1..n : Shared(local, remote, k) <=> k <= c
  BY ForkPoint
<1>2. /\ Len(missing) = n - c
      /\ \A i \in 1..(n - c) : missing[i] = SubSeq(remote, 1, c + i)
  BY <1>1, MissingEvents
<1>3. MergeRun(f, local, missing, n - c)
  <2>1. Len(missing) \in Nat
    BY <1>0, <1>2
  <2> HIDE DEF missing
  <2>2. \E g : MergeRun(g, local, missing, Len(missing))
    BY <2>1, MergeRunExists
  <2> QED BY <1>2, <2>2
<1>4. R!apply_merge_both(local, remote) =
        [chain |-> f[n - c], success |-> Len(f[n - c]) = Len(local) + (n - c)]
  BY <1>2 DEF R!apply_merge_both, MergeRun
<1> HIDE DEF f, missing
<1>5. ASSUME NEW i \in 0..(n - c)
      PROVE  /\ i = 0 => f[i] = local
             /\ i # 0 => /\ f[i] = R!add_external_event(f[i - 1], SubSeq(remote, 1, c + i))
                         /\ i - 1 \in 0..(n - c) /\ c + i \in 1..n
  <2>1. f[i] = IF i = 0 THEN local ELSE R!add_external_event(f[i - 1], missing[i])
    BY <1>3 DEF MergeRun
  <2>2. i # 0 => i \in 1..(n - c) /\ i - 1 \in 0..(n - c) /\ c + i \in 1..n
    BY <1>0
  <2> QED BY <1>2, <2>1, <2>2
<1>6. CASE PrefixOf(local, remote)
  <2>1. c = Len(local)
    <3>1. Len(local) <= n /\ \A i \in 1..Len(local) : local[i] = remote[i]
      BY <1>6 DEF PrefixOf
    <3>2. CASE Len(local) = 0
      <4>1. c \in 1..n => Shared(local, remote, c)
        BY <1>1
      <4> QED BY <1>0, <3>2, <4>1 DEF Shared
    <3>3. CASE Len(local) # 0
      <4>1. Len(local) \in 1..n /\ Shared(local, remote, Len(local))
        BY <1>0, <3>1, <3>3 DEF Shared
      <4>2. Len(local) <= c
        BY <1>1, <4>1
      <4>3. c \in 1..n /\ Shared(local, remote, c)
        BY <1>0, <1>1, <4>1, <4>2
      <4> QED BY <1>0, <4>2, <4>3 DEF Shared
    <3> QED BY <3>2, <3>3
  <2> DEFINE T == {i \in 0..(n - c) : f[i] # SubSeq(remote, 1, c + i)}
  <2>2. ASSUME T # {} PROVE FALSE
    <3>1. T \in SUBSET Nat
      BY <1>0
    <3>2. PICK k \in T : \A j \in T : k <= j
      <4> HIDE DEF T
      <4> QED BY <2>2, <3>1, LeastNumber
    <3>3. CASE k = 0
      <4>1. SubSeq(remote, 1, c) = local
        BY <1>0, <1>6, <2>1 DEF PrefixOf
      <4> QED BY <1>0, <1>5, <3>2, <3>3, <4>1
    <3>4. CASE k # 0
      <4>0. k - 1 \notin T
        <5>1. ~(k <= k - 1)
          BY <1>0
        <5> HIDE DEF T
        <5> QED BY <3>2, <5>1
      <4>1. /\ k - 1 \in 0..(n - c) /\ c + k \in 1..n
            /\ f[k] = R!add_external_event(f[k - 1], SubSeq(remote, 1, c + k))
        BY <1>5, <3>4
      <4>2. f[k - 1] = SubSeq(remote, 1, c + (k - 1)) /\ c + (k - 1) = (c + k) - 1
        BY <1>0, <4>0, <4>1
      <4>3. PICK u : u = SubSeq(remote, 1, (c + k) - 1)
        OBVIOUS
      <4>4. u \in Ledgers /\ Len(u) = (c + k) - 1 /\ PrefixOf(u, remote)
        <5>1. (c + k) - 1 \in 0..n
          BY <1>0, <4>1
        <5> QED BY <1>0, <4>3, <5>1 DEF Ledgers, PrefixOf
      <4>5. f[k] = SubSeq(remote, 1, c + k)
        <5>1. f[k] = R!add_external_event(u, SubSeq(remote, 1, c + k))
          BY <4>1, <4>2, <4>3
        <5>2. remote \in Ledgers /\ c + k \in 1..Len(remote)
          BY <1>0, <4>1
        <5>3. R!add_external_event(u, SubSeq(remote, 1, c + k)) =
                IF Len(u) = (c + k) - 1 /\ PrefixOf(u, remote) THEN SubSeq(remote, 1, c + k) ELSE u
          BY <4>4, <5>2, OfferEvent
        <5> QED BY <4>4, <5>1, <5>3
      <4> QED BY <3>2, <4>5
    <3> QED BY <3>3, <3>4
  <2>3. f[n - c] = remote
    <3>1. n - c \in 0..(n - c) /\ c + (n - c) = n
      BY <1>0
    <3>2. f[n - c] = SubSeq(remote, 1, n)
      BY <2>2, <3>1
    <3> QED BY <1>0, <3>2
  <2>4. Len(remote) = Len(local) + (n - c)
    BY <1>0, <2>1
  <2>5. (Len(f[n - c]) = Len(local) + (n - c)) = TRUE
    BY <2>3, <2>4
  <2>6. PICK r : r = R!apply_merge_both(local, remote)
    OBVIOUS
  <2>7. r.chain = remote /\ r.success = (Len(f[n - c]) = Len(local) + (n - c))
    BY <1>4, <2>3, <2>6
  <2> QED BY <1>6, <2>5, <2>6, <2>7, Zenon DEF Merged
<1>7. CASE ~PrefixOf(local, remote)
  <2> DEFINE T == {i \in 0..(n - c) : f[i] # local}
  <2>2. ASSUME T # {} PROVE FALSE
    <3>1. T \in SUBSET Nat
      BY <1>0
    <3>2. PICK k \in T : \A j \in T : k <= j
      <4> HIDE DEF T
      <4> QED BY <2>2, <3>1, LeastNumber
    <3>3. CASE k = 0
      BY <1>5, <3>2, <3>3
    <3>4. CASE k # 0
      <4>0. k - 1 \notin T
        <5>1. ~(k <= k - 1)
          BY <1>0
        <5> HIDE DEF T
        <5> QED BY <3>2, <5>1
      <4>1. /\ k - 1 \in 0..(n - c) /\ c + k \in 1..n
            /\ f[k] = R!add_external_event(f[k - 1], SubSeq(remote, 1, c + k))
        BY <1>5, <3>4
      <4>2. f[k - 1] = local
        BY <4>0, <4>1
      <4>3. f[k] = local
        BY <1>7, <4>1, <4>2, OfferEvent
      <4> QED BY <3>2, <4>3
    <3> QED BY <3>3, <3>4
  <2>3. f[n - c] = local
    <3>1. n - c \in 0..(n - c)
      BY <1>0
    <3> QED BY <2>2, <3>1
  <2>4. (Len(local) = Len(local) + (n - c)) <=> c = n
    BY <1>0
  <2>5. c = n <=> PrefixOf(remote, local)
    <3>1. CASE n = 0
      BY <1>0, <3>1 DEF PrefixOf
    <3>2. CASE n # 0
      <4>1. n \in 1..n
        BY <1>0, <3>2
      <4>2. c = n <=> Shared(local, remote, n)
        BY <1>0, <1>1, <4>1
      <4> QED BY <4>2 DEF Shared, PrefixOf
    <3> QED BY <3>1, <3>2
  <2>6. R!apply_merge_both(local, remote).success = PrefixOf(remote, local)
    BY <1>4, <2>3, <2>4, <2>5 DEF PrefixOf
  <2> QED BY <1>4, <1>7, <2>3, <2>6 DEF Merged
<1> QED BY <1>6, <1>7

\* Ledgers only grow; a report that a merge succeeded keeps being true.
ReconcileInv ==
    /\ chain \in [Peer -> Ledgers]
    /\ last.by = "peer" =>
          /\ last.node \in Peer /\ last.before \in Ledgers /\ last.remote \in Ledgers
          /\ Len(last.before) # Len(last.remote) =>
                /\ last.success => PrefixOf(last.remote, chain[last.node])
                /\ (PrefixOf(last.before, last.remote) \/ PrefixOf(last.remote, last.before)) => last.success

\* What any resolution makes of a ledger: it keeps it, or takes over one that
\* it is the start of.
LEMMA ResolutionGrows ==
    ASSUME NEW local \in Ledgers, NEW remote \in Ledgers, NEW anomaly
    PROVE  LET r == R!resolve_conflict(local, remote, anomaly)
               q == R!apply_remote_preference(local, remote) IN
           /\ r.chain \in Ledgers /\ PrefixOf(local, r.chain)
           /\ q.chain \in Ledgers /\ PrefixOf(local, q.chain)
           /\ Len(local) # Len(remote) => Merged(r, local, remote)
<1>1. PICK m : m = R!apply_merge_both(local, remote)
  OBVIOUS
<1>2. Merged(m, local, remote)
  BY <1>1, MergeBoth
<1>3. PrefixOf(local, local)
  BY DEF PrefixOf, Ledgers
<1>4. m.chain \in Ledgers /\ PrefixOf(local, m.chain)
  BY <1>2, <1>3 DEF Merged
<1>5. PICK q : q = R!apply_remote_preference(local, remote)
  OBVIOUS
<1>6. q.chain = m.chain
  BY <1>1, <1>5 DEF R!apply_remote_preference
<1>7. PICK k : k = R!apply_local_preference(local)
  OBVIOUS
<1>8. k.chain = local
  BY <1>7 DEF R!apply_local_preference
<1>9. PICK r : r = R!resolve_conflict(local, remote, anomaly)
  OBVIOUS
<1>10. (Len(local) # Len(remote) /\ r = m) \/ (Len(local) = Len(remote) /\ (r = q \/ r = k))
  BY <1>1, <1>5, <1>7, <1>9 DEF R!resolve_conflict, R!apply_highest_work
<1>11. /\ r.chain \in Ledgers /\ PrefixOf(local, r.chain)
       /\ q.chain \in Ledgers /\ PrefixOf(local, q.chain)
       /\ Len(local) # Len(remote) => Merged(r, local, remote)
  BY <1>2, <1>3, <1>4, <1>6, <1>8, <1>10
<1> QED BY <1>5, <1>9, <1>11

LEMMA PrefixTransitive ==
    ASSUME NEW s \in Ledgers, NEW t \in Ledgers, NEW u \in Ledgers, PrefixOf(s, t), PrefixOf(t, u)
    PROVE  PrefixOf(s, u)
<1>1. Len(s) \in Nat /\ Len(t) \in Nat /\ Len(u) \in Nat
  BY DEF Ledgers
<1> QED BY <1>1 DEF PrefixOf

LEMMA StartOf ==
    ASSUME NEW s \in Ledgers, NEW k \in 0..Len(s)
    PROVE  SubSeq(s, 1, k) \in Ledgers
<1>1. s \in Seq(R!Kind) /\ Len(s) \in Nat
  BY DEF Ledgers
<1> QED BY <1>1 DEF Ledgers

\* A reconciliation that is recorded as one with a peer, and any other.
LEMMA AdoptKeeps ==
    ASSUME ReconcileInv, NEW n \in Peer, NEW remote \in Ledgers, NEW result, NEW by, NEW votes, NEW peers,
           R!Adopt(n, remote, result, by, votes, peers),
           result.chain \in Ledgers,
           (by = "peer" /\ Len(chain[n]) # Len(remote)) => Merged(result, chain[n], remote)
    PROVE  ReconcileInv'
<1>1. /\ chain' = [chain EXCEPT ![n] = result.chain]
      /\ last'.node = n /\ last'.before = chain[n] /\ last'.remote = remote
      /\ last'.success = result.success /\ last'.by = by
  BY DEF R!Adopt
<1>2. chain' \in [Peer -> Ledgers] /\ chain'[n] = result.chain /\ chain[n] \in Ledgers
  BY <1>1 DEF ReconcileInv
<1>3. ASSUME by = "peer", Len(chain[n]) # Len(remote)
      PROVE  /\ last'.success => PrefixOf(remote, chain'[n])
             /\ (PrefixOf(chain[n], remote) \/ PrefixOf(remote, chain[n])) => last'.success
  <2>1. Merged(result, chain[n], remote)
    BY <1>3
  <2>2. PrefixOf(remote, remote)
    BY DEF PrefixOf, Ledgers
  <2>3. CASE PrefixOf(chain[n], remote)
    BY <1>1, <1>2, <2>1, <2>2, <2>3 DEF Merged
  <2>4. CASE ~PrefixOf(chain[n], remote)
    <3>1. result.chain = chain[n] /\ result.success = PrefixOf(remote, chain[n])
      BY <2>1, <2>4 DEF Merged
    <3> QED BY <1>1, <1>2, <2>4, <3>1, Zenon
  <2> QED BY <2>3, <2>4
<1> QED BY <1>1, <1>2, <1>3 DEF ReconcileInv

LEMMA ReconcileStep == ASSUME ReconcileInv, R!Next PROVE ReconcileInv'
<1>1. PICK n \in Peer :
        \/ \E kind \in R!Kind : R!record(n, kind)
        \/ \E m \in Peer \ {n} : \E known \in 0..Len(chain[m]) : \E anomaly \in BOOLEAN :
            R!auto_reconcile_with_peer(n, m, known, anomaly) \/ R!epoch_turned(n, m, known)
        \/ \E peers \in SUBSET (Peer \ {n}) : \E known \in [peers -> 0..MaxEvents] :
            /\ \A m \in peers : known[m] <= Len(chain[m])
            /\ R!reconcile_with_quorum(n, [m \in peers |-> SubSeq(chain[m], 1, known[m])])
  BY DEF R!Next
<1>2. \A m \in Peer : chain[m] \in Ledgers /\ Len(chain[m]) \in Nat
  BY DEF ReconcileInv, Ledgers
<1>3. ASSUME NEW kind \in R!Kind, R!record(n, kind) PROVE ReconcileInv'
  <2>1. chain' = [chain EXCEPT ![n] = Append(chain[n], kind)] /\ last' = last
    BY <1>3 DEF R!record
  <2>2. Append(chain[n], kind) \in Ledgers /\ PrefixOf(chain[n], Append(chain[n], kind))
    BY <1>2 DEF Ledgers, PrefixOf
  <2>3. chain' \in [Peer -> Ledgers] /\ \A m \in Peer : chain'[m] = IF m = n THEN Append(chain[n], kind) ELSE chain[m]
    BY <2>1, <2>2 DEF ReconcileInv
  <2>4. \A m \in Peer : PrefixOf(chain[m], chain'[m])
    BY <1>2, <2>2, <2>3 DEF PrefixOf
  <2>5. ASSUME last.by = "peer", PrefixOf(last.remote, chain[last.node])
        PROVE  PrefixOf(last.remote, chain'[last.node])
    BY <1>2, <2>3, <2>4, <2>5, PrefixTransitive DEF ReconcileInv
  <2> QED BY <2>1, <2>3, <2>5 DEF ReconcileInv
<1>4. ASSUME NEW m \in Peer \ {n}, NEW known \in 0..Len(chain[m]), NEW anomaly \in BOOLEAN,
             R!auto_reconcile_with_peer(n, m, known, anomaly)
      PROVE  ReconcileInv'
  <2>1. PICK remote : remote = SubSeq(chain[m], 1, known)
    OBVIOUS
  <2>2. PICK r : r = R!resolve_conflict(chain[n], remote, anomaly)
    OBVIOUS
  <2>3. remote \in Ledgers
    BY <1>2, <2>1, StartOf
  <2>4. r.chain \in Ledgers /\ (Len(chain[n]) # Len(remote) => Merged(r, chain[n], remote))
    BY <1>2, <2>2, <2>3, ResolutionGrows
  <2>5. R!Adopt(n, remote, r, "peer", 1, 1)
    BY <1>4, <2>1, <2>2 DEF R!auto_reconcile_with_peer
  <2> QED BY <2>3, <2>4, <2>5, AdoptKeeps
<1>5. ASSUME NEW m \in Peer \ {n}, NEW known \in 0..Len(chain[m]), R!epoch_turned(n, m, known)
      PROVE  ReconcileInv'
  <2>1. PICK remote, r : remote = SubSeq(chain[m], 1, known) /\ r = R!apply_local_preference(chain[n])
    OBVIOUS
  <2>2. remote \in Ledgers
    BY <1>2, <2>1, StartOf
  <2>3. r.chain \in Ledgers
    BY <1>2, <2>1 DEF R!apply_local_preference
  <2>4. R!Adopt(n, remote, r, "turned", 1, 1)
    BY <1>5, <2>1 DEF R!epoch_turned
  <2> QED BY <2>2, <2>3, <2>4, AdoptKeeps
<1>6. ASSUME NEW peers \in SUBSET (Peer \ {n}), NEW known \in [peers -> 0..MaxEvents],
             \A m \in peers : known[m] <= Len(chain[m]),
             R!reconcile_with_quorum(n, [m \in peers |-> SubSeq(chain[m], 1, known[m])])
      PROVE  ReconcileInv'
  <2>1. PICK answers : answers = [m \in peers |-> SubSeq(chain[m], 1, known[m])]
    OBVIOUS
  <2>2. \A m \in DOMAIN answers : answers[m] \in Ledgers
    <3>1. \A m \in peers : m \in Peer /\ known[m] \in Int /\ 0 <= known[m]
      BY <1>6
    <3>2. \A m \in peers : known[m] \in 0..Len(chain[m])
      BY <1>2, <1>6, <3>1
    <3> QED BY <1>2, <2>1, <3>1, <3>2, StartOf
  <2>3. R!reconcile_with_quorum(n, answers)
    BY <1>6, <2>1
  <2>4. PICK c, votes, all : /\ \E m \in DOMAIN answers : c = answers[m]
                             /\ \/ last' = [R!NoResult EXCEPT !.node = n, !.success = FALSE, !.before = chain[n]] /\ chain' = chain
                                \/ R!Adopt(n, c, R!apply_remote_preference(chain[n], c), "quorum", votes, all)
    BY <2>3 DEF R!reconcile_with_quorum
  <2>5. c \in Ledgers
    BY <2>2, <2>4
  <2>6. CASE last' = [R!NoResult EXCEPT !.node = n, !.success = FALSE, !.before = chain[n]] /\ chain' = chain
    <3>1. last'.by = "nobody"
      BY <2>6 DEF R!NoResult
    <3> QED BY <2>6, <3>1 DEF ReconcileInv
  <2>7. CASE R!Adopt(n, c, R!apply_remote_preference(chain[n], c), "quorum", votes, all)
    <3>1. R!apply_remote_preference(chain[n], c).chain \in Ledgers
      BY <1>2, <2>5, ResolutionGrows
    <3> QED BY <2>5, <2>7, <3>1, AdoptKeeps
  <2> QED BY <2>4, <2>6, <2>7
<1> QED BY <1>1, <1>3, <1>4, <1>5, <1>6

\* What a reconciliation with a peer reports about ledgers of different length
\* is true, and stays true while the ledgers grow, for any nodes and lengths
\* (find_missing_events, apply_merge_both, resolve_conflict).
THEOREM ReportHonestHolds == SyncSpec => []ReportHonest
<1>1. SyncInit => ReconcileInv
  <2>1. <<>> \in Ledgers
    BY DEF Ledgers
  <2> QED BY <2>1 DEF SyncInit, R!Init, R!NoResult, ReconcileInv
<1>2. ReconcileInv /\ [SyncNext]_all_vars => ReconcileInv'
  <2> SUFFICES ASSUME ReconcileInv, [SyncNext]_all_vars PROVE ReconcileInv' OBVIOUS
  <2>1. CASE R!Next
    BY <2>1, ReconcileStep
  <2>2. CASE UNCHANGED R_vars
    BY <2>2 DEF R_vars, ReconcileInv
  <2> QED BY <2>1, <2>2 DEF SyncNext, all_vars
<1>3. ReconcileInv => ReportHonest
  <2> SUFFICES ASSUME ReconcileInv, last.by = "peer", Len(last.before) # Len(last.remote)
               PROVE  /\ last.success => R!IsPrefix(last.remote, chain[last.node])
                      /\ (R!IsPrefix(last.before, last.remote) \/ R!IsPrefix(last.remote, last.before)) => last.success
    BY DEF ReportHonest, R!ReportHonest
  <2>1. last.before \in Ledgers /\ last.remote \in Ledgers /\ chain[last.node] \in Ledgers
    BY DEF ReconcileInv
  <2>2. /\ R!IsPrefix(last.remote, chain[last.node]) <=> PrefixOf(last.remote, chain[last.node])
        /\ R!IsPrefix(last.before, last.remote) <=> PrefixOf(last.before, last.remote)
        /\ R!IsPrefix(last.remote, last.before) <=> PrefixOf(last.remote, last.before)
    BY <2>1, PrefixMeans
  <2> QED BY <2>2 DEF ReconcileInv
<1> QED BY <1>1, <1>2, <1>3, PTL DEF SyncSpec
=============================================================================
