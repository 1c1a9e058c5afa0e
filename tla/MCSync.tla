------------------------------- MODULE MCSync -------------------------------
(***************************************************************************)
(* LedgerSync; Reconciliation, the other way a ledger takes over what a    *)
(* peer holds; and what nodes find and reach each other by, PeerDiscovery, *)
(* RoutingTable and Connection. They share no state, so each behaviour     *)
(* follows one of them, chosen by part: a behaviour of all together        *)
(* projects to one of each. The values TLC checks it for are in the .cfg   *)
(* file.                                                                   *)
(***************************************************************************)
EXTENDS LedgerSync, TLC

CONSTANTS
    Peer, Seed, Host, Content, Address, None, MaxEvents, Stale, Fresh,
    DiscoveryMaxTime, MaxSent, EntryTTL, TableMaxTime, Limits, Bytes,
    ConnectionMaxTime

ASSUME TableAssumption == None \notin [last_seen : Nat, reliable : BOOLEAN, advertised : SUBSET Content]

\* Somebody to talk to, messages that are not empty, and a largest limit.
ASSUME ConnectionAssumption ==
    /\ IsFiniteSet(Address) /\ Address # {}
    /\ Bytes \in Nat \ {0}
    /\ Limits \subseteq Nat /\ \E most \in Limits : \A l \in Limits : l <= most
    /\ ConnectionMaxTime \in Nat

VARIABLES
    part,
    chain, last,
    discovered_peers, up, disk, discovery_wire, sent, discovery_clock,
    entries, content_index, table_clock, early,
    connections, link, sending, tokens, limit, last_update, link_clock,
    link_sent

R == INSTANCE Reconciliation WITH
    Node <- Peer

P == INSTANCE PeerDiscovery WITH
    Node <- Peer, Bootstrap <- Seed, MaxTime <- DiscoveryMaxTime,
    wire <- discovery_wire, clock <- discovery_clock

E == INSTANCE RoutingTable WITH
    Node <- Host, MaxTime <- TableMaxTime, clock <- table_clock

N == INSTANCE Connection WITH
    MaxTime <- ConnectionMaxTime, clock <- link_clock, sent <- link_sent

R_vars == <<chain, last>>
P_vars == <<discovered_peers, up, disk, discovery_wire, sent, discovery_clock>>
E_vars == <<entries, content_index, table_clock, early>>
N_vars == <<connections, link, sending, tokens, limit, last_update, link_clock,
        link_sent>>

all_vars == <<part, vars, R_vars, P_vars, E_vars, N_vars>>

SyncInit ==
    /\ part \in {"sync", "reconciliation", "discovery", "table", "connection"}
    /\ Init
    /\ R!Init /\ P!Init /\ E!Init /\ N!Init

SyncNext ==
    \/ part = "sync" /\ Next /\ UNCHANGED <<part, R_vars, P_vars, E_vars, N_vars>>
    \/ part = "reconciliation" /\ R!Next /\ UNCHANGED <<part, vars, P_vars, E_vars, N_vars>>
    \/ part = "discovery" /\ P!Next /\ UNCHANGED <<part, vars, R_vars, E_vars, N_vars>>
    \/ part = "table" /\ E!Next /\ UNCHANGED <<part, vars, R_vars, P_vars, N_vars>>
    \/ part = "connection" /\ N!Next /\ UNCHANGED <<part, vars, R_vars, P_vars, E_vars>>

SyncSpec == SyncInit /\ [][SyncNext]_all_vars

\* Sound where every node is a writer.
Symmetry == Permutations(Node)

\* The index of contents of the RoutingTable offers a node exactly while the
\* entry of the node lists the content, through removals, expiry and returns
\* of nodes.
IndexBacked == part = "table" => E!IndexBacked

\* Connections that test the shared bandwidth limit first and take the tokens
\* later send in one tick at most a full bucket and one message more for every
\* connection but one, through closed connections and changed limits
\* (Connection).
SharedLimitHolds == part = "connection" => N!SharedLimitHolds

\* reconcile_with_peer reports success only if the node now holds all events
\* of a peer whose ledger has another length, and does so whenever one ledger
\* extends the other (Reconciliation).
ReportHonest == part = "reconciliation" => R!ReportHonest

\* Announcements, answers and gossip that come back never make a node its own
\* peer, in memory or in the peer database (PeerDiscovery).
OnlyOthersKnown == part = "discovery" => P!OnlyOthersKnown
=============================================================================
