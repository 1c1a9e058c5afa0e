------------------------------ MODULE Sessions ------------------------------
(***************************************************************************)
(* Encrypted sessions (Session and SessionManager of network/session.cpp)  *)
(* and the connections that PeerManager (network/peer.cpp) keeps on top of *)
(* them.                                                                   *)
(*                                                                         *)
(* A handshake is an init and a response, each with a fresh X25519 key;    *)
(* the secret is the pair of keys.  Messages are lost, late, repeated or   *)
(* out of order: wire only grows.  The transport that carries them is not  *)
(* in the repository: it hands an init to handle_inbound_handshake and a   *)
(* response to the session with its sender.                                *)
(*                                                                         *)
(* PeerManager keeps a bare pointer to the session of a connection, here   *)
(* the local key of that session, which no other session ever has.  A call *)
(* through a pointer whose session is gone is undefined and not explored.  *)
(* The limits on peers and on retries per call (50 and 5) are above the    *)
(* number of nodes; every node is known to discovery.                      *)
(***************************************************************************)
EXTENDS Integers, FiniteSetsExt

CONSTANTS
    Node,
    Data,            \* plaintexts
    HandshakeAge,    \* MAX_AGE_SECONDS of a handshake (60)
    SessionIdle,     \* IDLE_TIMEOUT_SECONDS (1800)
    ConnectionIdle,  \* idle_timeout_seconds (300)
    ReconnectDelay,  \* reconnect_delay_seconds (60)
    MaxAttempts,     \* max_connection_attempts (5)
    TargetPeers,     \* target_peers (20)
    Skew,            \* how far a clock may be ahead of the others
    None,
    MaxKeys,         \* bound: sessions a node creates with one peer
    MaxSent,         \* bound: ciphertexts
    MaxTime          \* bound: last time explored

ASSUME SessionAssumption ==
    /\ HandshakeAge \in Nat /\ SessionIdle \in Nat \ {0} /\ ConnectionIdle \in Nat
    /\ ReconnectDelay \in Nat /\ MaxAttempts \in Nat \ {0} /\ TargetPeers \in Nat
    /\ MaxKeys \in Nat /\ MaxSent \in Nat /\ MaxTime \in Nat
    /\ Skew \subseteq Nat /\ Skew # {}

\* The key pairs nodes generate for each other, numbered.
SessionKey == Node \X Node \X Nat

SessionRecord ==
    [ state : {"HANDSHAKE_INIT", "HANDSHAKE_RESPONSE", "ESTABLISHED"}, key : SessionKey,
      remote : SessionKey \cup {None}, initiator : BOOLEAN, last_activity : Nat, nonce_counter : Nat ]

ASSUME NoneAssumption == None \notin SessionKey /\ None \notin SessionRecord

VARIABLES
    sessions,        \* sessions[n][p]: the session of n with p in sessions_, or None
    connections,     \* connections[n][p]: active_connections_, or None
    failures,        \* failures[n][p]: connection_failure_count_
    last_attempt,    \* last_attempt[n][p]: last_connection_attempt_, or None
    made,            \* made[n][p]: key pairs n has generated for p
    wire,            \* handshake messages sent
    sent,            \* ciphertexts sent
    now,
    skew             \* skew[n]: offset of n's clock

vars == <<sessions, connections, failures, last_attempt, made, wire, sent, now, skew>>

clock(n) == now + skew[n]

Pairs == {pair \in Node \X Node : pair[1] # pair[2]}

-----------------------------------------------------------------------------
(* Sessions *)

\* The k-th key pair that n generates for p.
Key(n, p, k) == <<n, p, k>>

NewSession(state, key, remote, initiator, t) ==
    [ state |-> state, key |-> key, remote |-> remote, initiator |-> initiator,
      last_activity |-> t, nonce_counter |-> 0 ]

Handshake(kind, from, to, key, t) ==
    [kind |-> kind, from |-> from, to |-> to, key |-> key, time |-> t]

\* Both ends hash the same secret; the initiator sends with the first digest,
\* the responder with the second.
derive_session_keys(s) ==
    LET secret == {s.key, s.remote}
        first  == <<secret, 1>>
        second == <<secret, 2>>
    IN  IF s.initiator THEN [tx |-> first, rx |-> second] ELSE [tx |-> second, rx |-> first]

\* The age is an unsigned difference: a message from the future is too old.
IsFresh(m, n) == m.time <= clock(n) /\ clock(n) - m.time <= HandshakeAge

has_timed_out(s, n) == clock(n) - s.last_activity >= SessionIdle

\* Mutant: the existing session is not looked at.
AlwaysReplaceable(n, p) == TRUE

\* There is no session with p, or it has timed out.
Replaceable(n, p) == sessions[n][p] # None => has_timed_out(sessions[n][p], n)

IsEstablished(n, p) == sessions[n][p] # None /\ sessions[n][p].state = "ESTABLISHED"

-----------------------------------------------------------------------------
(* PeerManager *)

should_connect_to_peer(n, p) == failures[n][p] < MaxAttempts

\* connect_to_peer for every peer in S that is not connected and has not
\* failed too often: a new session is initiated and counts as connected at
\* once; a session that is still there makes the attempt fail.
ConnectAll(n, S, conns) ==
    LET tried  == {p \in S \ {n} : conns[p] = None /\ should_connect_to_peer(n, p)}
        opened == {p \in tried : sessions[n][p] = None}
        KeyFor(p) == Key(n, p, made[n][p] + 1)
    IN  /\ \A p \in opened : made[n][p] < MaxKeys
        /\ sessions' = [sessions EXCEPT ![n] = [p \in Node |->
              IF p \in opened THEN NewSession("HANDSHAKE_INIT", KeyFor(p), None, TRUE, clock(n)) ELSE @[p]]]
        /\ made' = [made EXCEPT ![n] = [p \in Node |-> IF p \in opened THEN @[p] + 1 ELSE @[p]]]
        /\ wire' = wire \cup {Handshake("init", n, p, KeyFor(p), clock(n)) : p \in opened}
        /\ connections' = [connections EXCEPT ![n] = [p \in Node |->
              IF p \in opened THEN [session |-> KeyFor(p), last_activity |-> clock(n)] ELSE conns[p]]]
        /\ failures' = [failures EXCEPT ![n] = [p \in Node |->
              IF p \in opened THEN 0 ELSE IF p \in tried THEN @[p] + 1 ELSE @[p]]]
        /\ last_attempt' = [last_attempt EXCEPT ![n] = [p \in Node |->
              IF p \in tried THEN clock(n) ELSE @[p]]]
        /\ UNCHANGED <<sent, now, skew>>

\* What cleanup_idle_connections leaves.
NotIdle(n) ==
    [p \in Node |-> IF connections[n][p] # None
                       /\ clock(n) - connections[n][p].last_activity > ConnectionIdle
                    THEN None ELSE connections[n][p]]

Connected(conns) == {p \in Node : conns[p] # None}

\* select_peers_to_connect: reliability_score is always 1, because attempts
\* are counted on a copy of the PeerInfo, so any peers may come first.
select_peers_to_connect(n, count, exclude) ==
    LET available == Node \ (exclude \cup {n})
    IN  kSubset(Min({count, Cardinality(available)}), available)

-----------------------------------------------------------------------------
(* Actions *)

Init ==
    /\ sessions = [n \in Node |-> [p \in Node |-> None]]
    /\ connections = [n \in Node |-> [p \in Node |-> None]]
    /\ failures = [n \in Node |-> [p \in Node |-> 0]]
    /\ last_attempt = [n \in Node |-> [p \in Node |-> None]]
    /\ made = [n \in Node |-> [p \in Node |-> 0]]
    /\ wire = {}
    /\ sent = {}
    /\ now = 0
    /\ skew \in [Node -> Skew]

connect_to_peer(n, p) == ConnectAll(n, {p}, connections[n])

maintain_peer_connections(n) ==
    LET conns == NotIdle(n)
        count == Cardinality(Connected(conns))
    IN  \E S \in IF count < TargetPeers
                 THEN select_peers_to_connect(n, TargetPeers - count, Connected(conns))
                 ELSE {{}} :
            ConnectAll(n, S, conns)

attempt_reconnections(n) ==
    ConnectAll(n, {p \in Node : /\ last_attempt[n][p] # None
                                /\ clock(n) - last_attempt[n][p] >= ReconnectDelay},
               connections[n])

\* The session stays.
disconnect_peer(n, p) ==
    /\ connections[n][p] # None
    /\ connections' = [connections EXCEPT ![n][p] = None]
    /\ UNCHANGED <<sessions, failures, last_attempt, made, wire, sent, now, skew>>

\* An active session makes the init void; one that has timed out is closed
\* and removed even if the init turns out to be stale.
handle_inbound_handshake(m) ==
    LET n == m.to
        p == m.from
        key == Key(n, p, made[n][p] + 1)
    IN  /\ m.kind = "init"
        /\ Replaceable(n, p)
        /\ IF IsFresh(m, n)
           THEN /\ made[n][p] < MaxKeys
                /\ made' = [made EXCEPT ![n][p] = @ + 1]
                /\ sessions' = [sessions EXCEPT ![n][p] =
                      NewSession("HANDSHAKE_RESPONSE", key, m.key, FALSE, clock(n))]
           ELSE /\ sessions' = [sessions EXCEPT ![n][p] = None]
                /\ UNCHANGED made
        /\ UNCHANGED <<connections, failures, last_attempt, wire, sent, now, skew>>

send_handshake_response(n, p) ==
    LET s == sessions[n][p] IN
    /\ s # None
    /\ s.state = "HANDSHAKE_RESPONSE"
    /\ sessions' = [sessions EXCEPT ![n][p].state = "ESTABLISHED",
                                    ![n][p].last_activity = clock(n)]
    /\ wire' = wire \cup {Handshake("response", n, p, s.key, clock(n))}
    /\ UNCHANGED <<connections, failures, last_attempt, made, sent, now, skew>>

handle_handshake_response(m) ==
    LET n == m.to
        p == m.from
    IN  /\ m.kind = "response"
        /\ sessions[n][p] # None
        /\ sessions[n][p].state = "HANDSHAKE_INIT"
        /\ IsFresh(m, n)
        /\ sessions' = [sessions EXCEPT ![n][p].state = "ESTABLISHED", ![n][p].remote = m.key,
                                        ![n][p].last_activity = clock(n)]
        /\ UNCHANGED <<connections, failures, last_attempt, made, wire, sent, now, skew>>

\* Mutant: the counter stands still.
EncryptSameNonce(n, p, d) ==
    LET s == sessions[n][p] IN
    /\ IsEstablished(n, p)
    /\ Cardinality(sent) < MaxSent
    /\ sent' = sent \cup {[from |-> n, to |-> p, key |-> derive_session_keys(s).tx,
                           nonce |-> s.nonce_counter, data |-> d]}
    /\ sessions' = [sessions EXCEPT ![n][p].last_activity = clock(n)]

\* Session::encrypt_message; of the nonce only the counter is kept, the random
\* bytes may repeat.
Encrypt(n, p, d) ==
    LET s == sessions[n][p] IN
    /\ IsEstablished(n, p)
    /\ Cardinality(sent) < MaxSent
    /\ sent' = sent \cup {[from |-> n, to |-> p, key |-> derive_session_keys(s).tx,
                           nonce |-> s.nonce_counter, data |-> d]}
    /\ sessions' = [sessions EXCEPT ![n][p].nonce_counter = @ + 1,
                                    ![n][p].last_activity = clock(n)]

\* On the session itself: a responder has no connection.
encrypt_message(n, p, d) ==
    /\ Encrypt(n, p, d)
    /\ UNCHANGED <<connections, failures, last_attempt, made, wire, now, skew>>

send_to_peer(n, p, d) ==
    /\ connections[n][p] # None
    /\ sessions[n][p] # None
    /\ sessions[n][p].key = connections[n][p].session
    /\ Encrypt(n, p, d)
    /\ connections' = [connections EXCEPT ![n][p].last_activity = clock(n)]
    /\ UNCHANGED <<failures, last_attempt, made, wire, now, skew>>

\* Nothing remembers the nonces: a repeated ciphertext is accepted again.
decrypt_message(n, p, c) ==
    /\ IsEstablished(n, p)
    /\ derive_session_keys(sessions[n][p]).rx = c.key
    /\ sessions' = [sessions EXCEPT ![n][p].last_activity = clock(n)]
    /\ UNCHANGED <<connections, failures, last_attempt, made, wire, sent, now, skew>>

close_session(n, p) ==
    /\ sessions[n][p] # None
    /\ sessions' = [sessions EXCEPT ![n][p] = None]
    /\ UNCHANGED <<connections, failures, last_attempt, made, wire, sent, now, skew>>

cleanup_stale_sessions(n) ==
    /\ sessions' = [sessions EXCEPT ![n] = [p \in Node |->
          IF @[p] # None /\ has_timed_out(@[p], n) THEN None ELSE @[p]]]
    /\ UNCHANGED <<connections, failures, last_attempt, made, wire, sent, now, skew>>

Tick ==
    /\ now < MaxTime
    /\ now' = now + 1
    /\ UNCHANGED <<sessions, connections, failures, last_attempt, made, wire, sent, skew>>

Next ==
    \/ \E n \in Node : \E p \in Node \ {n} :
          \/ connect_to_peer(n, p)
          \/ disconnect_peer(n, p)
          \/ send_handshake_response(n, p)
          \/ close_session(n, p)
          \/ \E d \in Data : encrypt_message(n, p, d) \/ send_to_peer(n, p, d)
          \/ \E c \in sent : decrypt_message(n, p, c)
    \/ \E n \in Node :
          \/ maintain_peer_connections(n)
          \/ attempt_reconnections(n)
          \/ cleanup_stale_sessions(n)
    \/ \E m \in wire : handle_inbound_handshake(m) \/ handle_handshake_response(m)
    \/ Tick

Spec == Init /\ [][Next]_vars

-----------------------------------------------------------------------------
(* Properties *)

\* A session is with another node, holds a key its node generated for that
\* peer, and is established exactly when it has the key of the other side and
\* the handshake is over; failures stay within the limit.
TypeOK ==
    /\ now \in 0..MaxTime
    /\ skew \in [Node -> Skew]
    /\ made \in [Node -> [Node -> 0..MaxKeys]]
    /\ failures \in [Node -> [Node -> 0..MaxAttempts]]
    /\ \A n \in Node : sessions[n][n] = None /\ connections[n][n] = None
    /\ \A n \in Node, p \in Node :
          LET s == sessions[n][p] IN
          s # None =>
              /\ s.state \in {"HANDSHAKE_INIT", "HANDSHAKE_RESPONSE", "ESTABLISHED"}
              /\ \E k \in 1..made[n][p] : s.key = Key(n, p, k)
              /\ s.remote = None <=> s.state = "HANDSHAKE_INIT"
              /\ s.state = "HANDSHAKE_INIT" => s.initiator
              /\ s.last_activity <= clock(n)

\* "Nonce generation (must be unique per message)" (session.hpp): no key and
\* nonce ever encrypt two messages, across all sessions two nodes have one
\* after the other and whatever handshakes are lost, repeated or crossed.
NonceNeverReused ==
    \A c, d \in sent : c.key = d.key /\ c.nonce = d.nonce => c = d

\* What a session can decrypt was encrypted by its peer for this node, never
\* by the node itself and never for another session.
OnlyPeersMessages ==
    \A n, p \in Node : \A c \in sent :
        IsEstablished(n, p) /\ derive_session_keys(sessions[n][p]).rx = c.key =>
            c.from = p /\ c.to = n

\* An inbound handshake, which may be an old copy, never displaces a session
\* that has not timed out ("active session already exists", session.cpp), and
\* an established session never changes its keys.
ActiveSessionKept ==
    [][ \A n, p \in Node :
          LET s == sessions[n][p]
              t == sessions'[n][p]
          IN  s # None /\ t # None =>
                  \/ has_timed_out(s, n)
                  \/ t.key = s.key /\ (s.state = "ESTABLISHED" => t.remote = s.remote) ]_vars

\* "Session* session;  // Owned by SessionManager" (peer.hpp): the session an
\* active connection points to exists.
ConnectionHasSession ==
    \A n, p \in Node :
        connections[n][p] # None =>
            /\ sessions[n][p] # None
            /\ sessions[n][p].key = connections[n][p].session

\* A session is a channel between two nodes: no key encrypts two messages with
\* one nonce, and only the peer's messages decrypt.
ChannelSound == TypeOK /\ NonceNeverReused /\ OnlyPeersMessages
=============================================================================
