--------------------------- MODULE ConnectionGuard ---------------------------
(***************************************************************************)
(* AttackPreventionCoordinator of security/attack_prevention.cpp with its  *)
(* DDoSMitigation and ForkDetector: which connections and signatures of    *)
(* which nodes are let in.                                                 *)
(*                                                                         *)
(* A caller first asks (validate_incoming_connection) and tells later that *)
(* the connection stands and that it has gone; other callers come between. *)
(* Requests are for modules RateLimiter and SybilDefense.                  *)
(***************************************************************************)
EXTENDS Integers, FiniteSets

CONSTANTS
    Ip, Node, SigningKey,
    Caller,          \* the connections that callers bring
    MaxPerIp,        \* MAX_CONNECTIONS_PER_IP (10)
    BlockTime,       \* 3600 seconds
    CleanupEvery,    \* 300 seconds
    MaxCount,        \* bound: count of an address (switching leaves connections in it)
    MaxTime          \* bound: last time explored

VARIABLES
    active,          \* active[ip]: active_connections
    blocked_until,   \* blocked_until[ip]: expiry_time in blocked_ips_, 0 if absent
    node_keys,       \* node_keys_[n]: the keys recorded
    forked,          \* forked_nodes_
    enabled,         \* ddos_mitigation_enabled_
    last_cleanup,
    now,
    callers,         \* callers[c]: its state, and its ip and node once validated
    switched,        \* whether the mitigation was ever switched (history)
    claims           \* claims[n]: keys with which n came (history)

guard == <<active, blocked_until, node_keys, forked, enabled, last_cleanup>>
vars == <<active, blocked_until, node_keys, forked, enabled, last_cleanup, now, callers, switched, claims>>

Idle == [at |-> "idle"]
At(where, ip, n) == [at |-> where, ip |-> ip, node |-> n]

is_blocked(ip) == now < blocked_until[ip]

exceeds_connection_limit(ip) == active[ip] >= MaxPerIp

block_ip(ip) == blocked_until' = [blocked_until EXCEPT ![ip] = now + BlockTime]

Init ==
    /\ active = [ip \in Ip |-> 0]
    /\ blocked_until = [ip \in Ip |-> 0]
    /\ node_keys = [n \in Node |-> {}]
    /\ forked = {}
    /\ enabled = TRUE
    /\ last_cleanup = 0
    /\ now = 0
    /\ callers = [c \in Caller |-> Idle]
    /\ switched = FALSE
    /\ claims = [n \in Node |-> {}]

\* allow_connection blocks the address of a caller above the limit.
allow_connection(ip) == ~is_blocked(ip) /\ ~exceeds_connection_limit(ip)

Blocks(ip) == enabled /\ ~is_blocked(ip) /\ exceeds_connection_limit(ip)

validate_incoming_connection(c, ip, n) ==
    /\ callers[c] = Idle
    /\ IF Blocks(ip) THEN block_ip(ip) ELSE UNCHANGED blocked_until
    /\ callers' = [callers EXCEPT ![c] = IF (enabled => allow_connection(ip)) /\ n \notin forked
                                         THEN At("validated", ip, n) ELSE Idle]
    /\ UNCHANGED <<active, node_keys, forked, enabled, last_cleanup, now, switched, claims>>

\* Mutant: a connection whose address has been blocked meanwhile is counted and
\* dropped.
established_unless_blocked(c) ==
    /\ callers[c].at = "validated" /\ active[callers[c].ip] < MaxCount
    /\ active' = IF enabled THEN [active EXCEPT ![callers[c].ip] = @ + 1] ELSE active
    /\ callers' = [callers EXCEPT ![c] = IF is_blocked(@.ip) THEN Idle ELSE [@ EXCEPT !.at = "open"]]
    /\ UNCHANGED <<blocked_until, node_keys, forked, enabled, last_cleanup, now, switched, claims>>

on_connection_established(c) ==
    /\ callers[c].at = "validated" /\ active[callers[c].ip] < MaxCount
    /\ active' = IF enabled THEN [active EXCEPT ![callers[c].ip] = @ + 1] ELSE active
    /\ callers' = [callers EXCEPT ![c] = [@ EXCEPT !.at = "open"]]
    /\ UNCHANGED <<blocked_until, node_keys, forked, enabled, last_cleanup, now, switched, claims>>

on_connection_closed(c) ==
    /\ callers[c].at = "open"
    /\ active' = IF enabled /\ active[callers[c].ip] > 0 THEN [active EXCEPT ![callers[c].ip] = @ - 1] ELSE active
    /\ callers' = [callers EXCEPT ![c] = Idle]
    /\ UNCHANGED <<blocked_until, node_keys, forked, enabled, last_cleanup, now, switched, claims>>

\* The first key is recorded, another one marks the node for good.
detect_fork(n, key) ==
    /\ claims' = [claims EXCEPT ![n] = @ \cup {key}]
    /\ node_keys' = IF node_keys[n] = {} THEN [node_keys EXCEPT ![n] = {key}] ELSE node_keys
    /\ forked' = IF node_keys[n] # {} /\ key \notin node_keys[n] THEN forked \cup {n} ELSE forked
    /\ UNCHANGED <<active, blocked_until, enabled, last_cleanup, now, callers, switched>>

\* A caller that knows of a change of keys has the new one recorded.
record_node_key(n, key) ==
    /\ node_keys' = [node_keys EXCEPT ![n] = @ \cup {key}]
    /\ UNCHANGED <<active, blocked_until, forked, enabled, last_cleanup, now, callers, switched, claims>>

\* Whether a signature by a key passes for that of node n.
verify_signature_consistency(n, key) == node_keys[n] = {} \/ key \in node_keys[n]

enable_ddos_mitigation(on) ==
    /\ enabled # on
    /\ enabled' = on
    /\ switched' = TRUE
    /\ UNCHANGED <<active, blocked_until, node_keys, forked, last_cleanup, now, callers, claims>>

cleanup_expired_blocks ==
    blocked_until' = [ip \in Ip |-> IF now >= blocked_until[ip] THEN 0 ELSE blocked_until[ip]]

tick ==
    /\ now - last_cleanup >= CleanupEvery
    /\ cleanup_expired_blocks
    /\ last_cleanup' = now
    /\ UNCHANGED <<active, node_keys, forked, enabled, now, callers, switched, claims>>

Tick ==
    /\ now < MaxTime
    /\ now' = now + 1
    /\ UNCHANGED <<active, blocked_until, node_keys, forked, enabled, last_cleanup, callers, switched, claims>>

Next ==
    \/ \E c \in Caller :
          \/ \E ip \in Ip, n \in Node : validate_incoming_connection(c, ip, n)
          \/ on_connection_established(c)
          \/ on_connection_closed(c)
    \/ \E n \in Node, key \in SigningKey : detect_fork(n, key) \/ record_node_key(n, key)
    \/ \E on \in BOOLEAN : enable_ddos_mitigation(on)
    \/ tick
    \/ Tick

Spec == Init /\ [][Next]_vars

-----------------------------------------------------------------------------

Open(ip) == {c \in Caller : callers[c].at = "open" /\ callers[c].ip = ip}

\* As long as the mitigation is not switched while connections stand, the count
\* of an address is that of its open connections, whatever callers come between
\* the question and the record.  A node is marked as forked only if two keys are
\* known of it, and one that came with a key whose signatures do not pass for
\* its own is marked.
CountsTrue ==
    /\ ~switched => \A ip \in Ip : active[ip] = Cardinality(Open(ip))
    /\ \A n \in forked : claims[n] # {} /\ Cardinality(node_keys[n] \cup claims[n]) > 1
    /\ \A n \in Node : claims[n] \subseteq {key \in SigningKey : verify_signature_consistency(n, key)} \/ n \in forked
=============================================================================
