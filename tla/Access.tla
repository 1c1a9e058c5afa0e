------------------------------- MODULE Access -------------------------------
(***************************************************************************)
(* AccessControl of security/access.cpp: policies, the checks of a request *)
(* against the state of the ledger, and capability tokens.                 *)
(*                                                                         *)
(* What the StateManager says of nodes and networks changes under the      *)
(* checks: LedgerChanges is any change that it may bring.                  *)
(***************************************************************************)
EXTENDS Integers, FiniteSets

CONSTANTS
    Node,
    Network,
    NoNetwork,       \* a request without a network
    KeyType,         \* types of keys, those of the policies among them
    Balance,         \* numbers of keys of a type
    Score,           \* reputation scores
    TokenLife,       \* 3600 seconds
    MaxTokens,       \* bound: tokens ever issued
    MaxTime          \* bound: last time explored

VARIABLES
    policies,        \* what set_policy made of policies_, by capability
    active,          \* nodes the StateManager has as active
    balances,        \* balances[n][t]: key_balances
    reputation,      \* reputation[n]
    roles,           \* roles[net][n]: role of a member, or "NONE"
    tokens,          \* tokens handed out
    now

ledger == <<active, balances, reputation, roles>>
vars == <<policies, active, balances, reputation, roles, tokens, now>>

-----------------------------------------------------------------------------
(* Policies *)

Policy(type, count, score, member, role) ==
    [key_type |-> type, key_count |-> count, min_reputation |-> score, membership |-> member, role |-> role,
     requires_pow |-> FALSE]

\* A capability without a policy gets the empty policy, which asks for nothing.
Free == Policy("ANY", 0, 0, FALSE, "ANY")

default_policies ==
    [VIEW_CONTENT |-> Free, DISCOVER_NETWORKS |-> Free, RELAY_TRAFFIC |-> Free,
     POST_CONTENT |-> Policy("ANY", 1, 0, FALSE, "ANY"),
     VOTE_ON_CONTENT |-> Policy("ANY", 1, 0, FALSE, "ANY"),
     CREATE_IDENTITY |-> Policy("ANY", 1, 0, FALSE, "ANY"),
     HOST_THINGS |-> Policy("SERVICE", 1, 0, FALSE, "ANY"),
     JOIN_NETWORKS |-> Policy("NETWORK", 1, 0, FALSE, "ANY"),
     ROUTE_TRAFFIC |-> Policy("ROUTING", 1, 0, FALSE, "ANY"),
     ISSUE_INVITATIONS |-> Policy("NETWORK", 1, 0, TRUE, "ANY"),
     VOUCH_FOR_NODES |-> Policy("ANY", 1, 100, FALSE, "ANY"),
     CREATE_NETWORK |-> Policy("NETWORK", 3, 50, FALSE, "ANY"),
     MODERATE_CONTENT |-> Policy("ANY", 0, 75, TRUE, "FULL"),
     REVOKE_KEYS |-> Policy("ANY", 0, 0, TRUE, "FOUNDER"),
     DISBAND_NETWORK |-> Policy("ANY", 0, 0, TRUE, "FOUNDER")]

Capability == DOMAIN default_policies

\* policies_[c].
policy(c) == IF c \in DOMAIN policies THEN policies[c] ELSE default_policies[c]

-----------------------------------------------------------------------------
(* Checks *)

has_any_keys(n) == \E t \in KeyType : balances[n][t] > 0

\* Mutant: the type of the key is not looked at.
check_key_requirements_typed(n, p) ==
    \/ p.key_count = 0
    \/ \E t \in KeyType : balances[n][t] >= p.key_count

check_key_requirements(n, p) ==
    \/ p.key_count = 0
    \/ p.key_type \in KeyType /\ balances[n][p.key_type] >= p.key_count
    \/ p.key_type \notin KeyType /\ has_any_keys(n)

check_reputation_requirements(n, p) == p.min_reputation = 0 \/ reputation[n] >= p.min_reputation

check_network_requirements(n, net, p) ==
    p.membership => roles[net][n] # "NONE" /\ p.role \in {"ANY", roles[net][n]}

\* The request names a network or not, and has a valid proof of work or not.
check_access(n, c, net, pow) ==
    LET p == policy(c) IN
    /\ n \in active
    /\ check_key_requirements(n, p)
    /\ check_reputation_requirements(n, p)
    /\ p.membership => net # NoNetwork /\ check_network_requirements(n, net, p)
    /\ p.requires_pow => pow

is_network_founder(n, net) == roles[net][n] = "FOUNDER"

HasKey(n, t) == n \in active /\ balances[n][t] >= 1

can_post_content(n) == has_any_keys(n)
can_host_things(n) == HasKey(n, "SERVICE")
can_route_traffic(n) == HasKey(n, "ROUTING")
can_join_network(n, net) == HasKey(n, "NETWORK") /\ roles[net][n] = "NONE"
can_vouch_for_node(n, m) == reputation[n] >= 100 /\ has_any_keys(n) /\ m \in active

can_create_network(n) ==
    LET p == policy("CREATE_NETWORK") IN check_key_requirements(n, p) /\ check_reputation_requirements(n, p)

can_issue_invitation(n, net) ==
    LET p == policy("ISSUE_INVITATIONS") IN check_key_requirements(n, p) /\ check_network_requirements(n, net, p)

can_moderate_content(n, net) ==
    LET p == policy("MODERATE_CONTENT")
    IN  check_reputation_requirements(n, p) /\ check_network_requirements(n, net, p)

can_revoke_keys(n, net) == is_network_founder(n, net)
can_disband_network(n, net) == is_network_founder(n, net)

\* Asks without a network: 0 for every right inside one.
count_nodes_with_capability(c) == Cardinality({n \in Node : check_access(n, c, NoNetwork, FALSE)})

\* IDENTIFIED is for a node without keys that has the identity key: nobody.
get_access_level(n) ==
    IF n \notin active \/ balances[n]["IDENTITY"] = 0 THEN "ANONYMOUS"
    ELSE IF ~has_any_keys(n) THEN "IDENTIFIED"
    ELSE IF reputation[n] >= 100 THEN "TRUSTED" ELSE "KEYED"

get_access_level_in_network(n, net) == IF is_network_founder(n, net) THEN "FOUNDER" ELSE get_access_level(n)

-----------------------------------------------------------------------------
(* Tokens *)

is_expired(t) == now >= t.expires_at

\* The signature is a digest of the other fields: a token nobody altered has it.
verify_token(t) == ~is_expired(t)

Init ==
    /\ policies = [c \in {} |-> Free]
    /\ active = {}
    /\ balances = [n \in Node |-> [t \in KeyType |-> 0]]
    /\ reputation = [n \in Node |-> 0]
    /\ roles = [net \in Network |-> [n \in Node |-> "NONE"]]
    /\ tokens = {}
    /\ now = 0

issue_token(n, c, net) ==
    /\ Cardinality(tokens) < MaxTokens
    /\ check_access(n, c, net, FALSE)
    /\ tokens' = tokens \cup {[node |-> n, capability |-> c, network |-> net, expires_at |-> now + TokenLife]}
    /\ UNCHANGED <<policies, active, balances, reputation, roles, now>>

set_policy(c, p) ==
    /\ policies' = [d \in DOMAIN policies \cup {c} |-> IF d = c THEN p ELSE policies[d]]
    /\ UNCHANGED <<active, balances, reputation, roles, tokens, now>>

LedgerChanges(n) ==
    /\ \/ /\ active' = IF n \in active THEN active \ {n} ELSE active \cup {n}
          /\ UNCHANGED <<balances, reputation, roles>>
       \/ /\ \E t \in KeyType, b \in Balance :
                b # balances[n][t] /\ balances' = [balances EXCEPT ![n][t] = b]
          /\ UNCHANGED <<active, reputation, roles>>
       \/ /\ \E s \in Score \ {reputation[n]} : reputation' = [reputation EXCEPT ![n] = s]
          /\ UNCHANGED <<active, balances, roles>>
       \/ /\ \E net \in Network, r \in {"NONE", "FULL", "FOUNDER"} :
                r # roles[net][n] /\ roles' = [roles EXCEPT ![net][n] = r]
          /\ UNCHANGED <<active, balances, reputation>>
    /\ UNCHANGED <<policies, tokens, now>>

Tick ==
    /\ now < MaxTime
    /\ now' = now + 1
    /\ UNCHANGED <<policies, active, balances, reputation, roles, tokens>>

Next ==
    \/ \E n \in Node, c \in Capability, net \in Network \cup {NoNetwork} : issue_token(n, c, net)
    \/ \E n \in Node : LedgerChanges(n)
    \/ set_policy("HOST_THINGS", Free)
    \/ set_policy("POST_CONTENT", [Free EXCEPT !.requires_pow = TRUE])
    \/ Tick

Spec == Init /\ [][Next]_vars

-----------------------------------------------------------------------------

\* "Viewing is free, but to *do* stuff you need keys" (access.hpp): the two ways
\* to ask agree.  Whatever check_access grants under the default policies, the
\* can_... function of the same right grants as well, a level is never above
\* the rights behind it, and a token for a right inside a network names one (so
\* that counting the nodes with such a right counts nobody).
GatesAgree ==
    /\ \A n \in Node, net \in Network \cup {NoNetwork} :
          /\ policy("POST_CONTENT").requires_pow => ~check_access(n, "POST_CONTENT", net, FALSE)
          /\ check_access(n, "POST_CONTENT", net, FALSE) => can_post_content(n)
          /\ policy("HOST_THINGS") # Free => check_access(n, "HOST_THINGS", net, FALSE) = can_host_things(n)
          /\ check_access(n, "ROUTE_TRAFFIC", net, FALSE) = can_route_traffic(n)
          /\ check_access(n, "CREATE_NETWORK", net, FALSE) => can_create_network(n)
          /\ check_access(n, "VOUCH_FOR_NODES", net, FALSE) => can_vouch_for_node(n, n)
          /\ get_access_level(n) \in {"KEYED", "TRUSTED"} =>
                policy("POST_CONTENT").requires_pow \/ check_access(n, "POST_CONTENT", net, FALSE)
          /\ get_access_level(n) = "TRUSTED" => check_access(n, "VOUCH_FOR_NODES", net, FALSE)
    /\ \A n \in Node, net \in Network :
          /\ can_join_network(n, net) => check_access(n, "JOIN_NETWORKS", net, FALSE)
          /\ check_access(n, "ISSUE_INVITATIONS", net, FALSE) => can_issue_invitation(n, net)
          /\ check_access(n, "MODERATE_CONTENT", net, FALSE) => can_moderate_content(n, net)
          /\ check_access(n, "REVOKE_KEYS", net, FALSE) => can_revoke_keys(n, net)
          /\ check_access(n, "DISBAND_NETWORK", net, FALSE) =>
                can_disband_network(n, net) /\ get_access_level_in_network(n, net) = "FOUNDER"
    /\ \A c \in Capability : default_policies[c].membership => count_nodes_with_capability(c) = 0
    /\ \A t \in tokens : verify_token(t) /\ default_policies[t.capability].membership => t.network # NoNetwork
=============================================================================
