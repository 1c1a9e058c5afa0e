----------------------------- MODULE MCSecurity -----------------------------
(***************************************************************************)
(* Sessions and what decides whom a node talks to and what they may do:    *)
(* the connection limits, the request limits and the search for groups of  *)
(* attack prevention, access control, and the revocations of tokens and    *)
(* keys. Only their callers connect them, so each behaviour follows one of *)
(* them, chosen by part: a behaviour of all together projects to one of    *)
(* each. The values TLC checks it for are in the .cfg file.                *)
(***************************************************************************)
EXTENDS Sessions, Sequences, TLC

CONSTANTS
    Peer, Holder, Address, Account, Caller, Network, Context, SigningKey,
    NoNetwork, NoContext, NoKey, NoRevocation, First, Second, Third, MaxPerIp,
    BlockTime, CleanupEvery, MaxCount, GuardMaxTime, Minute, Hour, Stale,
    PerMinute, PerHour, Burst, LimiterMaxTime, Nodes, Activity, MaxLog,
    KeyType, Balance, Score, AccessTokenLife, MaxTokens, AccessMaxTime,
    TokensTokenLife, TokensRevocationLife, TokensSkew, TokensRecent,
    MaxPerNode, TokensMaxRevocations, TokensMaxTime, KeysRevocationLife,
    KeysSkew, KeysRecent, KeysMaxRevocations, KeysMaxTime

ASSUME GuardAssumption == IsFiniteSet(Caller) /\ IsFiniteSet(SigningKey)

\* The key types the default policies name; NoNetwork is no network.
ASSUME AccessAssumption ==
    /\ {"IDENTITY", "NETWORK", "SERVICE", "ROUTING"} \subseteq KeyType /\ "ANY" \notin KeyType
    /\ Balance \subseteq Nat /\ Score \subseteq Int
    /\ NoNetwork \notin Network

\* A revocation outlives the tokens it is about.
ASSUME TokensAssumption ==
    /\ TokensTokenLife \in Nat /\ TokensRevocationLife \in Nat /\ TokensMaxTime \in Nat
    /\ TokensTokenLife <= TokensRevocationLife

ASSUME KeysAssumption ==
    NoRevocation \notin [key : SigningKey, revoked_at : Nat, revoker : Peer,
                         replacement : SigningKey \cup {NoKey}, cert : {"none", "signed", "unsigned"}]

\* A bucket that goes stale has had the time to fill, and its hour is over.
\* The times are literals of the code, and its default policy has PerMinute =
\* 60, PerHour = 1000 and Burst = 10.
ASSUME LimiterAssumption ==
    /\ {Minute, Hour, LimiterMaxTime} \subseteq Nat \ {0} /\ {Stale, PerMinute, PerHour, Burst} \subseteq Nat
    /\ Hour <= Stale /\ Burst * Minute <= Stale * PerMinute

ASSUME SearchAssumption == Nodes \in Seq({Nodes[i] : i \in DOMAIN Nodes})

VARIABLES
    part,
    active, blocked_until, node_keys, forked, enabled, last_cleanup,
    guard_now, callers, switched, claims,
    bucket, limiter_now, allowed,
    activity_log,
    policies, access_active, balances, reputation, roles, tokens, access_now,
    revocations, by_node, seen, token_wire, token_now, token_made, stopped,
    key_revocations, replacements, key_seen, key_wire, key_now, key_made,
    taken

\* The nodes the search goes through.
Three == <<First, Second, Third>>

G == INSTANCE ConnectionGuard WITH
    Ip <- Address, Node <- Account, MaxTime <- GuardMaxTime, now <- guard_now

L == INSTANCE RateLimiter WITH
    MaxTime <- LimiterMaxTime, now <- limiter_now

Y == INSTANCE SybilDefense

A == INSTANCE Access WITH
    Node <- Account, TokenLife <- AccessTokenLife, MaxTime <- AccessMaxTime,
    active <- access_active, now <- access_now

T == INSTANCE TokenRevocation WITH
    Node <- Peer, TokenLife <- TokensTokenLife,
    RevocationLife <- TokensRevocationLife, Skew <- TokensSkew,
    Recent <- TokensRecent, MaxRevocations <- TokensMaxRevocations,
    MaxTime <- TokensMaxTime, wire <- token_wire, now <- token_now,
    made <- token_made

K == INSTANCE KeyRevocation WITH
    Node <- Peer, RevocationLife <- KeysRevocationLife, Skew <- KeysSkew,
    Recent <- KeysRecent, MaxRevocations <- KeysMaxRevocations,
    MaxTime <- KeysMaxTime, revocations <- key_revocations, seen <- key_seen,
    wire <- key_wire, now <- key_now, made <- key_made

G_vars == <<active, blocked_until, node_keys, forked, enabled, last_cleanup,
        guard_now, callers, switched, claims>>
L_vars == <<bucket, limiter_now, allowed>>
Y_vars == <<activity_log>>
A_vars == <<policies, access_active, balances, reputation, roles, tokens,
        access_now>>
T_vars == <<revocations, by_node, seen, token_wire, token_now, token_made, stopped>>
K_vars == <<key_revocations, replacements, key_seen, key_wire, key_now, key_made,
        taken>>

all_vars == <<part, vars, G_vars, L_vars, Y_vars, A_vars, T_vars, K_vars>>

SecurityInit ==
    /\ part \in {"sessions", "guard", "limiter", "sybil", "access", "tokens",
                 "keys"}
    /\ Init
    /\ IF part = "guard" THEN G!Init
       ELSE /\ active = 0 /\ blocked_until = 0 /\ node_keys = 0
            /\ forked = 0 /\ enabled = 0 /\ last_cleanup = 0
            /\ guard_now = 0 /\ callers = 0 /\ switched = 0 /\ claims = 0
    /\ IF part = "limiter" THEN L!Init
       ELSE bucket = 0 /\ limiter_now = 0 /\ allowed = 0
    /\ IF part = "sybil" THEN Y!Init
       ELSE activity_log = 0
    /\ IF part = "access" THEN A!Init
       ELSE /\ policies = 0 /\ access_active = 0 /\ balances = 0
            /\ reputation = 0 /\ roles = 0 /\ tokens = 0
            /\ access_now = 0
    /\ IF part = "tokens" THEN T!Init
       ELSE /\ revocations = 0 /\ by_node = 0 /\ seen = 0
            /\ token_wire = 0 /\ token_now = 0 /\ token_made = 0
            /\ stopped = 0
    /\ IF part = "keys" THEN K!Init
       ELSE /\ key_revocations = 0 /\ replacements = 0 /\ key_seen = 0
            /\ key_wire = 0 /\ key_now = 0 /\ key_made = 0 /\ taken = 0
    /\ (part = "sessions" \/ skew = [n \in Node |-> 0])

SecurityNext ==
    \/ part = "sessions" /\ Next /\ UNCHANGED <<part, G_vars, L_vars, Y_vars, A_vars, T_vars, K_vars>>
    \/ part = "guard" /\ G!Next /\ UNCHANGED <<part, vars, L_vars, Y_vars, A_vars, T_vars, K_vars>>
    \/ part = "limiter" /\ L!Next /\ UNCHANGED <<part, vars, G_vars, Y_vars, A_vars, T_vars, K_vars>>
    \/ part = "sybil" /\ Y!Next /\ UNCHANGED <<part, vars, G_vars, L_vars, A_vars, T_vars, K_vars>>
    \/ part = "access" /\ A!Next /\ UNCHANGED <<part, vars, G_vars, L_vars, Y_vars, T_vars, K_vars>>
    \/ part = "tokens" /\ T!Next /\ UNCHANGED <<part, vars, G_vars, L_vars, Y_vars, A_vars, K_vars>>
    \/ part = "keys" /\ K!Next /\ UNCHANGED <<part, vars, G_vars, L_vars, Y_vars, A_vars, T_vars>>

SecuritySpec == SecurityInit /\ [][SecurityNext]_all_vars

\* Nodes and plaintexts are interchangeable.
Symmetry == Permutations(Node) \cup Permutations(Data)

\* The count of connections of an address is the number of its open ones,
\* whoever comes between the question and the record; only nodes with two keys
\* are marked as forked (ConnectionGuard).
CountsTrue == part = "guard" => G!CountsTrue

\* Over any stretch of time no more requests pass the RateLimiter than a burst
\* and the rate allow, whatever was cleaned up in it.
RateHolds == part = "limiter" => L!RateHolds

\* The groups detect_sybil_groups returns are disjoint, each is similar to one
\* of its members, and no two similar nodes are both left out (SybilDefense).
GroupsSound == part = "sybil" => Y!GroupsSound

\* The two ways to ask for a right agree under the default policies: what
\* check_access grants, the can_... function and the access level grant as
\* well, and no token for a right inside a network lacks the network (Access).
GatesAgree == part = "access" => A!GatesAgree

\* A node that refused a revoked token refuses it until the token expires,
\* through lost, repeated and expired revocations (TokenRevocation).
RefusedUntilExpiry == part = "tokens" => T!RefusedUntilExpiry

\* get_replacement_key answers for revoked keys only, and with a replacement
\* somebody announced, though revocations of one key by two nodes arrive in
\* any order and expire (KeyRevocation).
ReplacementBacked == part = "keys" => K!ReplacementBacked
=============================================================================
