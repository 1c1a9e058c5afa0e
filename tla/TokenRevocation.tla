--------------------------- MODULE TokenRevocation ---------------------------
(***************************************************************************)
(* TokenRevocationManager of security/token_revocation.cpp: every node     *)
(* keeps a list of revoked capability tokens and exchanges it with others  *)
(* by lists that may be lost, repeated and overtaken (a list stays on the  *)
(* wire and may be taken any time, again, or never).                       *)
(*                                                                         *)
(* A revocation is its own identifier (get_id hashes all its fields but    *)
(* the signature).  An entry's witnesses and times are not read.           *)
(***************************************************************************)
EXTENDS Integers, FiniteSets

CONSTANTS
    Node,            \* managers
    Holder,          \* nodes that hold tokens
    Context,         \* contexts of tokens and revocations
    NoContext,
    TokenLife,       \* 3600 seconds
    RevocationLife,  \* revocation_expiry_days_ in seconds
    Skew,            \* 300 seconds
    Recent,          \* 3600 seconds
    MaxPerNode,      \* max_revocations_per_node_
    MaxRevocations,  \* bound: revocations ever made
    MaxTime          \* bound: last time explored

VARIABLES
    revocations,     \* revocations[n]: revocations_ of the manager of n
    by_node,         \* by_node[n][h]: revocations_by_node_
    seen,            \* seen[n]: seen_revocations_
    wire,            \* lists sent
    now,
    made,            \* revocations ever made (history)
    stopped          \* <<n, t>>: n has answered that token t is revoked (history)

vars == <<revocations, by_node, seen, wire, now, made, stopped>>

\* Tokens that may be shown, of every time of issue.
Token == [node : Holder, context : Context \cup {NoContext}, issued_at : 0..MaxTime]

Revocation(h, ctx, who) == [node |-> h, context |-> ctx, revoked_at |-> now, revoker |-> who]

\* Revocations and tokens are of one capability.
matches_token(r, t) ==
    /\ r.node = t.node
    /\ NoContext \in {r.context, t.context} \/ r.context = t.context
    /\ t.issued_at < r.revoked_at

is_token_revoked(n, t) == \E r \in by_node[n][t.node] : r \in revocations[n] /\ matches_token(r, t)

\* Mutant: days taken for something shorter.
is_revocation_expired_days(r) == now >= r.revoked_at + 1

is_revocation_expired(r) == now >= r.revoked_at + RevocationLife

TooMany(n, h) == Cardinality(by_node[n][h]) >= MaxPerNode

Acceptable(r) == ~is_revocation_expired(r) /\ r.revoked_at <= now + Skew

Init ==
    /\ revocations = [n \in Node |-> {}]
    /\ by_node = [n \in Node |-> [h \in Holder |-> {}]]
    /\ seen = [n \in Node |-> {}]
    /\ wire = {}
    /\ now = 0
    /\ made = {}
    /\ stopped = {}

\* Not entered among the seen: the node's own revocation is taken again when
\* it comes back.
revoke_token(n, h, ctx) ==
    LET r == Revocation(h, ctx, n) IN
    /\ Cardinality(made) < MaxRevocations
    /\ ~TooMany(n, h)
    /\ revocations' = [revocations EXCEPT ![n] = @ \cup {r}]
    /\ by_node' = [by_node EXCEPT ![n][h] = @ \cup {r}]
    /\ made' = made \cup {r}
    /\ UNCHANGED <<seen, wire, now, stopped>>

\* All revocations, or the recent ones.
create_revocation_list(n, all) ==
    {r \in revocations[n] : all \/ r.revoked_at >= now - Recent}

\* The message: to_bytes and from_bytes keep the revocations.
RevocationListUpdate(list) == [revocations |-> list]

Send(n, all) ==
    /\ wire' = wire \cup {RevocationListUpdate(create_revocation_list(n, all))}
    /\ UNCHANGED <<revocations, by_node, seen, now, made, stopped>>

\* Of the entries of list that are new and acceptable, taken in the order of
\* their hashes, those that find room.
should_accept_revocation(n, list) ==
    LET fresh == {r \in list : r \notin seen[n] /\ Acceptable(r)} IN
    {s \in SUBSET fresh : \A h \in Holder :
        LET new(set) == {r \in set : r.node = h}
        IN  /\ new(s) # {} => Cardinality(by_node[n][h]) < MaxPerNode /\ Cardinality(by_node[n][h] \cup new(s)) <= MaxPerNode
            /\ new(s) # new(fresh) => Cardinality(by_node[n][h] \cup new(s)) >= MaxPerNode}

process_revocation_list(n, list) ==
    /\ \E accepted \in should_accept_revocation(n, list) :
          /\ revocations' = [revocations EXCEPT ![n] = @ \cup accepted]
          /\ by_node' = [by_node EXCEPT ![n] = [h \in Holder |-> @[h] \cup {r \in accepted : r.node = h}]]
          /\ seen' = [seen EXCEPT ![n] = @ \cup accepted]
    /\ UNCHANGED <<wire, now, made, stopped>>

cleanup_expired_revocations(n) ==
    LET gone == {r \in revocations[n] : is_revocation_expired(r)} IN
    /\ revocations' = [revocations EXCEPT ![n] = @ \ gone]
    /\ by_node' = [by_node EXCEPT ![n] = [h \in Holder |-> @[h] \ gone]]
    /\ seen' = [seen EXCEPT ![n] = @ \ gone]
    /\ UNCHANGED <<wire, now, made, stopped>>

\* A node that is shown a token asks its list; the first answer is followed.
Ask(n, t) ==
    /\ stopped = {}
    /\ t.issued_at <= now /\ is_token_revoked(n, t)
    /\ stopped' = stopped \cup {<<n, t>>}
    /\ UNCHANGED <<revocations, by_node, seen, wire, now, made>>

Tick ==
    /\ now < MaxTime
    /\ now' = now + 1
    /\ UNCHANGED <<revocations, by_node, seen, wire, made, stopped>>

Next ==
    \/ \E n \in Node :
          \/ \E h \in Holder, ctx \in Context \cup {NoContext} : revoke_token(n, h, ctx)
          \/ \E all \in BOOLEAN : Send(n, all)
          \/ \E update \in wire : process_revocation_list(n, update.revocations)
          \/ cleanup_expired_revocations(n)
          \/ \E t \in Token : Ask(n, t)
    \/ Tick

Spec == Init /\ [][Next]_vars

-----------------------------------------------------------------------------

\* "Old revocations expire after 30 days" and a token lives an hour
\* (token_revocation.hpp, access.cpp): a node that once refused a token refuses
\* it until the token has expired, whatever lists arrive, are cleaned up,
\* repeated or lost in between; and the index never hides an entry of the list.
RefusedUntilExpiry ==
    /\ \A p \in stopped : now < p[2].issued_at + TokenLife => is_token_revoked(p[1], p[2])
    /\ \A n \in Node : UNION {by_node[n][h] : h \in Holder} = revocations[n]
=============================================================================
