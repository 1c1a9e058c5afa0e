---------------------------- MODULE KeyRevocation ----------------------------
(***************************************************************************)
(* KeyRevocationBroadcaster of security/key_revocation.cpp: revoked keys,  *)
(* their replacements, and the lists that carry them to other nodes.       *)
(*                                                                         *)
(* Callers sign what they make: every signature of a revocation verifies.  *)
(* The certificate of a rotation is "signed", "none" or, once it has been  *)
(* through to_bytes and from_bytes, "unsigned": its signature is not among *)
(* the bytes.  A list stays on the wire and may be taken any time, again,  *)
(* or never.                                                               *)
(***************************************************************************)
EXTENDS Integers, FiniteSets

CONSTANTS
    Node,
    SigningKey,
    NoKey,
    NoRevocation,
    RevocationLife,  \* revocation_expiry_days_ in seconds (365 days)
    Skew,            \* 300 seconds
    Recent,          \* 3600 seconds
    MaxRevocations,  \* bound: revocations ever made
    MaxTime          \* bound: last time explored

VARIABLES
    revocations,     \* revocations[n][k]: revocations_ of n
    replacements,    \* replacements[n][k]: key_replacements_ of n
    seen,            \* seen[n]: seen_revocations_ of n
    wire,            \* lists sent
    now,
    made,            \* revocations made (history)
    taken            \* <<n, r>>: r was in a list that n has processed in time (history)

vars == <<revocations, replacements, seen, wire, now, made, taken>>

is_key_revoked(n, k) == revocations[n][k] # NoRevocation

get_replacement_key(n, k) == replacements[n][k]

\* Hash of key, reason and time: neither revoker nor replacement.
get_id(r) == <<r.key, r.revoked_at>>

is_revocation_expired(r) == now >= r.revoked_at + RevocationLife

\* The certificate is verified with the signature that it no longer has.
should_accept_revocation(r) ==
    /\ ~is_revocation_expired(r)
    /\ r.revoked_at <= now + Skew
    /\ r.cert # "unsigned"

Init ==
    /\ revocations = [n \in Node |-> [k \in SigningKey |-> NoRevocation]]
    /\ replacements = [n \in Node |-> [k \in SigningKey |-> NoKey]]
    /\ seen = [n \in Node |-> {}]
    /\ wire = {}
    /\ now = 0
    /\ made = {}
    /\ taken = {}

\* The replacement of r, or the one that was there.
Replaced(old, r) == IF r.replacement = NoKey THEN old ELSE r.replacement

revoke_key(n, k, new, cert) ==
    LET r == [key |-> k, revoked_at |-> now, revoker |-> n, replacement |-> new, cert |-> cert] IN
    /\ Cardinality(made) < MaxRevocations
    /\ ~is_key_revoked(n, k)
    /\ revocations' = [revocations EXCEPT ![n][k] = r]
    /\ replacements' = [replacements EXCEPT ![n][k] = Replaced(@, r)]
    /\ made' = made \cup {r}
    /\ UNCHANGED <<seen, wire, now, taken>>

\* What from_bytes makes of to_bytes.
from_bytes(r) == IF r.cert = "none" THEN r ELSE [r EXCEPT !.cert = "unsigned"]

create_revocation_list(n, all) ==
    {revocations[n][k] : k \in {j \in SigningKey : is_key_revoked(n, j) /\ (all \/ revocations[n][j].revoked_at >= now - Recent)}}

\* The message, as it is read at the other end.
KeyRevocationList(list) == [revocations |-> {from_bytes(r) : r \in list}]

Send(n, all) ==
    /\ wire' = wire \cup {KeyRevocationList(create_revocation_list(n, all))}
    /\ UNCHANGED <<revocations, replacements, seen, now, made, taken>>

\* A list has at most one revocation of a key, so that the order of its entries
\* does not matter.  What is accepted replaces what was there, older or newer.
process_revocation_list(n, list) ==
    LET accepted == {r \in list : get_id(r) \notin seen[n] /\ should_accept_revocation(r)}
        For(k) == {r \in accepted : r.key = k}
    IN  /\ revocations' = [revocations EXCEPT ![n] =
              [k \in SigningKey |-> IF For(k) = {} THEN @[k] ELSE CHOOSE r \in For(k) : TRUE]]
        /\ replacements' = [replacements EXCEPT ![n] =
              [k \in SigningKey |-> IF For(k) = {} THEN @[k] ELSE Replaced(@[k], CHOOSE r \in For(k) : TRUE)]]
        /\ seen' = [seen EXCEPT ![n] = @ \cup {get_id(r) : r \in accepted}]
        /\ taken' = taken \cup {<<n, r>> : r \in {q \in list : ~is_revocation_expired(q)}}
        /\ UNCHANGED <<wire, now, made>>

\* Mutant: replacements stay behind.
cleanup_keeps_replacements(n) ==
    /\ revocations' = [revocations EXCEPT ![n] =
          [k \in SigningKey |-> IF is_key_revoked(n, k) /\ is_revocation_expired(@[k]) THEN NoRevocation ELSE @[k]]]
    /\ UNCHANGED <<replacements, seen, wire, now, made, taken>>

cleanup_expired_revocations(n) ==
    LET gone == {k \in SigningKey : is_key_revoked(n, k) /\ is_revocation_expired(revocations[n][k])} IN
    /\ revocations' = [revocations EXCEPT ![n] = [k \in SigningKey |-> IF k \in gone THEN NoRevocation ELSE @[k]]]
    /\ replacements' = [replacements EXCEPT ![n] = [k \in SigningKey |-> IF k \in gone THEN NoKey ELSE @[k]]]
    /\ UNCHANGED <<seen, wire, now, made, taken>>

Tick ==
    /\ now < MaxTime
    /\ now' = now + 1
    /\ UNCHANGED <<revocations, replacements, seen, wire, made, taken>>

Next ==
    \/ \E n \in Node :
          \/ \E k \in SigningKey :
                \/ revoke_key(n, k, NoKey, "none")
                \/ \E new \in SigningKey \ {k} : revoke_key(n, k, new, "none")
                \/ \E new \in SigningKey \ {k} : revoke_key(n, k, new, "signed")
          \/ \E all \in BOOLEAN : Send(n, all)
          \/ \E message \in wire : process_revocation_list(n, message.revocations)
          \/ cleanup_expired_revocations(n)
    \/ Tick

Spec == Init /\ [][Next]_vars

-----------------------------------------------------------------------------

\* get_replacement_key answers for revoked keys only, and with the replacement
\* of a revocation that somebody made and that has not been forgotten everywhere
\* (key_revocation.hpp, "The new key if revocation included one"), through
\* revocations of one key by two nodes, old ones that arrive late and cleaning.
ReplacementBacked ==
    \A n \in Node, k \in SigningKey : get_replacement_key(n, k) # NoKey =>
        /\ is_key_revoked(n, k)
        /\ \E r \in made : r.key = k /\ r.replacement = get_replacement_key(n, k)

\* "Network-wide gossip - Revocations propagated to all peers", "Include rotation
\* certificate as proof" (key_revocation.hpp): a node that has processed a
\* revocation in time has the key revoked until the revocation expires.
RotationPropagates ==
    \A p \in taken : is_revocation_expired(p[2]) \/ is_key_revoked(p[1], p[2].key)
=============================================================================
