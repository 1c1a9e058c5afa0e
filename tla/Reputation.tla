----------------------------- MODULE Reputation -----------------------------
(***************************************************************************)
(* ReputationManager of core/reputation/reputation.cpp and the             *)
(* VouchingWorkflow of attestation.cpp on top of it: scores, attestations, *)
(* vouches and which node trusts which.                                    *)
(*                                                                         *)
(* Component scores, counters and the list of recent events are kept by    *)
(* the same statements as the total and read by nobody; they are left out. *)
(* The weights of the edges belong to module TrustGraph; here an edge is   *)
(* there or not.                                                           *)
(***************************************************************************)
EXTENDS Integers, Sequences, FiniteSets, SequencesExt

CONSTANTS
    Node,
    Action,          \* the actions that occur, of the domain of get_action_score
    Delta,           \* score changes of attestations
    Requirement,     \* VOUCH_REPUTATION_REQUIREMENT (100)
    MaxVouches,      \* MAX_VOUCHES_PER_NODE (5)
    Floor,           \* REPUTATION_FLOOR (-1000)
    Ceiling,         \* REPUTATION_CEILING (10000)
    MaxImpact,       \* cap of calculate_voucher_impact (50)
    ValidFor,        \* lifetime of an attestation
    MaxRecords,      \* bound: vouches a node ever makes
    MaxAttestations, \* bound: attestations kept at a time
    MaxTime          \* bound: last time explored

VARIABLES
    scores,          \* scores[n]: total_score of scores_
    attestations,    \* attestations_
    vouches,         \* vouches[n]: vouches_ of voucher n
    trusts,          \* the pairs with an edge in trust_graph_
    active,          \* nodes active in the state manager
    now,
    attested         \* pairs with an attestation ever accepted (history)

vars == <<scores, attestations, vouches, trusts, active, now, attested>>

-----------------------------------------------------------------------------
(* Scores *)

get_action_score ==
    [HOST_THING |-> 10, CONTRIBUTE_BANDWIDTH |-> 5, SUBMIT_POW |-> 2, PROVIDE_POSTAKE |-> 15,
     VOUCH_SUCCESSFUL |-> 20, OFFLINE_PROLONGED |-> -10, NETWORK_VIOLATION |-> -50,
     SPAM_DETECTED |-> -30, VOUCH_FAILED |-> -40, CONTENT_REMOVED |-> -20]

clamp(low, high, x) == IF x < low THEN low ELSE IF x > high THEN high ELSE x

\* The scores s after apply_score_delta.
apply_score_delta(s, n, delta) == [s EXCEPT ![n] = clamp(Floor, Ceiling, @ + delta)]

\* Division of C++: towards zero.
Divide(x, d) == IF x < 0 THEN -((-x) \div d) ELSE x \div d

calculate_voucher_impact(change) == clamp(-MaxImpact, MaxImpact, Divide(change, 2))

-----------------------------------------------------------------------------
(* Vouches *)

ActiveVouches(n) == {i \in DOMAIN vouches[n] : vouches[n][i].active}

can_vouch(n, m) ==
    /\ scores[n] >= Requirement
    /\ m \in active
    /\ Cardinality(ActiveVouches(n)) < MaxVouches

has_vouch(n, m) == \E i \in ActiveVouches(n) : vouches[n][i].vouchee = m

Vouched(n, m) == [vouches EXCEPT ![n] = Append(@, [vouchee |-> m, active |-> TRUE, base |-> scores[m]])]

Attestation(n, m, delta) == [attester |-> n, subject |-> m, delta |-> delta, expires_at |-> now + ValidFor]

is_expired(a) == now >= a.expires_at

verify_attestation(a) == ~is_expired(a) /\ a.attester # a.subject /\ a.delta \in -100..100

Init ==
    /\ scores = [n \in Node |-> 0]
    /\ attestations = {}
    /\ vouches = [n \in Node |-> <<>>]
    /\ trusts = {}
    /\ active = Node
    /\ now = 0
    /\ attested = {}

\* Accept a, given the edges left by what came before it.
Accept(a, edges) ==
    /\ Cardinality(attestations) < MaxAttestations
    /\ attestations' = attestations \cup {a}
    /\ scores' = apply_score_delta(scores, a.subject, a.delta)
    /\ trusts' = edges \cup {<<a.attester, a.subject>>}
    /\ attested' = attested \cup {<<a.attester, a.subject>>}

create_attestation(n, m, delta) ==
    /\ verify_attestation(Attestation(n, m, delta))
    /\ Accept(Attestation(n, m, delta), trusts)
    /\ UNCHANGED <<vouches, active, now>>

vouch_for_node(n, m) ==
    /\ can_vouch(n, m) /\ Len(vouches[n]) < MaxRecords
    /\ vouches' = Vouched(n, m)
    /\ trusts' = trusts \cup {<<n, m>>}
    /\ UNCHANGED <<scores, attestations, active, now, attested>>

\* A node that vouches for itself gets the vouch and not the attestation.
request_vouch(n, m) ==
    /\ can_vouch(n, m) /\ Len(vouches[n]) < MaxRecords
    /\ vouches' = Vouched(n, m)
    /\ IF verify_attestation(Attestation(n, m, 20))
       THEN Accept(Attestation(n, m, 20), trusts \cup {<<n, m>>})
       ELSE trusts' = trusts \cup {<<n, m>>} /\ UNCHANGED <<scores, attestations, attested>>
    /\ UNCHANGED <<active, now>>

\* May be repeated for the same vouch.
accept_vouch(m, n) ==
    /\ has_vouch(n, m)
    /\ create_attestation(m, n, 5)

\* Mutant: the edge stays.
Revoke_keeps_edge(n, m, edges) ==
    /\ has_vouch(n, m)
    /\ vouches' = [vouches EXCEPT ![n] = [i \in DOMAIN @ |->
          IF @[i].vouchee = m THEN [@[i] EXCEPT !.active = FALSE] ELSE @[i]]]
    /\ trusts' = edges

\* revoke_vouch of the manager: all vouches of the pair, and its edge.
Revoke(n, m, edges) ==
    /\ has_vouch(n, m)
    /\ vouches' = [vouches EXCEPT ![n] = [i \in DOMAIN @ |->
          IF @[i].vouchee = m THEN [@[i] EXCEPT !.active = FALSE] ELSE @[i]]]
    /\ trusts' = edges \ {<<n, m>>}

\* revoke_vouch of the workflow adds a penalty.
revoke_vouch(n, m, penalty) ==
    /\ Revoke(n, m, trusts)
    /\ scores' = IF penalty THEN apply_score_delta(scores, m, -20) ELSE scores
    /\ UNCHANGED <<attestations, active, now, attested>>

-----------------------------------------------------------------------------
(* Actions and maintenance *)

record_action(n, a) ==
    /\ scores' = apply_score_delta(scores, n, get_action_score[a])
    /\ UNCHANGED <<attestations, vouches, trusts, active, now, attested>>

\* Vouch by vouch: an impact counts at once for the vouches that follow, and
\* in full at every call.
update_vouch_impacts ==
    /\ LET Impact(s, n, v) == IF v.active
                              THEN apply_score_delta(s, n, calculate_voucher_impact(s[v.vouchee] - v.base)) ELSE s
       IN  scores' = FoldLeft(LAMBDA s, n : FoldLeft(LAMBDA t, v : Impact(t, n, v), s, vouches[n]),
                              scores, SetToSeq(Node))
    /\ UNCHANGED <<attestations, vouches, trusts, active, now, attested>>

decay_reputation ==
    /\ scores' = [n \in Node |-> Divide(scores[n] * 99, 100)]
    /\ UNCHANGED <<attestations, vouches, trusts, active, now, attested>>

cleanup_expired_attestations ==
    /\ attestations' = {a \in attestations : ~is_expired(a)}
    /\ UNCHANGED <<scores, vouches, trusts, active, now, attested>>

rebuild_trust_graph ==
    /\ trusts' = {<<a.attester, a.subject>> : a \in {b \in attestations : ~is_expired(b)}}
                 \cup {p \in Node \X Node : has_vouch(p[1], p[2])}
    /\ UNCHANGED <<scores, attestations, vouches, active, now, attested>>

\* The state manager, and the clock.
NodeChanges(n) ==
    /\ active' = IF n \in active THEN active \ {n} ELSE active \cup {n}
    /\ UNCHANGED <<scores, attestations, vouches, trusts, now, attested>>

Tick ==
    /\ now < MaxTime
    /\ now' = now + 1
    /\ UNCHANGED <<scores, attestations, vouches, trusts, active, attested>>

Next ==
    \/ \E n, m \in Node :
          \/ \E delta \in Delta : create_attestation(n, m, delta)
          \/ vouch_for_node(n, m)
          \/ request_vouch(n, m)
          \/ accept_vouch(n, m)
          \/ \E penalty \in BOOLEAN : revoke_vouch(n, m, penalty)
    \/ \E n \in Node : NodeChanges(n) \/ \E a \in Action : record_action(n, a)
    \/ update_vouch_impacts
    \/ decay_reputation
    \/ cleanup_expired_attestations
    \/ rebuild_trust_graph
    \/ Tick

Spec == Init /\ [][Next]_vars

-----------------------------------------------------------------------------

\* "Trust edge" (reputation.hpp): a node trusts another only by a vouch that is
\* still active or by an attestation it signed, through revocations, expiry,
\* rebuilding and workflows that fail half way; and no voucher exceeds the
\* limit by vouching along several ways.
TrustEarned ==
    /\ \A p \in trusts : has_vouch(p[1], p[2]) \/ p \in attested
    /\ \A n \in Node : Cardinality(ActiveVouches(n)) <= MaxVouches
=============================================================================
