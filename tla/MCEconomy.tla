----------------------------- MODULE MCEconomy ------------------------------
(***************************************************************************)
(* Keys, Issuance, Reputation and TrustGraph. Nothing in the code connects *)
(* them (issued records are for an integration layer to turn into keys,    *)
(* and the graph is handed to the searches), so each behaviour follows one *)
(* of them, chosen by part: a behaviour of all together projects to one of *)
(* each. The values TLC checks it for are in the .cfg file.                *)
(***************************************************************************)
EXTENDS Keys, TLC

CONSTANTS
    Earner, Voucher, Peer, None, Batch, IssuanceKeyCount, EpochLength, Month,
    ActiveFor, InactiveFor, MinScore, MaxPerEpoch, Wrap, MaxCount,
    IssuanceMaxTime, Action, Delta, Requirement, MaxVouches, Floor, Ceiling,
    MaxImpact, ValidFor, MaxRecords, MaxAttestations, ReputationMaxTime, Unit,
    Weight, Trusting, Weak, HalfLife, MaxHops

\* No request is so large that the sum of can_issue_keys, which is 32 bits
\* wide, would wrap; None is no time and no record.
ASSUME IssuanceAssumption ==
    /\ {MaxPerEpoch, Wrap, IssuanceMaxTime} \subseteq Nat \ {0} /\ EpochLength \in Nat \ {0}
    /\ Batch \subseteq Nat /\ IssuanceKeyCount \subseteq Nat
    /\ \A count \in IssuanceKeyCount : MaxPerEpoch + count < Wrap /\ MaxPerEpoch + (3 * count) \div 2 < Wrap
    /\ None \notin Nat
    /\ None \notin [total_uptime : Nat, first_seen : Nat, last_seen : Nat, gb_routed : Nat,
                    things_hosted : Nat, gb_stored : Nat, successful_routes : Nat, failed_routes : Nat,
                    epochs_witnessed : Nat, epochs_missed : Nat]

ASSUME ReputationAssumption == MaxVouches \in Nat

\* Weights are given as whole multiples of 1/Unit, before they are clamped;
\* decay makes them no heavier.
ASSUME GraphAssumption ==
    /\ IsFiniteSet(Peer) /\ Weight \subseteq Int /\ Weak \in Int
    /\ Unit \in Nat \ {0} /\ HalfLife \in Nat \ {0} /\ Trusting \in Nat /\ MaxHops \in Nat

VARIABLES
    part,
    metrics, online_since, counts, awarded, issued, now,
    scores, attestations, vouches, trusts, active, rep_now, attested,
    edges

I == INSTANCE Issuance WITH
    Node <- Earner, KeyCount <- IssuanceKeyCount, MaxTime <- IssuanceMaxTime

Q == INSTANCE Reputation WITH
    Node <- Voucher, MaxTime <- ReputationMaxTime, now <- rep_now

Z == INSTANCE TrustGraph WITH
    Node <- Peer

I_vars == <<metrics, online_since, counts, awarded, issued, now>>
Q_vars == <<scores, attestations, vouches, trusts, active, rep_now, attested>>
Z_vars == <<edges>>

all_vars == <<part, vars, I_vars, Q_vars, Z_vars>>

EconomyInit ==
    /\ part \in {"keys", "issuance", "reputation", "trust"}
    /\ Init
    /\ I!Init /\ Q!Init /\ Z!Init

EconomyNext ==
    \/ part = "keys" /\ Next /\ UNCHANGED <<part, I_vars, Q_vars, Z_vars>>
    \/ part = "issuance" /\ I!Next /\ UNCHANGED <<part, vars, Q_vars, Z_vars>>
    \/ part = "reputation" /\ Q!Next /\ UNCHANGED <<part, vars, I_vars, Z_vars>>
    \/ part = "trust" /\ Z!Next /\ UNCHANGED <<part, vars, I_vars, Q_vars>>

EconomySpec == EconomyInit /\ [][EconomyNext]_all_vars

\* Nodes, key types and threads are interchangeable.
Symmetry == Permutations(Node) \cup Permutations(Thread) \cup Permutations(KeyType)

\* A node is issued no more keys in an epoch than the limit, and its score
\* counts no more uptime than has passed (Issuance).
IssuanceSound == part = "issuance" => I!IssuanceSound

\* A node trusts another only by a vouch that is still active or an
\* attestation it signed, through revocation, expiry and workflows that fail
\* half way, and nobody vouches beyond the limit (Reputation).
TrustEarned == part = "reputation" => Q!TrustEarned

\* In any graph the searches over trust return what they say: paths that
\* exist, the strongest, the shortest, all that are short enough, and the
\* community that paths reach (TrustGraph).
SearchesSound == part = "trust" => Z!SearchesSound
=============================================================================
