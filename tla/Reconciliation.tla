--------------------------- MODULE Reconciliation ---------------------------
(***************************************************************************)
(* StateReconciliation: nodes whose ledgers may have diverged merge the    *)
(* events of a peer into their own.                                        *)
(*                                                                         *)
(* An event carries the hash of its predecessor, so it is identified by    *)
(* the chain that ends in it: a ledger is a sequence of event kinds, its   *)
(* events are its non-empty prefixes, and add_external_event accepts the   *)
(* prefix that is one longer than the ledger.  The events of a peer reach  *)
(* the node late, so they are any prefix of what the peer holds by now.    *)
(*                                                                         *)
(* The hash the code computes for a peer (over the epoch and all its       *)
(* events) is never the hash of a last event, which is what it is compared *)
(* with: every reconciliation finds a conflict, and no merge is ever seen  *)
(* to have reached the remote hash.                                        *)
(***************************************************************************)
EXTENDS Integers, FiniteSets, Sequences, SequencesExt

CONSTANTS
    Node,
    MaxEvents    \* bound: events a ledger may reach by recording its own

Kind == {"key", "other"}   \* KEY_ISSUED counts as work, the rest does not

VARIABLES
    chain,   \* [Node -> the ledger, a sequence of kinds]
    last     \* the last reconciliation: who, with what, and its result

vars == <<chain, last>>

NoResult == [node |-> CHOOSE n \in Node : TRUE, before |-> <<>>, remote |-> <<>>,
             success |-> TRUE, by |-> "nobody", votes |-> 0, peers |-> 0]

Init == chain = [n \in Node |-> <<>>] /\ last = NoResult

\* A node records an event of its own.
record(n, kind) ==
    /\ Len(chain[n]) < MaxEvents
    /\ chain' = [chain EXCEPT ![n] = Append(@, kind)]
    /\ UNCHANGED last

-----------------------------------------------------------------------------
Events(c) == {SubSeq(c, 1, k) : k \in 1..Len(c)}

\* Mutant: the newest first.
find_missing_newest_first(local, remote) ==
    LET missing[k \in 0..Len(remote)] ==
            IF k = 0 THEN <<>>
            ELSE IF SubSeq(remote, 1, k) \in Events(local) THEN missing[k - 1]
            ELSE <<SubSeq(remote, 1, k)>> \o missing[k - 1]
    IN  missing[Len(remote)]

\* The events of the peer the ledger lacks, in the peer's order.
find_missing_events(local, remote) ==
    LET missing[k \in 0..Len(remote)] ==
            IF k = 0 THEN <<>>
            ELSE IF SubSeq(remote, 1, k) \in Events(local) THEN missing[k - 1]
            ELSE Append(missing[k - 1], SubSeq(remote, 1, k))
    IN  missing[Len(remote)]

add_external_event(local, event) ==
    IF Front(event) = local THEN event ELSE local

\* Every missing event is offered to the ledger in turn; one it refuses is
\* skipped and the merge goes on, but it has failed.
apply_merge_both(local, remote) ==
    LET missing == find_missing_events(local, remote)
        merged[i \in 0..Len(missing)] ==
            IF i = 0 THEN local ELSE add_external_event(merged[i - 1], missing[i])
        result == merged[Len(missing)]
    IN  [chain |-> result, success |-> Len(result) = Len(local) + Len(missing)]

\* The merged ledger never ends in the hash it is compared with.
apply_remote_preference(local, remote) ==
    [chain |-> apply_merge_both(local, remote).chain, success |-> FALSE]

apply_local_preference(local) == [chain |-> local, success |-> TRUE]

calculate_proof_of_work(c) == Len(SelectSeq(c, LAMBDA kind : kind = "key"))

apply_highest_work(local, remote) ==
    IF calculate_proof_of_work(remote) > calculate_proof_of_work(local)
    THEN apply_remote_preference(local, remote)
    ELSE apply_local_preference(local)

\* detect_conflict, classify_conflict, choose_strategy, resolve_conflict.
\* Ledgers of one length with an event far in the future keep the local one.
resolve_conflict(local, remote, anomaly) ==
    IF Len(local) # Len(remote) THEN apply_merge_both(local, remote)
    ELSE IF anomaly THEN apply_local_preference(local)
    ELSE apply_highest_work(local, remote)

Adopt(n, remote, result, by, votes, peers) ==
    /\ chain' = [chain EXCEPT ![n] = result.chain]
    /\ last' = [node |-> n, before |-> chain[n], remote |-> remote, success |-> result.success,
                by |-> by, votes |-> votes, peers |-> peers]

auto_reconcile_with_peer(n, m, known, anomaly) ==
    LET remote == SubSeq(chain[m], 1, known) IN
    Adopt(n, remote, resolve_conflict(chain[n], remote, anomaly), "peer", 1, 1)

\* The clock is read once for the peer's epoch and once for our own: when an
\* epoch ends in between, detect_conflict sees two epochs and no conflict, and
\* the states are reported consistent unseen.
epoch_turned(n, m, known) ==
    Adopt(n, SubSeq(chain[m], 1, known), apply_local_preference(chain[n]), "turned", 1, 1)

\* With the answers of several peers: the ledger most of them hold wins, the
\* smallest hash among equals, when at least half of the peers, rounded down,
\* hold it.
reconcile_with_quorum(n, answers) ==
    LET peers == DOMAIN answers
        Votes(c) == Cardinality({m \in peers : answers[m] = c})
        best == {answers[m] : m \in {x \in peers : \A y \in peers : Votes(answers[y]) <= Votes(answers[x])}}
    IN
    /\ peers # {}
    /\ \E c \in best :
        IF Votes(c) < Cardinality(peers) \div 2
        THEN last' = [NoResult EXCEPT !.node = n, !.success = FALSE, !.before = chain[n]] /\ UNCHANGED chain
        ELSE Adopt(n, c, apply_remote_preference(chain[n], c), "quorum", Votes(c), Cardinality(peers))

Next ==
    \E n \in Node :
        \/ \E kind \in Kind : record(n, kind)
        \/ \E m \in Node \ {n} : \E known \in 0..Len(chain[m]) : \E anomaly \in BOOLEAN :
            auto_reconcile_with_peer(n, m, known, anomaly) \/ epoch_turned(n, m, known)
        \/ \E peers \in SUBSET (Node \ {n}) : \E known \in [peers -> 0..MaxEvents] :
            /\ \A m \in peers : known[m] <= Len(chain[m])
            /\ reconcile_with_quorum(n, [m \in peers |-> SubSeq(chain[m], 1, known[m])])

Spec == Init /\ [][Next]_vars

-----------------------------------------------------------------------------
\* What a reconciliation reports about ledgers of different length is true:
\* it succeeds only if the node now holds every event of the peer, and it
\* does succeed whenever the peer's ledger extends or is contained in its own.
\* Nothing is claimed of forks of one length, which are "resolved" by keeping
\* both, nor of a reconciliation during which the epoch turned.
ReportHonest ==
    (last.by = "peer" /\ Len(last.before) # Len(last.remote)) =>
        /\ last.success => IsPrefix(last.remote, chain[last.node])
        /\ (IsPrefix(last.before, last.remote) \/ IsPrefix(last.remote, last.before)) => last.success

\* state_reconciliation.cpp:224 says "Check if quorum is reached (>50% of
\* peers)": a state a node adopts as the quorum's is held by more than half of
\* the peers it asked.
QuorumIsMajority == last.by = "quorum" => 2 * last.votes > last.peers
=============================================================================
