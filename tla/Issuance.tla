------------------------------ MODULE Issuance ------------------------------
(***************************************************************************)
(* How nodes earn keys: the ContributionTracker and PoStakeEngine of       *)
(* core/postake/postake.cpp and the HybridCoordinator that issues keys for *)
(* work, for contribution, or for both.                                    *)
(*                                                                         *)
(* Percentages and weights are floats in the code and whole hundredths     *)
(* here; a counter is raised by a batch of calls at once.  A proof of work *)
(* is good or not: it is not tied to the node that shows it, nor used up.  *)
(* The rate limit compares nanoseconds with 60 and is passed by any two    *)
(* calls, so it is no guard.  bytes_sent and bytes_received are written    *)
(* and never read.                                                         *)
(***************************************************************************)
EXTENDS Integers, FiniteSetsExt

CONSTANTS
    Node,
    Batch,           \* how far one batch raises a counter
    KeyCount,        \* keys a request asks for
    EpochLength,     \* seconds in an epoch (600)
    Month,           \* MONTH_SECONDS
    ActiveFor,       \* ACTIVE_THRESHOLD (300)
    InactiveFor,     \* threshold of cleanup_inactive_nodes (86400)
    MinScore,        \* min_contribution_score (100)
    MaxPerEpoch,     \* max_keys_per_epoch (10)
    Wrap,            \* one more than the largest uint32_t
    None,
    MaxCount,        \* bound: counters
    MaxTime          \* bound: last time explored

VARIABLES
    metrics,         \* metrics[n]: ContributionMetrics, or None
    online_since,    \* online_since[n]: start of the running session, or None
    counts,          \* counts[n][e]: epoch_key_counts_
    awarded,         \* awarded[e]: epoch_rewards_, or None
    issued,          \* issued[n][e]: keys in the records handed out (history)
    now              \* seconds, from 1: a first_seen of 0 means never

vars == <<metrics, online_since, counts, awarded, issued, now>>

Epochs == 0..(MaxTime \div EpochLength)

current_epoch == now \div EpochLength

NewMetrics ==
    [ total_uptime |-> 0, first_seen |-> 0, last_seen |-> 0, gb_routed |-> 0,
      things_hosted |-> 0, gb_stored |-> 0, successful_routes |-> 0, failed_routes |-> 0,
      epochs_witnessed |-> 0, epochs_missed |-> 0 ]

\* metrics_[node_id] creates what is not there.
MetricsOf(n) == IF metrics[n] = None THEN NewMetrics ELSE metrics[n]

\* get_metrics adds the running session to the uptime, but only for a node
\* that is in metrics_.
get_metrics(n) ==
    IF metrics[n] = None \/ online_since[n] = None THEN MetricsOf(n)
    ELSE [metrics[n] EXCEPT !.total_uptime = @ + now - online_since[n]]

-----------------------------------------------------------------------------
(* Scores *)

Percent(part, whole) == (100 * part) \div whole

uptime_percentage(m) ==
    IF m.first_seen = 0 THEN 0
    ELSE IF now = m.first_seen THEN 100
    ELSE Percent(m.total_uptime, now - m.first_seen)

calculate_uptime_score(m) ==
    ((uptime_percentage(m) + Min({100, Percent(m.total_uptime, Month)})) * 30) \div 100

calculate_bandwidth_score(m) == (Min({200, m.gb_routed}) * 25) \div 100

calculate_storage_score(m) == (Min({200, 10 * m.things_hosted + m.gb_stored}) * 25) \div 100

calculate_routing_score(m) ==
    LET total == m.successful_routes + m.failed_routes
        base  == Min({100, m.successful_routes})
    IN  IF total = 0 THEN 0 ELSE (((base * m.successful_routes) \div total) * 15) \div 100

calculate_witness_score(m) ==
    LET total == m.epochs_witnessed + m.epochs_missed
    IN  IF total = 0 THEN 0 ELSE (Percent(m.epochs_witnessed, total) * 5) \div 100

calculate_score(m) ==
    calculate_uptime_score(m) + calculate_bandwidth_score(m) + calculate_storage_score(m)
        + calculate_routing_score(m) + calculate_witness_score(m)

determine_key_type(m) ==
    LET storage   == calculate_storage_score(m)
        bandwidth == calculate_bandwidth_score(m)
        routing   == calculate_routing_score(m)
    IN  IF storage > bandwidth /\ storage > routing THEN "SERVICE"
        ELSE IF bandwidth > storage /\ bandwidth > routing THEN "ROUTING"
        ELSE "NETWORK"

earning_rates ==
    [ SERVICE |-> [points_per_key |-> 500, max_per_epoch |-> 5,  min_score_required |-> 200],
      ROUTING |-> [points_per_key |-> 300, max_per_epoch |-> 10, min_score_required |-> 100],
      NETWORK |-> [points_per_key |-> 400, max_per_epoch |-> 3,  min_score_required |-> 150] ]

calculate_key_count(m) ==
    LET rate == earning_rates[determine_key_type(m)] IN
    IF calculate_score(m) < rate.min_score_required THEN 0
    ELSE Min({calculate_score(m) \div rate.points_per_key, rate.max_per_epoch})

-----------------------------------------------------------------------------
(* Actions *)

Init ==
    /\ metrics = [n \in Node |-> None]
    /\ online_since = [n \in Node |-> None]
    /\ counts = [n \in Node |-> [e \in Epochs |-> 0]]
    /\ awarded = [e \in Epochs |-> None]
    /\ issued = [n \in Node |-> [e \in Epochs |-> 0]]
    /\ now = 1

record_node_online(n) ==
    /\ online_since' = [online_since EXCEPT ![n] = now]
    /\ metrics' = [metrics EXCEPT ![n] = [MetricsOf(n) EXCEPT
                      !.first_seen = IF @ = 0 THEN now ELSE @, !.last_seen = now]]
    /\ UNCHANGED <<counts, awarded, issued, now>>

Offline(n, since) ==
    /\ online_since' = [online_since EXCEPT ![n] = since]
    /\ metrics' = [metrics EXCEPT ![n] = [MetricsOf(n) EXCEPT
                      !.total_uptime = IF online_since[n] = None THEN @ ELSE @ + now - online_since[n],
                      !.last_seen = now]]
    /\ UNCHANGED <<counts, awarded, issued, now>>

record_node_offline(n) == Offline(n, None)

\* Each adds to one counter and touches nothing else.
record_contribution(n, field, k) ==
    /\ MetricsOf(n)[field] + k <= MaxCount
    /\ metrics' = [metrics EXCEPT ![n] = [MetricsOf(n) EXCEPT ![field] = @ + k]]
    /\ UNCHANGED <<online_since, counts, awarded, issued, now>>

record_thing_hosted(n, gb) ==
    /\ MetricsOf(n).gb_stored + gb <= MaxCount
    /\ MetricsOf(n).things_hosted < MaxCount
    /\ metrics' = [metrics EXCEPT ![n] = [MetricsOf(n) EXCEPT
                      !.things_hosted = @ + 1, !.gb_stored = @ + gb]]
    /\ UNCHANGED <<online_since, counts, awarded, issued, now>>

record_thing_removed(n, gb) ==
    /\ metrics' = [metrics EXCEPT ![n] = [MetricsOf(n) EXCEPT
                      !.things_hosted = IF @ > 0 THEN @ - 1 ELSE @,
                      !.gb_stored = IF @ >= gb THEN @ - gb ELSE @]]
    /\ UNCHANGED <<online_since, counts, awarded, issued, now>>

reset_metrics(S) ==
    /\ metrics' = [n \in Node |-> IF n \in S THEN None ELSE metrics[n]]
    /\ online_since' = [n \in Node |-> IF n \in S THEN None ELSE online_since[n]]
    /\ UNCHANGED <<counts, awarded, issued, now>>

LastSeenBefore(age) == {n \in Node : metrics[n] # None /\ now - MetricsOf(n).last_seen > age}

\* last_seen stands still while a node is online.
cleanup_inactive_nodes == reset_metrics(LastSeenBefore(InactiveFor))

get_active_contributors == {n \in Node : metrics[n] # None} \ LastSeenBefore(ActiveFor)

\* PoStakeEngine::process_epoch; a second call for an epoch replaces the first.
process_epoch(e) ==
    /\ awarded' = [awarded EXCEPT ![e] =
          {n \in get_active_contributors : calculate_key_count(get_metrics(n)) > 0}]
    /\ UNCHANGED <<metrics, online_since, counts, issued, now>>

\* The sum is 32 bits wide.
can_issue_keys(n, count) == (counts[n][current_epoch] + count) % Wrap <= MaxPerEpoch

is_new_node(n) ==
    LET m == get_metrics(n)
    IN  m.total_uptime = 0 /\ m.things_hosted = 0 /\ m.successful_routes = 0

record_issuance(n, count) ==
    /\ counts' = [counts EXCEPT ![n][current_epoch] = (@ + count) % Wrap]
    /\ issued' = [issued EXCEPT ![n][current_epoch] = @ + count]
    /\ UNCHANGED <<metrics, online_since, awarded, now>>

request_keys_via_pow(n, count) ==
    /\ can_issue_keys(n, count)
    /\ record_issuance(n, count)

request_keys_via_postake(n, count) ==
    /\ ~is_new_node(n)
    /\ can_issue_keys(n, count)
    /\ calculate_score(get_metrics(n)) >= MinScore
    /\ record_issuance(n, count)

\* Mutant: the limit is tested before the bonus.
request_keys_hybrid_early(n, count) ==
    /\ can_issue_keys(n, count)
    /\ record_issuance(n, (3 * count) \div 2)

\* The bonus is half as much again, and the score does not matter.
request_keys_hybrid(n, count) ==
    LET bonus_keys == (3 * count) \div 2 IN
    /\ can_issue_keys(n, bonus_keys)
    /\ record_issuance(n, bonus_keys)

Tick ==
    /\ now < MaxTime
    /\ now' = now + 1
    /\ UNCHANGED <<metrics, online_since, counts, awarded, issued>>

Next ==
    \/ \E n \in Node :
          \/ record_node_online(n)
          \/ record_node_offline(n)
          \/ reset_metrics({n})
          \/ \E k \in Batch :
                \/ \E field \in {"gb_routed", "successful_routes", "failed_routes",
                                 "epochs_witnessed", "epochs_missed"} : record_contribution(n, field, k)
                \/ record_thing_hosted(n, k)
                \/ record_thing_removed(n, k)
          \/ \E count \in KeyCount :
                \/ request_keys_via_pow(n, count)
                \/ request_keys_via_postake(n, count)
                \/ request_keys_hybrid(n, count)
    \/ cleanup_inactive_nodes
    \/ process_epoch(current_epoch)
    \/ Tick

Spec == Init /\ [][Next]_vars

-----------------------------------------------------------------------------
(* Properties *)

\* "max_keys_per_epoch = 10;  // Global limit per node per epoch": by whatever
\* mix of the three ways a node asks, bonus included, it gets no more, as long
\* as the sum in can_issue_keys does not wrap (KeyCount stays below Wrap -
\* MaxPerEpoch, the bonus included).
EpochLimit == \A n \in Node, e \in Epochs : issued[n][e] <= MaxPerEpoch

\* No second counts twice: a node that was seen has been up no longer than
\* since it was first seen, the running session included, whatever order its
\* online and offline reports come in, repeated, missing or around a reset.
UptimeBounded ==
    \A n \in Node :
        LET m == get_metrics(n) IN
        IF m.first_seen = 0 THEN m.total_uptime = 0 ELSE m.total_uptime <= now - m.first_seen

\* What a node earns is bounded: keys by the limit of the epoch, and the uptime
\* its score counts by the time that passed.
IssuanceSound == EpochLimit /\ UptimeBounded
=============================================================================
