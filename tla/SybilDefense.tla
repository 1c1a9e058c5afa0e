---------------------------- MODULE SybilDefense ----------------------------
(***************************************************************************)
(* SybilDefense of security/attack_prevention.cpp: the log of what nodes   *)
(* did, and the search for groups of nodes that did the same.              *)
(***************************************************************************)
EXTENDS Integers, Sequences, FiniteSets, SequencesExt

CONSTANTS
    Nodes,           \* the nodes searched, in order: a sequence
    Activity,
    MaxLog           \* activities kept for a node (100)

VARIABLE activity_log

vars == <<activity_log>>

Init == activity_log = [n \in Range(Nodes) |-> <<>>]

record_node_activity(n, activity) ==
    LET log == Append(activity_log[n], activity)
    IN  activity_log' = [activity_log EXCEPT ![n] = IF Len(log) > MaxLog THEN Tail(log) ELSE log]

Next == \E n \in Range(Nodes), activity \in Activity : record_node_activity(n, activity)

Spec == Init /\ [][Next]_vars

Overlap(n, m) == LET a == Len(activity_log[n]) b == Len(activity_log[m]) IN IF a < b THEN a ELSE b

\* How many of the last activities agree, counted from the end.
Same(n, m) ==
    LET a == activity_log[n]
        b == activity_log[m]
    IN  Cardinality({i \in 0..(Overlap(n, m) - 1) : a[Len(a) - i] = b[Len(b) - i]})

\* Three activities in common to look at, and four in five of them the same.
Similar(n, m) == Overlap(n, m) >= 3 /\ 5 * Same(n, m) >= 4 * Overlap(n, m)

\* Mutant: a candidate may join several groups.
Gather_again(acc, n) ==
    LET cluster == {n} \cup {m \in Range(Nodes) \ {n} : Similar(n, m)} IN
    IF n \in acc.consumed \/ activity_log[n] = <<>> THEN acc
    ELSE [consumed |-> acc.consumed \cup {n},
          groups |-> IF Cardinality(cluster) >= 2 THEN acc.groups \cup {cluster} ELSE acc.groups]

\* The turn of node n as the seed of a group.
Gather(acc, n) ==
    LET cluster == {n} \cup {m \in Range(Nodes) \ (acc.consumed \cup {n}) : Similar(n, m)} IN
    IF n \in acc.consumed \/ activity_log[n] = <<>> THEN acc
    ELSE [consumed |-> acc.consumed \cup cluster,
          groups |-> IF Cardinality(cluster) >= 2 THEN acc.groups \cup {cluster} ELSE acc.groups]

detect_sybil_groups ==
    LET after[i \in 0..Len(Nodes)] ==
            IF i = 0 THEN [consumed |-> {}, groups |-> {}] ELSE Gather(after[i - 1], Nodes[i])
    IN  after[Len(Nodes)].groups

-----------------------------------------------------------------------------

\* Whatever the logs are, the groups found are disjoint and of at least two
\* nodes, each has a member to which all others are similar, and of two similar
\* nodes at least one is in a group.
GroupsSound ==
    LET groups == detect_sybil_groups IN
    /\ \A g, h \in groups : g # h => g \cap h = {}
    /\ \A g \in groups : Cardinality(g) >= 2 /\ \E seed \in g : \A m \in g \ {seed} : Similar(seed, m)
    /\ \A n, m \in Range(Nodes) : n # m /\ Similar(n, m) => {n, m} \cap UNION groups # {}
=============================================================================
