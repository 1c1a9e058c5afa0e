----------------------------- MODULE TrustGraph -----------------------------
(***************************************************************************)
(* TrustGraph of core/reputation/reputation.cpp and the TrustPathFinder of *)
(* attestation.cpp: a weighted graph that changes, and searches in it.     *)
(*                                                                         *)
(* Weights and products of weights are whole multiples of 1/Unit.          *)
(***************************************************************************)
EXTENDS Integers, Sequences, FiniteSets, SequencesExt, FiniteSetsExt

CONSTANTS
    Node,
    Unit,            \* the weight 1.0
    Weight,          \* weights that calls give
    Trusting,        \* get_trusts lists edges heavier than this (0.3)
    Weak,            \* threshold of prune_weak_edges (0.1)
    HalfLife,        \* decay_edge_weights(f): weights become f of what they were, f = 1/HalfLife
    MaxHops

VARIABLE edges       \* edges_[from][to]: the weight, or Absent

vars == <<edges>>

Absent == -1

Init == edges = [n \in Node |-> [m \in Node |-> Absent]]

Clamp(w) == IF w < 0 THEN 0 ELSE IF w > Unit THEN Unit ELSE w

\* Also update_edge_weight, which differs in the time stamps only.
add_edge(n, m, w) == edges' = [edges EXCEPT ![n][m] = Clamp(w)]

remove_edge(n, m) == edges' = [edges EXCEPT ![n][m] = Absent]

decay_edge_weights ==
    edges' = [n \in Node |-> [m \in Node |-> IF edges[n][m] = Absent THEN Absent ELSE edges[n][m] \div HalfLife]]

prune_weak_edges ==
    edges' = [n \in Node |-> [m \in Node |-> IF edges[n][m] < Weak THEN Absent ELSE edges[n][m]]]

Next ==
    \/ \E n, m \in Node : n # m /\ (remove_edge(n, m) \/ \E w \in Weight : add_edge(n, m, w))
    \/ decay_edge_weights
    \/ prune_weak_edges

Spec == Init /\ [][Next]_vars

-----------------------------------------------------------------------------
(* The searches *)

Successors(n) == {m \in Node : edges[n][m] # Absent}

get_trusts(n) == {m \in Node : edges[n][m] > Trusting}

\* Mutant: the last hop is not taken.
out_of_hops_early(hops, max_hops) == hops + 1 >= max_hops

out_of_hops(hops, max_hops) == hops >= max_hops

\* best holds products, or Absent; the queue holds <<node, hops>>.
Relax(acc, current, hops, next) ==
    LET trust == (acc.best[current] * edges[current][next]) \div Unit IN
    IF trust > acc.best[next]
    THEN [best |-> [acc.best EXCEPT ![next] = trust], queue |-> Append(acc.queue, <<next, hops + 1>>)]
    ELSE acc

\* A turn of the loop of calculate_transitive_trust.  Neighbours are taken in
\* a fixed order, as the map gives them.
Explore(at, max_hops) ==
    LET current == at.queue[1][1]
        hops == at.queue[1][2]
        current_edges == SetToSeq(Successors(current))
        popped == [at EXCEPT !.queue = Tail(@)]
        relaxed[i \in 0..Cardinality(Successors(current))] ==
            IF i = 0 THEN popped ELSE Relax(relaxed[i - 1], current, hops, current_edges[i])
    IN  IF at.queue = <<>> THEN at
        ELSE IF out_of_hops(hops, max_hops) THEN popped
        ELSE relaxed[Cardinality(Successors(current))]

\* What is pushed after the first has raised one of the values of best, which
\* are between Absent and Unit: after so many turns the queue is empty.
Turns == 1 + (Unit + 1) * Cardinality(Node)

calculate_transitive_trust(from, to, max_hops) ==
    LET after[i \in 0..Turns] ==
            IF i = 0 THEN [queue |-> <<<<from, 0>>>>, best |-> [n \in Node |-> IF n = from THEN Unit ELSE Absent]]
            ELSE Explore(after[i - 1], max_hops)
        found == after[Turns].best[to]
    IN  IF from = to THEN Unit
        ELSE IF edges[from][to] # Absent THEN edges[from][to]
        ELSE IF found = Absent THEN 0 ELSE found

\* The calls that a call for path makes, along edges that get_trusts lists.
dfs_find_paths(path, target) ==
    {Append(path, next) : next \in {m \in get_trusts(Last(path)) : Last(path) # target /\ ~Contains(path, m)}}

\* The recursion by its depth: called[k] has the paths of k nodes.
find_all_paths(from, to, max_hops) ==
    LET called[k \in 1..max_hops] ==
            IF k = 1 THEN {<<from>>} ELSE UNION {dfs_find_paths(path, to) : path \in called[k - 1]}
    IN  {path \in UNION {called[k] : k \in 1..(max_hops - 1)} : Last(path) = to}

\* The breadth-first search by its levels: the nodes found so far, and the
\* last of them.
Level(at) ==
    LET next == (UNION {get_trusts(n) : n \in at.frontier}) \ at.visited
    IN  [frontier |-> next, visited |-> at.visited \cup next]

calculate_trust_distance(from, to) ==
    LET level[k \in 0..Cardinality(Node)] ==
            IF k = 0 THEN [frontier |-> {from}, visited |-> {from}] ELSE Level(level[k - 1])
        found == {k \in 0..Cardinality(Node) : to \in level[k].frontier}
    IN  IF found = {} THEN Absent ELSE Min(found)

\* Strength of a path; one node is no path.
calculate_path_strength(p) ==
    LET strength[i \in 1..Len(p)] ==
            IF i = 1 THEN Unit ELSE (strength[i - 1] * edges[p[i - 1]][p[i]]) \div Unit
    IN  IF Len(p) < 2 THEN 0 ELSE strength[Len(p)]

\* A strongest path, or the empty one.
find_strongest_path(from, to, max_hops) ==
    LET all_paths == {p \in find_all_paths(from, to, max_hops) : calculate_path_strength(p) > 0}
    IN  IF all_paths = {} THEN <<>>
        ELSE CHOOSE p \in all_paths : \A q \in all_paths : calculate_path_strength(q) <= calculate_path_strength(p)

\* A community with the neighbours that its members trust at least min_trust.
Neighbors(community, min_trust) ==
    community \cup {m \in Node : \E n \in community : edges[n][m] >= min_trust}

\* The nodes reached over edges of at least min_trust.
find_trust_community(node, min_trust) ==
    LET community[k \in 0..Cardinality(Node)] ==
            IF k = 0 THEN {node} ELSE Neighbors(community[k - 1], min_trust)
    IN  community[Cardinality(Node)]

get_trusted_by(n) == {m \in Node : n \in get_trusts(m)}

get_all_nodes == {n \in Node : \E m \in Node : edges[n][m] # Absent \/ edges[m][n] # Absent}

find_trust_hubs(min_incoming_edges) ==
    {n \in get_all_nodes : Cardinality(get_trusted_by(n)) >= min_incoming_edges}

\* The pairs of nodes with a strongest path, and those whose path has n inside.
Pairs(n) ==
    {p \in get_all_nodes \X get_all_nodes : p[1] # p[2] /\ n \notin {p[1], p[2]} /\ find_strongest_path(p[1], p[2], 6) # <<>>}

Through(n) ==
    {p \in Pairs(n) : LET path == find_strongest_path(p[1], p[2], 6) IN \E i \in 2..(Len(path) - 1) : path[i] = n}

calculate_betweenness_centrality(n) ==
    IF Pairs(n) = {} THEN 0 ELSE (Unit * Cardinality(Through(n))) \div Cardinality(Pairs(n))

find_bridge_nodes(min_betweenness) ==
    {n \in get_all_nodes : calculate_betweenness_centrality(n) >= min_betweenness}

-----------------------------------------------------------------------------
(* What they are to find *)

SimplePaths(from, to, edge(_, _)) ==
    {p \in UNION {[1..k -> Node] : k \in 1..Cardinality(Node)} :
        /\ p[1] = from /\ p[Len(p)] = to
        /\ \A i, j \in DOMAIN p : p[i] = p[j] => i = j
        /\ \A i \in 1..(Len(p) - 1) : edge(p[i], p[i + 1])}

HasEdge(n, m) == edges[n][m] # Absent

IsTrusting(n, m) == edges[n][m] > Trusting

\* The searches find what they say, in any graph: the transitive trust is at
\* least that of the best path within max_hops and at most that of the best
\* path of all (a path may be longer than max_hops: a better value found on the
\* same level is used before its turn); find_all_paths finds the paths of fewer
\* than max_hops nodes and find_strongest_path one of the strongest of them;
\* the trust distance is the length of a shortest path, and the community what
\* paths reach.  A bridge is inside a path between nodes that trust each other.
SearchesSound ==
    /\ \A n, m \in Node : n # m =>
        LET paths == SimplePaths(n, m, HasEdge)
            short == {p \in paths : Len(p) - 1 <= MaxHops}
            trusting == SimplePaths(n, m, IsTrusting)
            trust == calculate_transitive_trust(n, m, MaxHops)
            strongest == find_strongest_path(n, m, 6)
        IN  /\ edges[n][m] = Absent =>
                  /\ \A p \in short : calculate_path_strength(p) <= trust
                  /\ trust # 0 => \E p \in paths : calculate_path_strength(p) = trust
            /\ find_all_paths(n, m, MaxHops) = {p \in trusting : Len(p) < MaxHops}
            /\ strongest # <<>> => strongest \in trusting
            /\ \A p \in trusting : Len(p) < 6 => calculate_path_strength(p) <= calculate_path_strength(strongest)
            /\ calculate_trust_distance(n, m) =
                  IF trusting = {} THEN Absent ELSE Min({Len(p) - 1 : p \in trusting})
            /\ (m \in find_trust_community(n, Trusting + 1)) = (trusting # {})
    /\ \A n \in find_bridge_nodes(1) : get_trusts(n) # {} /\ n \in find_trust_hubs(1)
=============================================================================
