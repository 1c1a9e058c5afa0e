--------------------------- MODULE ReplicatedLog ----------------------------
(***************************************************************************)
(* What the ledgers of a network promise together, without digests, ids,   *)
(* clocks or messages: all events there are form one tree, and every node  *)
(* holds a path of it from the root, which grows at its end, by an event   *)
(* of its own or by those of others, until the node starts over.           *)
(*                                                                         *)
(* Two paths of a tree that share an event agree on everything before it.  *)
(***************************************************************************)
EXTENDS Integers, Sequences

CONSTANT Node

VARIABLES
    before,          \* before[e]: the event before e in the tree, a set of one or none
    log              \* log[n]: the path node n holds

logVars == <<before, log>>

\* The end of a path, a set of one event or none.
End(path) == IF path = <<>> THEN {} ELSE {path[Len(path)]}

Init ==
    /\ before = [e \in {} |-> {}]
    /\ log = [n \in Node |-> <<>>]

\* Node n adds an event at the end of its path.  An event has one place in the
\* tree: a node that starts over may make the same event again, at that place.
Write(n, e) ==
    /\ e \in DOMAIN before => before[e] = End(log[n])
    /\ before' = [f \in DOMAIN before \cup {e} |->
                     IF f = e THEN End(log[n]) ELSE before[f]]
    /\ log' = [log EXCEPT ![n] = Append(@, e)]

\* The events of a path are in the tree, each right after the one before it.
IsPath(path) ==
    \A i \in 1..Len(path) :
        path[i] \in DOMAIN before /\ before[path[i]] = IF i = 1 THEN {} ELSE {path[i - 1]}

\* Node n goes further down the tree, by one event or by several at once.
Follow(n, path) ==
    /\ IsPath(path)
    /\ Len(log[n]) <= Len(path) /\ \A i \in 1..Len(log[n]) : path[i] = log[n][i]
    /\ log' = [log EXCEPT ![n] = path]
    /\ UNCHANGED before

StartOver(n) ==
    /\ log' = [log EXCEPT ![n] = <<>>]
    /\ UNCHANGED before

Growth ==
    \E n \in Node : (\E e \in DOMAIN before' : Write(n, e)) \/ Follow(n, log'[n])

Next == Growth \/ \E n \in Node : StartOver(n)

Spec == Init /\ [][Next]_logVars

\* A log whose nodes never start over.
GrowingSpec == Init /\ [][Growth]_logVars
=============================================================================
