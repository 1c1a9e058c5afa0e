------------------------------ MODULE Registry ------------------------------
(***************************************************************************)
(* NetworkRegistry of network/network.cpp: the networks a node keeps, and  *)
(* the files they are in between two runs of the node.  main loads them    *)
(* when the node starts and saves them only when it ends in good order.    *)
(*                                                                         *)
(* The members, quorum and invitations of a network are one State value    *)
(* here (Membership is about them).  Whoever holds a network has a copy of *)
(* it: a change reaches the registry only by remove_network followed by    *)
(* add_network.                                                            *)
(***************************************************************************)
EXTENDS Integers, Sequences, SequencesExt

CONSTANTS
    Thing,
    State,           \* what a network may hold
    NewState,        \* what it holds when it is created
    MaxNetworks,     \* bound: networks of the registry
    MaxCounter       \* bound: networks created by one process

VARIABLES
    networks,             \* networks_
    next_network_counter, \* next_network_counter_
    files,                \* files[id]: "none", "cut", or the state that is whole in it
    saving,               \* the next network to save, 0 while the node runs, -1 when it is down
    all_ok,
    saved                 \* history: networks as of the last save, if all of it went well

vars == <<networks, next_network_counter, files, saving, all_ok, saved>>

\* The digest of the Thing and the counter.
Id == Thing \X (0..MaxCounter - 1)

Network(id, state) == [id |-> id, state |-> state]

NetworkState == State \cup {NewState}

IsIn(id, s) == \E i \in DOMAIN s : s[i].id = id

Init ==
    /\ networks = <<>> /\ next_network_counter = 0
    /\ files = [id \in Id |-> "none"]
    /\ saving = 0 /\ all_ok = TRUE /\ saved = <<>>

-----------------------------------------------------------------------------
(* The registry *)

Running == saving = 0 /\ UNCHANGED <<files, saving, all_ok, saved>>

\* No test whether the id is taken.
create_network(thing) ==
    /\ Running
    /\ Len(networks) < MaxNetworks /\ next_network_counter < MaxCounter
    /\ networks' = Append(networks, Network(<<thing, next_network_counter>>, NewState))
    /\ next_network_counter' = next_network_counter + 1

\* Mutant: no test whether it is there.
add_network_again(network) ==
    /\ Running
    /\ Len(networks) < MaxNetworks
    /\ networks' = Append(networks, network)
    /\ UNCHANGED next_network_counter

add_network(network) ==
    /\ Running
    /\ Len(networks) < MaxNetworks /\ ~IsIn(network.id, networks)
    /\ networks' = Append(networks, network)
    /\ UNCHANGED next_network_counter

\* The erase of remove_if: what is left keeps its order.
Without(id, s) ==
    LET kept[i \in 0..Len(s)] ==
            IF i = 0 THEN <<>> ELSE IF s[i].id = id THEN kept[i - 1] ELSE Append(kept[i - 1], s[i])
    IN  kept[Len(s)]

\* Every network of that id; its file stays.
remove_network(id) ==
    /\ Running
    /\ IsIn(id, networks)
    /\ networks' = Without(id, networks)
    /\ UNCHANGED next_network_counter

-----------------------------------------------------------------------------
(* The files *)

\* The end of the process in good order.
save_to_disk ==
    /\ saving = 0
    /\ saving' = 1 /\ all_ok' = TRUE /\ saved' = <<>>
    /\ UNCHANGED <<networks, next_network_counter, files>>

\* One network: the file cannot be opened and stays as it was, or is emptied
\* and written, as far as that goes.
save_network(outcome) ==
    /\ saving \in DOMAIN networks
    /\ LET n == networks[saving]
       IN  files' = CASE outcome = "unopened" -> files
                      [] outcome = "unwritten" -> [files EXCEPT ![n.id] = "cut"]
                      [] outcome = "written" -> [files EXCEPT ![n.id] = n.state]
    /\ all_ok' = (all_ok /\ outcome = "written")
    /\ saving' = saving + 1
    /\ UNCHANGED <<networks, next_network_counter, saved>>

save_end ==
    /\ saving = Len(networks) + 1
    /\ saved' = IF all_ok THEN networks ELSE <<>>
    /\ saving' = -1 /\ networks' = <<>>
    /\ UNCHANGED <<next_network_counter, files, all_ok>>

\* The process ends without saving, or in the middle of a file.
Crash ==
    /\ saving >= 0
    /\ files' \in {files} \cup {[files EXCEPT ![networks[i].id] = "cut"] : i \in DOMAIN networks \cap {saving}}
    /\ saving' = -1 /\ networks' = <<>>
    /\ UNCHANGED <<next_network_counter, all_ok, saved>>

\* A file that ends too soon is refused.
deserialize(id) == files[id] \in NetworkState

\* The next start: a new registry, and the files in the order of the directory.
load_from_disk ==
    /\ saving = -1
    /\ \E order \in SetToSeqs({id \in Id : deserialize(id)}) :
          networks' = [i \in DOMAIN order |-> Network(order[i], files[order[i]])]
    /\ next_network_counter' = 0 /\ saving' = 0
    /\ UNCHANGED <<files, all_ok, saved>>

Next ==
    \/ \E thing \in Thing : create_network(thing)
    \/ \E id \in Id : remove_network(id) \/ \E state \in State : add_network(Network(id, state))
    \/ save_to_disk \/ save_end \/ Crash \/ load_from_disk
    \/ \E outcome \in {"unopened", "unwritten", "written"} : save_network(outcome)

Spec == Init /\ [][Next]_vars

-----------------------------------------------------------------------------

\* create_network counts from 0 in every process, so it may give a network the
\* id of one that was loaded; nothing else makes two networks of one id.  A save
\* that reports success has lost a network only to a later one of the same id,
\* and what it wrote stays until the next save.
RegistrySound ==
    /\ \A i, j \in DOMAIN networks :
          i < j /\ networks[i].id = networks[j].id => networks[j].state = NewState
    /\ \A i \in DOMAIN saved :
          \E j \in i..Len(saved) : saved[j].id = saved[i].id /\ files[saved[i].id] = saved[j].state
=============================================================================
