----------------------------- MODULE MCNetworks -----------------------------
(***************************************************************************)
(* StateView, what the ledger says of nodes, networks and Things;          *)
(* Membership, a network a node keeps itself; and Registry, the files of   *)
(* those networks. None reads another, so each behaviour follows one of    *)
(* them, chosen by part: a behaviour of all together projects to one of    *)
(* each. The values TLC checks it for are in the .cfg file.                *)
(***************************************************************************)
EXTENDS StateView, TLC

CONSTANTS
    Party, DefaultMax, Quorum, DefaultTarget, SmallNetwork, MediumNetwork,
    MemberTimeout, ValidFor, MaxLetters, MembershipMaxTime, RegistryThing,
    State, NewState, MaxNetworks, MaxCounter

ASSUME PartiesAssumption ==
    /\ IsFiniteSet(Party)
    /\ Quorum \subseteq [min : Nat, target : Nat, max : Nat]
    /\ {DefaultTarget, DefaultMax, SmallNetwork, MediumNetwork, MemberTimeout, ValidFor, MembershipMaxTime} \subseteq Nat

\* What a file may hold besides the state of a network is no such state.
ASSUME FilesAssumption ==
    IsFiniteSet(RegistryThing) /\ MaxCounter \in Nat /\ {"none", "cut"} \cap (State \cup {NewState}) = {}

VARIABLES
    part,
    net, letters, registered, now,
    networks, next_network_counter, files, saving, all_ok, saved

\* A minimum of one replica, and targets that adjust_redundancy changes.
LowQuorums == {[min |-> 1, target |-> t, max |-> DefaultMax] : t \in {0, 2}}

M == INSTANCE Membership WITH
    Node <- Party, MaxTime <- MembershipMaxTime

D == INSTANCE Registry WITH
    Thing <- RegistryThing

M_vars == <<net, letters, registered, now>>
D_vars == <<networks, next_network_counter, files, saving, all_ok, saved>>

all_vars == <<part, vars, M_vars, D_vars>>

NetworksInit ==
    /\ part \in {"state", "membership", "registry"}
    /\ Init
    /\ M!Init /\ D!Init

NetworksNext ==
    \/ part = "state" /\ Next /\ UNCHANGED <<part, M_vars, D_vars>>
    \/ part = "membership" /\ M!Next /\ UNCHANGED <<part, vars, D_vars>>
    \/ part = "registry" /\ D!Next /\ UNCHANGED <<part, vars, M_vars>>

NetworksSpec == NetworksInit /\ [][NetworksNext]_all_vars

\* No definition tells two nodes apart.
Symmetry == Permutations(Node)

\* Two networks of the registry share an id only when create_network made the
\* second after a restart, and a save that reports success loses a network
\* only to a later one of its id, whatever crashes follow (Registry).
RegistrySound == part = "registry" => D!RegistrySound

\* The roles and letters of a network stay within what add_member and
\* accept_invitation grant: whoever came by invitation cannot invite
\* (Membership).
RolesSound == part = "membership" => M!RolesSound

\* adjust_redundancy never takes a network that has its minimum of active
\* replicas below it, however many members are silent (Membership).
AdjustKeepsMinimum == M!AdjustKeepsMinimum
=============================================================================
