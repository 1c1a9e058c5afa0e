----------------------------- MODULE Membership -----------------------------
(***************************************************************************)
(* One Network of network/network.cpp, from create_network of the registry *)
(* to remove_network: its members, the invitations to it, its replicas and *)
(* the redundancy target.  Networks share nothing, so one is enough; the   *)
(* files of the registry are not part of this module.                      *)
(*                                                                         *)
(* An invitation is a signed letter that stays with the invitee; letters   *)
(* only grows, and a letter can be used again until it expires.  Roles and *)
(* pending_invitations_ are written and never read, and are left out.      *)
(***************************************************************************)
EXTENDS Integers, FiniteSetsExt

CONSTANTS
    Node,
    Quorum,          \* what set_quorum is called with: [min, target, max]
    DefaultTarget,   \* DEFAULT_TARGET (5)
    DefaultMax,      \* DEFAULT_MAX (10)
    SmallNetwork,    \* members up to which a network is small (3)
    MediumNetwork,   \* and medium (10)
    MemberTimeout,   \* MEMBER_TIMEOUT_SECONDS (3600)
    ValidFor,        \* valid_duration of an invitation (a day)
    None,
    MaxLetters,      \* bound: invitations
    MaxTime          \* bound: last time explored

VARIABLES
    net,             \* the network in networks_, or None
    letters,         \* invitations ever signed
    registered,      \* nodes ever added with their own public key (history)
    now

vars == <<net, letters, registered, now>>

\* reliability_score is 0 below MIN_RELIABILITY_SCORE and 1 otherwise; key
\* says whether the public key is on record.
Member == [key : BOOLEAN, seen : 0..MaxTime, complete : BOOLEAN, score : 0..1]

Members(w) == DOMAIN w.members

is_member_active(w, n) == now - w.members[n].seen < MemberTimeout

Replicas(w) == {n \in Members(w) : w.members[n].complete}

ActiveReplicas(w) == {n \in Replicas(w) : is_member_active(w, n)}

active_replica_count(w) == Cardinality(ActiveReplicas(w))

at_capacity(w) == Cardinality(Members(w)) >= w.quorum.max

-----------------------------------------------------------------------------
(* Redundancy *)

calculate_target_redundancy(w) ==
    LET count == Cardinality(Members(w)) IN
    IF count <= SmallNetwork THEN Min({count, DefaultTarget})
    ELSE IF count <= MediumNetwork THEN DefaultTarget
    ELSE Min({DefaultTarget + (count - MediumNetwork) \div 5, DefaultMax})

should_remove_replicas(w) ==
    /\ active_replica_count(w) > w.quorum.target
    /\ \E n \in Replicas(w) : w.members[n].score = 0

\* The unsigned difference current - min_replicas wraps when it is negative
\* and then does not limit anything.
CanRemove(w) ==
    LET current == active_replica_count(w) IN
    IF current < w.quorum.min THEN current - w.quorum.target
    ELSE Min({current - w.quorum.target, current - w.quorum.min})

\* Mutant: every unreliable replica goes.
select_all_unreliable(w) == {{n \in Replicas(w) : w.members[n].score = 0}}

\* The unreliable ones among the CanRemove replicas with the lowest scores,
\* active or not; the sort leaves the order of equal scores open.
select_nodes_for_removal(w) ==
    LET low == {n \in Replicas(w) : w.members[n].score = 0}
    IN  kSubset(Min({CanRemove(w), Cardinality(low)}), low)

-----------------------------------------------------------------------------
(* Actions *)

Init ==
    /\ net = None
    /\ letters = {}
    /\ registered = {}
    /\ now = 0

\* NetworkRegistry::create_network and set_quorum.
create_network(q) ==
    /\ net = None
    /\ net' = [members |-> [n \in {} |-> None], quorum |-> q]
    /\ UNCHANGED <<letters, registered, now>>

remove_network ==
    /\ net # None
    /\ net' = None
    /\ UNCHANGED <<letters, registered, now>>

\* add_member: not twice and not beyond the capacity.
AddMember(n, own_key) ==
    /\ n \notin Members(net)
    /\ ~at_capacity(net)
    /\ net' = [net EXCEPT !.members = [x \in Members(net) \cup {n} |->
                  IF x = n THEN [key |-> own_key, seen |-> now, complete |-> FALSE, score |-> 1]
                  ELSE net.members[x]]]

add_member(n) ==
    /\ net # None
    /\ AddMember(n, TRUE)
    /\ registered' = registered \cup {n}
    /\ UNCHANGED <<letters, now>>

remove_member(n) ==
    /\ net # None
    /\ n \in Members(net)
    /\ net' = [net EXCEPT !.members = [x \in Members(net) \ {n} |-> net.members[x]]]
    /\ UNCHANGED <<letters, registered, now>>

\* Anybody can sign a letter; only verify_invitation looks at who did.
create_invitation(inviter, invitee) ==
    /\ net # None
    /\ Cardinality(letters) < MaxLetters
    /\ letters' = letters \cup {[inviter |-> inviter, invitee |-> invitee, expires |-> now + ValidFor]}
    /\ UNCHANGED <<net, registered, now>>

\* Mutant: the key on record is not compared.
verify_without_key(w, l) == now <= l.expires /\ l.inviter \in Members(w)

\* The key in the letter is the inviter's own, so it matches the record only
\* if that member's key was registered.
verify_invitation(w, l) ==
    /\ now <= l.expires
    /\ l.inviter \in Members(w)
    /\ w.members[l.inviter].key

\* The letter is not used up.
accept_invitation(l) ==
    /\ net # None
    /\ verify_invitation(net, l)
    /\ AddMember(l.invitee, FALSE)
    /\ UNCHANGED <<letters, registered, now>>

update_member_reliability(n, score) ==
    /\ net # None
    /\ n \in Members(net)
    /\ net' = [net EXCEPT !.members[n].score = score]
    /\ UNCHANGED <<letters, registered, now>>

mark_member_active(n) ==
    /\ net # None
    /\ n \in Members(net)
    /\ net' = [net EXCEPT !.members[n].seen = now]
    /\ UNCHANGED <<letters, registered, now>>

mark_replica_complete(n, complete) ==
    /\ net # None
    /\ n \in Members(net)
    /\ net' = [net EXCEPT !.members[n].complete = complete]
    /\ UNCHANGED <<letters, registered, now>>

\* The new target replaces the one of set_quorum; then the replicas of some
\* unreliable members are marked incomplete.
adjust_redundancy ==
    /\ net # None
    /\ LET w == [net EXCEPT !.quorum.target = calculate_target_redundancy(net)]
       IN  \E gone \in IF should_remove_replicas(w) THEN select_nodes_for_removal(w) ELSE {{}} :
               net' = [w EXCEPT !.members = [n \in Members(w) |->
                         IF n \in gone THEN [w.members[n] EXCEPT !.complete = FALSE] ELSE w.members[n]]]
    /\ UNCHANGED <<letters, registered, now>>

Tick ==
    /\ now < MaxTime
    /\ now' = now + 1
    /\ UNCHANGED <<net, letters, registered>>

Next ==
    \/ \E q \in Quorum : create_network(q)
    \/ remove_network
    \/ \E n \in Node :
          \/ add_member(n)
          \/ remove_member(n)
          \/ mark_member_active(n)
          \/ \E score \in 0..1 : update_member_reliability(n, score)
          \/ \E complete \in BOOLEAN : mark_replica_complete(n, complete)
          \/ \E inviter \in Node \ {n} : create_invitation(inviter, n)
    \/ \E l \in letters : accept_invitation(l)
    \/ adjust_redundancy
    \/ Tick

Spec == Init /\ [][Next]_vars

-----------------------------------------------------------------------------
(* Properties *)

IsNetwork(w) ==
    /\ Members(w) \subseteq Node
    /\ w.members \in [Members(w) -> Member]
    /\ \A n \in Members(w) : w.members[n].seen <= now
    /\ Cardinality(Members(w)) <= w.quorum.max
    /\ w.quorum.min \in Nat /\ w.quorum.target \in Nat

\* The network is well formed and never has more members than max_replicas
\* allows, and was last in touch with each of them in the past.
TypeOK ==
    /\ net # None => IsNetwork(net)
    /\ registered \subseteq Node
    /\ now \in 0..MaxTime

\* "keep above minimum" (select_nodes_for_removal): a redundancy adjustment
\* never takes a network that has its minimum of active replicas below it,
\* however many members are unreliable or silent and whatever the target was.
AdjustKeepsMinimum ==
    [][ adjust_redundancy /\ active_replica_count(net) >= net.quorum.min =>
            active_replica_count(net') >= net.quorum.min ]_vars

\* Members that came by invitation cannot invite: whoever is in the network
\* was registered with a key or holds a letter of someone who was, across
\* removals and letters used again.
InviteesCannotInvite ==
    net # None =>
        \A n \in Members(net) :
            n \in registered \/ \E l \in letters : l.invitee = n /\ l.inviter \in registered

\* Roles and letters of a network stay within what add_member and
\* accept_invitation grant.
RolesSound == TypeOK /\ InviteesCannotInvite
=============================================================================
