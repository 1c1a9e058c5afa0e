--------------------------- MODULE NetworksProofs ---------------------------
(***************************************************************************)
(* Proofs about the networks of a node, for any nodes, networks, limits    *)
(* and times: Membership, Registry and StateView.                          *)
(***************************************************************************)
EXTENDS MCNetworks, FiniteSetTheorems, WellFoundedInduction, NaturalsInduction, TLAPS

(* Membership.  A key on record is the key of a member that was registered,
   so that only such a member's letters are accepted. *)

NetworkGood(f, q) ==
    /\ DOMAIN f \subseteq Party
    /\ f \in [DOMAIN f -> M!Member]
    /\ q \in [min : Nat, target : Nat, max : Nat]
    /\ Cardinality(DOMAIN f) <= q.max
    /\ \A n \in DOMAIN f :
          /\ f[n].seen <= now
          /\ f[n].key => n \in registered
          /\ n \in registered \/ \E l \in letters : l.invitee = n /\ l.inviter \in registered

MembersInv ==
    /\ now \in 0..MembershipMaxTime
    /\ registered \subseteq Party
    /\ \A l \in letters : l.inviter \in Party /\ l.invitee \in Party
    /\ net # None => /\ net = [members |-> net.members, quorum |-> net.quorum]
                     /\ NetworkGood(net.members, net.quorum)

LEMMA SameCardinality == \A S : M!Cardinality(S) = Cardinality(S)
BY DEF M!Cardinality, Cardinality

LEMMA PartsFinite ==
    ASSUME NEW S, S \subseteq Party
    PROVE  IsFiniteSet(S) /\ Cardinality(S) \in Nat
BY PartiesAssumption, FS_Subset, FS_CardinalityType

LEMMA MembersInvGives == MembersInv => M!RolesSound
<1> SUFFICES ASSUME MembersInv PROVE M!RolesSound OBVIOUS
<1>1. ASSUME net # None PROVE M!IsNetwork(net)
  BY <1>1, SameCardinality DEF MembersInv, NetworkGood, M!IsNetwork, M!Members
<1>2. M!InviteesCannotInvite
  BY DEF MembersInv, NetworkGood, M!InviteesCannotInvite, M!Members
<1> QED BY <1>1, <1>2 DEF M!RolesSound, M!TypeOK, MembersInv

\* The members and the quorum of the network change.
LEMMA NetworkChanges ==
    ASSUME MembersInv, NEW f, NEW q, net' = [members |-> f, quorum |-> q],
           UNCHANGED <<letters, now>>, registered \subseteq registered', registered' \subseteq Party,
           NetworkGood(f, q)'
    PROVE  MembersInv'
<1>1. net'.members = f /\ net'.quorum = q
  OBVIOUS
<1>2. NetworkGood(net.members, net.quorum)'
  BY <1>1 DEF NetworkGood
<1> QED BY <1>1, <1>2 DEF MembersInv

LEMMA AddMemberStep ==
    ASSUME MembersInv, net # None, NEW n \in Party, NEW own_key \in BOOLEAN, M!AddMember(n, own_key),
           UNCHANGED <<letters, now>>, registered \subseteq registered', registered' \subseteq Party,
           own_key => n \in registered',
           n \in registered' \/ \E l \in letters : l.invitee = n /\ l.inviter \in registered'
    PROVE  MembersInv'
<1>1. PICK f, q : f = net.members /\ q = net.quorum
  OBVIOUS
<1>2. net = [members |-> f, quorum |-> q] /\ NetworkGood(f, q)
  BY <1>1 DEF MembersInv
<1>3. PICK m : m = [key |-> own_key, seen |-> now, complete |-> FALSE, score |-> 1]
  OBVIOUS
<1>4. PICK g : g = [x \in DOMAIN f \cup {n} |-> IF x = n THEN m ELSE f[x]]
  OBVIOUS
<1>5. net' = [members |-> g, quorum |-> q] /\ n \notin DOMAIN f /\ ~(Cardinality(DOMAIN f) >= q.max)
  BY <1>1, <1>2, <1>3, <1>4, SameCardinality DEF M!AddMember, M!Members, M!at_capacity
<1>6. now \in 0..MembershipMaxTime
  BY DEF MembersInv
<1>7. m \in M!Member /\ m.seen = now /\ m.key = own_key
  BY <1>3, <1>6 DEF M!Member
<1>8. NetworkGood(g, q)'
  <2>1. DOMAIN g = DOMAIN f \cup {n} /\ DOMAIN g \subseteq Party
    BY <1>2, <1>4 DEF NetworkGood
  <2>2. g \in [DOMAIN g -> M!Member]
    BY <1>2, <1>4, <1>7, <2>1 DEF NetworkGood
  <2>3. Cardinality(DOMAIN g) <= q.max
    <3>1. Cardinality(DOMAIN g) = Cardinality(DOMAIN f) + 1
      BY <1>2, <1>5, <2>1, PartsFinite, FS_AddElement DEF NetworkGood
    <3>2. Cardinality(DOMAIN f) \in Nat /\ q.max \in Nat
      BY <1>2, PartsFinite DEF NetworkGood
    <3> QED BY <1>5, <3>1, <3>2
  <2>4. ASSUME NEW x \in DOMAIN g
        PROVE  /\ g[x].seen <= now'
               /\ g[x].key => x \in registered'
               /\ x \in registered' \/ \E l \in letters' : l.invitee = x /\ l.inviter \in registered'
    <3>1. CASE x = n
      BY <1>4, <1>6, <1>7, <3>1
    <3>2. CASE x # n
      <4>1. x \in DOMAIN f /\ g[x] = f[x]
        BY <1>4, <2>1, <3>2
      <4> QED BY <1>2, <4>1 DEF NetworkGood
    <3> QED BY <3>1, <3>2
  <2> QED BY <1>2, <2>1, <2>2, <2>3, <2>4 DEF NetworkGood
<1> QED BY <1>5, <1>8, NetworkChanges

\* A member's record changes, or several: nobody comes or goes.
LEMMA RecordsChange ==
    ASSUME MembersInv, net # None, NEW f, f = net.members, NEW g, NEW q \in [min : Nat, target : Nat, max : Nat],
           net' = [members |-> g, quorum |-> q], q.max = net.quorum.max,
           UNCHANGED <<letters, registered, now>>,
           DOMAIN g = DOMAIN f, g \in [DOMAIN f -> M!Member],
           \A n \in DOMAIN f : g[n].key = f[n].key /\ g[n].seen \in {f[n].seen, now}
    PROVE  MembersInv'
<1>1. NetworkGood(f, net.quorum) /\ now \in 0..MembershipMaxTime
  BY DEF MembersInv
<1>2. NetworkGood(g, q)'
  BY <1>1 DEF NetworkGood
<1>3. registered \subseteq registered' /\ registered' \subseteq Party
  BY DEF MembersInv
<1> QED BY <1>2, <1>3, NetworkChanges

LEMMA TargetIsNatural ==
    ASSUME NEW w, M!Members(w) \subseteq Party
    PROVE  M!calculate_target_redundancy(w) \in Nat
<1>1. PICK count \in Nat : count = M!Cardinality(M!Members(w))
  BY PartsFinite, SameCardinality
<1>2. \A a, b \in Nat : M!Min({a, b}) \in Nat
  <2> SUFFICES ASSUME NEW a \in Nat, NEW b \in Nat PROVE M!Min({a, b}) \in Nat OBVIOUS
  <2>1. \E x \in {a, b} : \A y \in {a, b} : x =< y
    OBVIOUS
  <2> QED BY <2>1 DEF M!Min
<1>3. DefaultTarget \in Nat /\ DefaultMax \in Nat /\ SmallNetwork \in Nat /\ MediumNetwork \in Nat
  BY PartiesAssumption
<1>4. count > MediumNetwork => DefaultTarget + (count - MediumNetwork) \div 5 \in Nat
  BY <1>3
<1>5. CASE count <= SmallNetwork
  BY <1>1, <1>2, <1>3, <1>5 DEF M!calculate_target_redundancy
<1>6. CASE ~(count <= SmallNetwork) /\ count <= MediumNetwork
  BY <1>1, <1>3, <1>6 DEF M!calculate_target_redundancy
<1>7. CASE ~(count <= SmallNetwork) /\ ~(count <= MediumNetwork)
  <2>1. M!Min({DefaultTarget + (count - MediumNetwork) \div 5, DefaultMax}) \in Nat
    BY <1>2, <1>3, <1>4, <1>7
  <2> QED BY <1>1, <1>7, <2>1 DEF M!calculate_target_redundancy
<1> QED BY <1>5, <1>6, <1>7

\* The network with the new target, and the one that adjust_redundancy leaves.
Adjusted(f, q, target, w, gone) ==
    /\ target \in Nat
    /\ w = [members |-> f, quorum |-> [q EXCEPT !.target = target]]
    /\ gone \in IF M!should_remove_replicas(w) THEN M!select_nodes_for_removal(w) ELSE {{}}
    /\ net' = [members |-> [n \in DOMAIN f |-> IF n \in gone THEN [f[n] EXCEPT !.complete = FALSE] ELSE f[n]],
               quorum |-> [q EXCEPT !.target = target]]

LEMMA AdjustCases ==
    ASSUME MembersInv, M!adjust_redundancy, NEW f, NEW q, f = net.members, q = net.quorum
    PROVE  /\ net # None
           /\ UNCHANGED <<letters, registered, now>>
           /\ \E target, w, gone : Adjusted(f, q, target, w, gone)
<1>1. net # None /\ UNCHANGED <<letters, registered, now>>
  BY DEF M!adjust_redundancy
<1>2. net = [members |-> f, quorum |-> q] /\ NetworkGood(f, q)
  BY <1>1 DEF MembersInv
<1>3. PICK target : target = M!calculate_target_redundancy(net)
  OBVIOUS
<1>4. target \in Nat
  BY <1>2, <1>3, TargetIsNatural DEF M!Members, NetworkGood
<1> DEFINE w == [net EXCEPT !.quorum.target = M!calculate_target_redundancy(net)]
<1>5. w = [net EXCEPT !.quorum.target = target]
  BY <1>3
<1>6. w = [members |-> f, quorum |-> [q EXCEPT !.target = target]]
  BY <1>2, <1>5 DEF NetworkGood
<1>7. PICK gone \in IF M!should_remove_replicas(w) THEN M!select_nodes_for_removal(w) ELSE {{}} :
         net' = [w EXCEPT !.members = [n \in M!Members(w) |->
                   IF n \in gone THEN [w.members[n] EXCEPT !.complete = FALSE] ELSE w.members[n]]]
  BY Zenon DEF M!adjust_redundancy
<1> HIDE DEF w
<1>8. w.members = f /\ M!Members(w) = DOMAIN f
  BY <1>6 DEF M!Members
<1>9. net' = [members |-> [n \in DOMAIN f |->
                   IF n \in gone THEN [f[n] EXCEPT !.complete = FALSE] ELSE f[n]],
              quorum |-> [q EXCEPT !.target = target]]
  BY <1>6, <1>7, <1>8
<1>10. Adjusted(f, q, target, w, gone)
  BY <1>4, <1>6, <1>7, <1>9 DEF Adjusted
<1> QED BY <1>1, <1>10

LEMMA AdjustStep ==
    ASSUME MembersInv, M!adjust_redundancy
    PROVE  MembersInv'
<1>1. PICK f, q : f = net.members /\ q = net.quorum
  OBVIOUS
<1>2. /\ net # None
      /\ UNCHANGED <<letters, registered, now>>
      /\ \E target, w, gone : Adjusted(f, q, target, w, gone)
  BY <1>1, AdjustCases
<1>a. PICK target, w, gone : Adjusted(f, q, target, w, gone)
  BY <1>2
<1>3. NetworkGood(f, q)
  BY <1>1, <1>2 DEF MembersInv
<1>4. PICK r : r = [q EXCEPT !.target = target]
  OBVIOUS
<1>5. r \in [min : Nat, target : Nat, max : Nat] /\ r.max = q.max
  BY <1>3, <1>4, <1>a DEF NetworkGood, Adjusted
<1>6. PICK g : g = [n \in DOMAIN f |-> IF n \in gone THEN [f[n] EXCEPT !.complete = FALSE] ELSE f[n]]
  OBVIOUS
<1>7. ASSUME NEW n \in DOMAIN f
      PROVE  g[n] \in M!Member /\ g[n].key = f[n].key /\ g[n].seen = f[n].seen
  <2>1. f[n] \in M!Member
    BY <1>3 DEF NetworkGood
  <2>2. PICK m : m = [f[n] EXCEPT !.complete = FALSE]
    OBVIOUS
  <2>3. m \in M!Member /\ m.key = f[n].key /\ m.seen = f[n].seen
    BY <2>1, <2>2 DEF M!Member
  <2>4. g[n] = m \/ g[n] = f[n]
    BY <1>6, <2>2
  <2> QED BY <2>1, <2>3, <2>4
<1>8. DOMAIN g = DOMAIN f /\ g \in [DOMAIN f -> M!Member]
  BY <1>6, <1>7
<1>9. net' = [members |-> g, quorum |-> r] /\ r.max = net.quorum.max
  BY <1>1, <1>a, <1>4, <1>5, <1>6 DEF Adjusted
<1>10. \A n \in DOMAIN f : g[n].key = f[n].key /\ g[n].seen \in {f[n].seen, now}
  BY <1>7
<1> QED BY <1>1, <1>2, <1>5, <1>8, <1>9, <1>10, RecordsChange

LEMMA MembersInitially == M!Init => MembersInv
BY PartiesAssumption DEF M!Init, MembersInv

LEMMA MembersStep == MembersInv /\ M!Next => MembersInv'
<1> SUFFICES ASSUME MembersInv, M!Next PROVE MembersInv' OBVIOUS
<1>0. /\ net # None => net = [members |-> net.members, quorum |-> net.quorum] /\ NetworkGood(net.members, net.quorum)
      /\ now \in 0..MembershipMaxTime /\ registered \subseteq Party
  BY DEF MembersInv
<1>1. ASSUME NEW q \in Quorum, M!create_network(q) PROVE MembersInv'
  <2>1. PICK f : f = [n \in {} |-> None]
    OBVIOUS
  <2>2. net' = [members |-> f, quorum |-> q] /\ UNCHANGED <<letters, registered, now>>
    BY <1>1, <2>1 DEF M!create_network
  <2>3. DOMAIN f = {} /\ f \in [DOMAIN f -> M!Member]
    BY <2>1
  <2>4. Cardinality(DOMAIN f) = 0
    BY <2>3, FS_EmptySet
  <2>5. q \in [min : Nat, target : Nat, max : Nat]
    BY PartiesAssumption
  <2>6. Cardinality(DOMAIN f) <= q.max
    BY <2>4, <2>5
  <2>7. NetworkGood(f, q)'
    BY <2>3, <2>5, <2>6 DEF NetworkGood
  <2> QED BY <1>0, <2>2, <2>7, NetworkChanges
<1>2. ASSUME M!remove_network PROVE MembersInv'
  BY <1>2 DEF M!remove_network, MembersInv
<1>3. ASSUME NEW n \in Party, M!add_member(n) PROVE MembersInv'
  <2>1. /\ net # None /\ M!AddMember(n, TRUE) /\ registered' = registered \cup {n}
        /\ UNCHANGED <<letters, now>>
    BY <1>3 DEF M!add_member
  <2> QED BY <1>0, <2>1, AddMemberStep
<1>4. ASSUME NEW l \in letters, M!accept_invitation(l) PROVE MembersInv'
  <2>1. /\ net # None /\ M!AddMember(l.invitee, FALSE) /\ UNCHANGED <<letters, registered, now>>
        /\ l.inviter \in DOMAIN net.members /\ net.members[l.inviter].key
    BY <1>4 DEF M!accept_invitation, M!verify_invitation, M!Members
  <2>2. l.inviter \in registered /\ l.invitee \in Party
    BY <1>0, <2>1 DEF NetworkGood, MembersInv
  <2> QED BY <1>0, <2>1, <2>2, AddMemberStep
<1>5. ASSUME NEW n \in Party, M!remove_member(n) PROVE MembersInv'
  <2>1. PICK f, q : f = net.members /\ q = net.quorum
    OBVIOUS
  <2>2. net # None /\ UNCHANGED <<letters, registered, now>>
    BY <1>5 DEF M!remove_member
  <2>3. net = [members |-> f, quorum |-> q] /\ NetworkGood(f, q)
    BY <1>0, <2>1, <2>2
  <2>4. PICK g : g = [x \in DOMAIN f \ {n} |-> f[x]]
    OBVIOUS
  <2>5. net' = [members |-> g, quorum |-> q]
    BY <1>5, <2>1, <2>3, <2>4 DEF M!remove_member, M!Members
  <2>6. DOMAIN g \subseteq DOMAIN f /\ \A x \in DOMAIN g : g[x] = f[x]
    BY <2>4
  <2>7. g \in [DOMAIN g -> M!Member]
    BY <2>3, <2>4, <2>6 DEF NetworkGood
  <2>8. Cardinality(DOMAIN g) <= q.max
    <3>1. Cardinality(DOMAIN g) <= Cardinality(DOMAIN f)
      BY <2>3, <2>6, PartsFinite, FS_Subset DEF NetworkGood
    <3>2. Cardinality(DOMAIN f) \in Nat /\ Cardinality(DOMAIN g) \in Nat /\ q.max \in Nat /\ Cardinality(DOMAIN f) <= q.max
      BY <2>3, <2>6, PartsFinite DEF NetworkGood
    <3> QED BY <3>1, <3>2
  <2>9. NetworkGood(g, q)'
    BY <2>2, <2>3, <2>6, <2>7, <2>8 DEF NetworkGood
  <2> QED BY <1>0, <2>2, <2>5, <2>9, NetworkChanges
<1>6. ASSUME NEW n \in Party, NEW inviter \in Party, M!create_invitation(inviter, n) PROVE MembersInv'
  <2>1. PICK l : l = [inviter |-> inviter, invitee |-> n, expires |-> now + ValidFor]
    OBVIOUS
  <2>2. letters' = letters \cup {l} /\ UNCHANGED <<net, registered, now>> /\ l.inviter \in Party /\ l.invitee \in Party
    BY <1>6, <2>1 DEF M!create_invitation
  <2> QED BY <2>2 DEF MembersInv, NetworkGood
<1>7. ASSUME NEW n \in Party, NEW m, net # None, n \in DOMAIN net.members,
             net' = [net EXCEPT !.members[n] = m], UNCHANGED <<letters, registered, now>>,
             m \in M!Member, m.key = net.members[n].key, m.seen \in {net.members[n].seen, now}
      PROVE  MembersInv'
  <2>1. PICK f, q : f = net.members /\ q = net.quorum
    OBVIOUS
  <2>2. net = [members |-> f, quorum |-> q] /\ NetworkGood(f, q)
    BY <1>0, <1>7, <2>1
  <2>3. PICK g : g = [f EXCEPT ![n] = m]
    OBVIOUS
  <2>4. net' = [members |-> g, quorum |-> q]
    BY <1>7, <2>2, <2>3
  <2>5. DOMAIN g = DOMAIN f /\ g \in [DOMAIN f -> M!Member]
    BY <1>7, <2>2, <2>3 DEF NetworkGood
  <2>6. \A x \in DOMAIN f : g[x].key = f[x].key /\ g[x].seen \in {f[x].seen, now}
    BY <1>7, <2>1, <2>2, <2>3 DEF NetworkGood
  <2>7. q \in [min : Nat, target : Nat, max : Nat] /\ q.max = net.quorum.max
    BY <2>1, <2>2 DEF NetworkGood
  <2>8. net # None /\ UNCHANGED <<letters, registered, now>> /\ f = net.members
    BY <1>7, <2>1
  <2> QED BY <2>4, <2>5, <2>6, <2>7, <2>8, RecordsChange
<1>8. ASSUME NEW n \in Party, NEW score \in 0..1, M!update_member_reliability(n, score) PROVE MembersInv'
  <2>1. net # None /\ n \in DOMAIN net.members /\ UNCHANGED <<letters, registered, now>>
    BY <1>8 DEF M!update_member_reliability, M!Members
  <2>2. PICK m : m = [net.members[n] EXCEPT !.score = score]
    OBVIOUS
  <2>3. net.members[n] \in M!Member
    BY <1>0, <2>1 DEF NetworkGood
  <2>4. m \in M!Member /\ m.key = net.members[n].key /\ m.seen = net.members[n].seen
    BY <2>2, <2>3 DEF M!Member
  <2>5. net' = [net EXCEPT !.members[n] = m]
    BY <1>0, <1>8, <2>1, <2>2 DEF M!update_member_reliability
  <2> QED BY <1>7, <2>1, <2>4, <2>5
<1>9. ASSUME NEW n \in Party, NEW complete \in BOOLEAN, M!mark_replica_complete(n, complete) PROVE MembersInv'
  <2>1. net # None /\ n \in DOMAIN net.members /\ UNCHANGED <<letters, registered, now>>
    BY <1>9 DEF M!mark_replica_complete, M!Members
  <2>2. PICK m : m = [net.members[n] EXCEPT !.complete = complete]
    OBVIOUS
  <2>3. net.members[n] \in M!Member
    BY <1>0, <2>1 DEF NetworkGood
  <2>4. m \in M!Member /\ m.key = net.members[n].key /\ m.seen = net.members[n].seen
    BY <2>2, <2>3 DEF M!Member
  <2>5. net' = [net EXCEPT !.members[n] = m]
    BY <1>0, <1>9, <2>1, <2>2 DEF M!mark_replica_complete
  <2> QED BY <1>7, <2>1, <2>4, <2>5
<1>10. ASSUME NEW n \in Party, M!mark_member_active(n) PROVE MembersInv'
  <2>1. net # None /\ n \in DOMAIN net.members /\ UNCHANGED <<letters, registered, now>>
    BY <1>10 DEF M!mark_member_active, M!Members
  <2>2. PICK m : m = [net.members[n] EXCEPT !.seen = now]
    OBVIOUS
  <2>3. net.members[n] \in M!Member
    BY <1>0, <2>1 DEF NetworkGood
  <2>4. m \in M!Member /\ m.key = net.members[n].key /\ m.seen = now
    BY <1>0, <2>2, <2>3 DEF M!Member
  <2>5. net' = [net EXCEPT !.members[n] = m]
    BY <1>0, <1>10, <2>1, <2>2 DEF M!mark_member_active
  <2> QED BY <1>7, <2>1, <2>4, <2>5
<1>11. ASSUME M!Tick PROVE MembersInv'
  <2>1. now < MembershipMaxTime /\ now' = now + 1 /\ UNCHANGED <<net, letters, registered>>
    BY <1>11 DEF M!Tick
  <2>2. now' \in 0..MembershipMaxTime /\ now \in Nat
    BY <1>0, <2>1, PartiesAssumption
  <2>3. ASSUME net # None, NEW n \in DOMAIN net.members PROVE net.members[n].seen <= now'
    <3>1. net.members[n].seen \in Nat /\ net.members[n].seen <= now
      BY <1>0, <2>3, PartiesAssumption DEF NetworkGood, M!Member
    <3> QED BY <2>1, <2>2, <3>1
  <2> QED BY <2>1, <2>2, <2>3 DEF MembersInv, NetworkGood
<1> QED BY <1>1, <1>2, <1>3, <1>4, <1>5, <1>6, <1>8, <1>9, <1>10, <1>11, AdjustStep DEF M!Next

LEMMA MembersStepOrStutter == MembersInv /\ [NetworksNext]_all_vars => MembersInv'
<1> SUFFICES ASSUME MembersInv, [NetworksNext]_all_vars PROVE MembersInv' OBVIOUS
<1>1. CASE M!Next
  BY <1>1, MembersStep
<1>2. CASE UNCHANGED M_vars
  BY <1>2 DEF M_vars, MembersInv, NetworkGood
<1> QED BY <1>1, <1>2 DEF NetworksNext, all_vars

\* Whoever came by invitation cannot invite, and a network never has more
\* members than max_replicas allows (Membership): for any nodes, quorums and
\* times, and however often letters are used again.
THEOREM RolesSoundHolds == NetworksSpec => []RolesSound
<1>1. NetworksInit => MembersInv
  BY MembersInitially DEF NetworksInit
<1>2. MembersInv => RolesSound
  BY MembersInvGives DEF RolesSound
<1> QED BY <1>1, <1>2, MembersStepOrStutter, PTL DEF NetworksSpec

LEMMA LesserOfTwo ==
    ASSUME NEW a \in Int, NEW b \in Int
    PROVE  M!Min({a, b}) \in {a, b} /\ M!Min({a, b}) <= a /\ M!Min({a, b}) <= b
<1>1. \E x \in {a, b} : \A y \in {a, b} : x =< y
  OBVIOUS
<1>2. PICK x : x = M!Min({a, b})
  OBVIOUS
<1>3. x \in {a, b} /\ \A y \in {a, b} : x =< y
  BY <1>1, <1>2 DEF M!Min
<1> QED BY <1>2, <1>3

\* Those that select_nodes_for_removal names are at most as many as there are
\* active replicas above the minimum.
LEMMA FewAreRemoved ==
    ASSUME NEW w, NEW gone \in M!select_nodes_for_removal(w), M!Members(w) \subseteq Party,
           w.quorum.min \in Nat, w.quorum.target \in Nat,
           M!active_replica_count(w) >= w.quorum.min
    PROVE  /\ gone \subseteq Party
           /\ Cardinality(gone) <= Cardinality(M!ActiveReplicas(w)) - w.quorum.min
<1> DEFINE low == {n \in M!Replicas(w) : w.members[n].score = 0}
<1>1. low \subseteq Party /\ M!ActiveReplicas(w) \subseteq Party
  BY DEF M!Replicas, M!ActiveReplicas
<1>2. gone \in SUBSET low /\ Cardinality(gone) = M!Min({M!CanRemove(w), Cardinality(low)})
  BY SameCardinality DEF M!select_nodes_for_removal, M!kSubset
<1>3. PICK current : current = Cardinality(M!ActiveReplicas(w))
  OBVIOUS
<1>4. current \in Nat /\ Cardinality(low) \in Nat /\ current >= w.quorum.min /\ M!active_replica_count(w) = current
  BY <1>1, <1>3, PartsFinite, SameCardinality DEF M!active_replica_count
<1> HIDE DEF low
<1>5. M!CanRemove(w) = M!Min({current - w.quorum.target, current - w.quorum.min})
  BY <1>4 DEF M!CanRemove
<1>6. M!CanRemove(w) \in Int /\ M!CanRemove(w) <= current - w.quorum.min
  <2>1. PICK a \in Int, b \in Int : a = current - w.quorum.target /\ b = current - w.quorum.min
    BY <1>4
  <2>2. M!Min({a, b}) \in {a, b} /\ M!Min({a, b}) <= b
    BY LesserOfTwo
  <2>3. M!CanRemove(w) = M!Min({a, b})
    BY <1>5, <2>1
  <2> QED BY <2>1, <2>2, <2>3
<1>7. Cardinality(gone) <= M!CanRemove(w)
  <2>1. PICK a \in Int, b \in Int : a = M!CanRemove(w) /\ b = Cardinality(low)
    BY <1>4, <1>6
  <2>2. M!Min({a, b}) <= a
    BY LesserOfTwo
  <2> QED BY <1>2, <2>1, <2>2
<1>8. gone \subseteq Party
  BY <1>1, <1>2
<1>9. Cardinality(gone) \in Nat
  BY <1>8, PartsFinite
<1> QED BY <1>3, <1>4, <1>6, <1>7, <1>8, <1>9

\* A step of adjust_redundancy never takes a network that has its minimum of
\* active replicas below it (Membership), however many members are unreliable
\* or silent, and for any quorum, number of members and targets.
THEOREM AdjustKeepsMinimumHolds == NetworksSpec => AdjustKeepsMinimum
<1>1. ASSUME MembersInv, M!adjust_redundancy, M!active_replica_count(net) >= net.quorum.min
      PROVE  M!active_replica_count(net') >= net.quorum.min
  <2>1. PICK f, q : f = net.members /\ q = net.quorum
    OBVIOUS
  <2>2. net # None /\ \E target, w, gone : Adjusted(f, q, target, w, gone)
    BY <1>1, <2>1, AdjustCases
  <2>3. PICK target, w, gone : Adjusted(f, q, target, w, gone)
    BY <2>2
  <2>4. NetworkGood(f, q)
    BY <1>1, <2>1, <2>2 DEF MembersInv
  <2>5. w.members = f /\ w.quorum.min = q.min /\ w.quorum.target = target /\ target \in Nat /\ q.min \in Nat
    BY <2>3, <2>4 DEF Adjusted, NetworkGood
  <2>6. PICK R : R = M!ActiveReplicas(net)
    OBVIOUS
  <2>7. M!ActiveReplicas(w) = R /\ R \subseteq Party /\ M!Members(w) \subseteq Party
    BY <2>1, <2>4, <2>5, <2>6 DEF M!ActiveReplicas, M!Replicas, M!Members, M!is_member_active, NetworkGood
  <2>8. Cardinality(R) \in Nat /\ Cardinality(R) >= q.min
    BY <1>1, <2>1, <2>6, <2>7, PartsFinite, SameCardinality DEF M!active_replica_count
  <2>9. gone \subseteq Party /\ Cardinality(gone) <= Cardinality(R) - q.min
    <3>1. CASE M!should_remove_replicas(w)
      <4>1. gone \in M!select_nodes_for_removal(w)
        BY <2>3, <3>1 DEF Adjusted
      <4>2. M!active_replica_count(w) >= w.quorum.min
        BY <2>5, <2>7, <2>8, SameCardinality DEF M!active_replica_count
      <4> QED BY <2>5, <2>7, <4>1, <4>2, FewAreRemoved
    <3>2. CASE ~M!should_remove_replicas(w)
      <4>1. gone = {}
        BY <2>3, <3>2 DEF Adjusted
      <4>2. Cardinality(gone) = 0
        BY <4>1, FS_EmptySet
      <4> QED BY <2>5, <2>8, <4>1, <4>2
    <3> QED BY <3>1, <3>2
  <2>10. R \ gone \subseteq M!ActiveReplicas(net') /\ M!ActiveReplicas(net') \subseteq Party
    <3>1. PICK g : g = [n \in DOMAIN f |-> IF n \in gone THEN [f[n] EXCEPT !.complete = FALSE] ELSE f[n]]
      OBVIOUS
    <3>2. net'.members = g /\ DOMAIN g = DOMAIN f /\ \A n \in DOMAIN f : n \notin gone => g[n] = f[n]
      BY <2>3, <3>1 DEF Adjusted
    <3>3. ASSUME NEW n \in R \ gone PROVE n \in M!ActiveReplicas(net')
      <4>1. n \in DOMAIN f /\ f[n].complete /\ M!is_member_active(net, n)
        BY <2>1, <2>6 DEF M!ActiveReplicas, M!Replicas, M!Members
      <4>2. g[n] = f[n]
        BY <3>2, <4>1
      <4> QED BY <2>1, <3>2, <4>1, <4>2 DEF M!ActiveReplicas, M!Replicas, M!Members, M!is_member_active
    <3> QED BY <2>4, <3>2, <3>3 DEF M!ActiveReplicas, M!Replicas, M!Members, NetworkGood
  <2>11. Cardinality(R \ gone) = Cardinality(R) - Cardinality(R \cap gone)
    BY <2>7, PartsFinite, FS_Difference
  <2>12. Cardinality(R \cap gone) <= Cardinality(gone)
    BY <2>9, PartsFinite, FS_Subset
  <2>13. Cardinality(R \ gone) <= Cardinality(M!ActiveReplicas(net'))
    BY <2>10, PartsFinite, FS_Subset
  <2>14. /\ Cardinality(R \cap gone) \in Nat /\ Cardinality(gone) \in Nat /\ Cardinality(R \ gone) \in Nat
         /\ Cardinality(M!ActiveReplicas(net')) \in Nat
    BY <2>7, <2>9, <2>10, PartsFinite
  <2>15. Cardinality(M!ActiveReplicas(net')) >= q.min
    BY <2>5, <2>8, <2>9, <2>11, <2>12, <2>13, <2>14
  <2> QED BY <2>1, <2>15, SameCardinality DEF M!active_replica_count
<1>2. MembersInv => [M!adjust_redundancy /\ M!active_replica_count(net) >= net.quorum.min =>
                        M!active_replica_count(net') >= net.quorum.min]_(M!vars)
  BY <1>1
<1>3. NetworksSpec => []MembersInv
  <2>1. NetworksInit => MembersInv
    BY MembersInitially DEF NetworksInit
  <2>2. MembersInv /\ [NetworksNext]_all_vars => MembersInv'
    BY MembersStepOrStutter
  <2> QED BY <2>1, <2>2, PTL DEF NetworksSpec
<1> QED BY <1>2, <1>3, PTL DEF AdjustKeepsMinimum, M!AdjustKeepsMinimum

-----------------------------------------------------------------------------
(* Registry *)

LEMMA LeastNumber ==
    ASSUME NEW T \in SUBSET Nat, T # {}
    PROVE  \E x \in T : \A y \in T : x <= y
<1>1. PICK x \in T : \A y \in T : ~ (<<y, x>> \in OpToRel(<, Nat))
  BY NatLessThanWellFounded, WFMin
<1>2. \A y \in T : ~ (y < x)
  BY <1>1 DEF OpToRel
<1> QED BY <1>2

NetworkRecord == [id : D!Id, state : D!NetworkState]

\* The function that Without computes with, on the first k networks of s.
Keeps(f, id, s, k) ==
    f = [i \in 0..k |->
           IF i = 0 THEN <<>> ELSE IF s[i].id = id THEN f[i - 1] ELSE Append(f[i - 1], s[i])]

LEMMA KeepsExists ==
    ASSUME NEW S, NEW s \in Seq(S), NEW id
    PROVE  \E f : Keeps(f, id, s, Len(s))
<1> DEFINE T == {k \in 0..Len(s) : ~ \E f : Keeps(f, id, s, k)}
           next(q, e) == IF e.id = id THEN q ELSE Append(q, e)
<1>0. Len(s) \in Nat
  OBVIOUS
<1>1. SUFFICES ASSUME T # {} PROVE FALSE
  BY <1>0
<1>2. T \in SUBSET Nat
  BY <1>0
<1>3. PICK k \in T : \A j \in T : k <= j
  <2> HIDE DEF T
  <2> QED BY <1>1, <1>2, LeastNumber
<1>4. k # 0
  <2>1. Keeps([i \in 0..0 |-> <<>>], id, s, 0)
    BY DEF Keeps
  <2> QED BY <2>1
<1>5. k - 1 \in 0..Len(s) /\ k \in 1..Len(s)
  BY <1>0, <1>4
<1>6. PICK f : Keeps(f, id, s, k - 1)
  BY <1>3, <1>5
<1>7. f = [i \in 0..(k - 1) |-> IF i = 0 THEN <<>> ELSE next(f[i - 1], s[i])]
  BY <1>6 DEF Keeps
<1> DEFINE new == next(f[k - 1], s[k])
           g == [i \in 0..k |-> IF i = k THEN new ELSE f[i]]
<1> HIDE DEF next
<1>8. ASSUME NEW i \in 0..k
      PROVE  g[i] = IF i = 0 THEN <<>> ELSE next(g[i - 1], s[i])
  <2>1. CASE i = k
    <3>1. g[k - 1] = f[k - 1] /\ g[k] = new
      BY <1>5
    <3> QED BY <1>4, <2>1, <3>1
  <2>2. CASE i # k
    <3>1. g[i] = f[i] /\ i \in 0..(k - 1) /\ (i # 0 => g[i - 1] = f[i - 1])
      BY <1>5, <2>2
    <3>2. f[i] = IF i = 0 THEN <<>> ELSE next(f[i - 1], s[i])
      BY <1>7, <3>1
    <3> QED BY <3>1, <3>2
  <2> QED BY <2>1, <2>2
<1>9. g = [i \in 0..k |-> g[i]]
  OBVIOUS
<1> HIDE DEF g, new
<1>10. Keeps(g, id, s, k)
  <2>1. g = [i \in 0..k |-> IF i = 0 THEN <<>> ELSE next(g[i - 1], s[i])]
    BY <1>8, <1>9
  <2> QED BY <2>1 DEF Keeps, next
<1> QED BY <1>10

\* What Without leaves are elements of s, in the order of s.
Drawn(q, s, k) ==
    /\ \A a \in 1..Len(q) : \E c \in 1..k : q[a] = s[c]
    /\ \A a, b \in 1..Len(q) : a < b => \E c, d \in 1..k : c < d /\ q[a] = s[c] /\ q[b] = s[d]

LEMMA WithoutDraws ==
    ASSUME NEW S, NEW s \in Seq(S), NEW id
    PROVE  D!Without(id, s) \in Seq(S) /\ Drawn(D!Without(id, s), s, Len(s))
<1> DEFINE f == CHOOSE g : Keeps(g, id, s, Len(s))
           T == {k \in 0..Len(s) : ~(f[k] \in Seq(S) /\ Drawn(f[k], s, k))}
<1>0. Len(s) \in Nat /\ \A i \in 1..Len(s) : s[i] \in S
  OBVIOUS
<1>1. Keeps(f, id, s, Len(s))
  BY KeepsExists
<1>2. D!Without(id, s) = f[Len(s)]
  BY DEF D!Without, Keeps
<1> HIDE DEF f
<1>3. ASSUME T # {} PROVE FALSE
  <2>1. T \in SUBSET Nat
    BY <1>0
  <2>2. PICK k \in T : \A j \in T : k <= j
    <3> HIDE DEF T
    <3> QED BY <1>3, <2>1, LeastNumber
  <2>3. f[k] = IF k = 0 THEN <<>> ELSE IF s[k].id = id THEN f[k - 1] ELSE Append(f[k - 1], s[k])
    BY <1>1 DEF Keeps
  <2>4. k # 0
    <3>1. Len(<<>>) = 0 /\ <<>> \in Seq(S)
      OBVIOUS
    <3>2. Drawn(<<>>, s, 0)
      BY <3>1 DEF Drawn
    <3> QED BY <2>2, <2>3, <3>1, <3>2
  <2>5. k \in 1..Len(s) /\ k - 1 \in 0..Len(s) /\ s[k] \in S
    BY <1>0, <2>4
  <2>6. PICK q \in Seq(S) : q = f[k - 1] /\ Drawn(q, s, k - 1)
    BY <2>2, <2>5
  <2>7. CASE s[k].id = id
    <3>1. f[k] = q
      BY <2>3, <2>4, <2>6, <2>7
    <3>2. Drawn(q, s, k)
      BY <2>5, <2>6 DEF Drawn
    <3> QED BY <2>2, <3>1, <3>2
  <2>8. CASE s[k].id # id
    <3>1. f[k] = Append(q, s[k])
      BY <2>3, <2>4, <2>6, <2>8
    <3>2. PICK r : r = Append(q, s[k])
      OBVIOUS
    <3>3. /\ r \in Seq(S) /\ Len(r) = Len(q) + 1 /\ Len(q) \in Nat
          /\ r[Len(q) + 1] = s[k] /\ \A a \in 1..Len(q) : r[a] = q[a]
      BY <2>5, <3>2
    <3>4. ASSUME NEW a \in 1..Len(r) PROVE \E c \in 1..k : r[a] = s[c]
      <4>1. CASE a = Len(q) + 1
        BY <2>5, <3>3, <4>1
      <4>2. CASE a # Len(q) + 1
        <5>1. a \in 1..Len(q)
          BY <3>3, <4>2
        <5>2. PICK c \in 1..(k - 1) : q[a] = s[c]
          BY <2>6, <5>1 DEF Drawn
        <5> QED BY <2>5, <3>3, <5>1, <5>2
      <4> QED BY <4>1, <4>2
    <3>5. ASSUME NEW a \in 1..Len(r), NEW b \in 1..Len(r), a < b
          PROVE  \E c, d \in 1..k : c < d /\ r[a] = s[c] /\ r[b] = s[d]
      <4>1. a \in 1..Len(q)
        BY <3>3, <3>5
      <4>2. CASE b = Len(q) + 1
        <5>1. PICK c \in 1..(k - 1) : q[a] = s[c]
          BY <2>6, <4>1 DEF Drawn
        <5> QED BY <2>5, <3>3, <4>1, <4>2, <5>1
      <4>3. CASE b # Len(q) + 1
        <5>1. b \in 1..Len(q)
          BY <3>3, <4>3
        <5>2. PICK c \in 1..(k - 1), d \in 1..(k - 1) : c < d /\ q[a] = s[c] /\ q[b] = s[d]
          BY <2>6, <3>5, <4>1, <5>1 DEF Drawn
        <5>3. c \in 1..k /\ d \in 1..k /\ r[a] = s[c] /\ r[b] = s[d]
          BY <2>5, <3>3, <4>1, <5>1, <5>2
        <5> QED BY <5>2, <5>3
      <4> QED BY <4>2, <4>3
    <3>6. Drawn(r, s, k)
      BY <3>4, <3>5 DEF Drawn
    <3> QED BY <2>2, <3>1, <3>2, <3>3, <3>6
  <2> QED BY <2>7, <2>8
<1>4. Len(s) \notin T /\ Len(s) \in 0..Len(s)
  BY <1>0, <1>3
<1> QED BY <1>2, <1>4

FileState == D!NetworkState \cup {"none", "cut"}

\* Of two networks of one id, the later one is new.
LaterIsNew(s) == \A i, j \in 1..Len(s) : i < j /\ s[i].id = s[j].id => s[j].state = NewState

\* The first k networks of s are in the files, each as the last of its id.
Written(s, k) ==
    \A i \in 1..k : \E j \in i..k : s[j].id = s[i].id /\ files[s[i].id] = s[j].state

RegistryInv ==
    /\ networks \in Seq(NetworkRecord) /\ saved \in Seq(NetworkRecord)
    /\ files \in [D!Id -> FileState]
    /\ next_network_counter \in Nat
    /\ saving \in Int /\ saving >= -1 /\ saving <= Len(networks) + 1
    /\ all_ok \in BOOLEAN
    /\ LaterIsNew(networks)
    /\ Written(saved, Len(saved))
    /\ saving >= 1 => saved = <<>> /\ (all_ok => Written(networks, saving - 1))

LEMMA RegistryInvGives == RegistryInv => D!RegistrySound
<1> SUFFICES ASSUME RegistryInv PROVE D!RegistrySound OBVIOUS
<1>1. DOMAIN networks = 1..Len(networks) /\ DOMAIN saved = 1..Len(saved)
  BY DEF RegistryInv
<1> QED BY <1>1 DEF RegistryInv, LaterIsNew, Written, D!RegistrySound

LEMMA RegistryInitially == D!Init => RegistryInv
<1> SUFFICES ASSUME D!Init PROVE RegistryInv OBVIOUS
<1>1. networks = <<>> /\ saved = <<>> /\ next_network_counter = 0 /\ saving = 0 /\ all_ok = TRUE
      /\ files = [id \in D!Id |-> "none"]
  BY DEF D!Init
<1>2. networks \in Seq(NetworkRecord) /\ Len(networks) = 0 /\ saved \in Seq(NetworkRecord) /\ Len(saved) = 0
  BY <1>1
<1>3. files \in [D!Id -> FileState]
  BY <1>1 DEF FileState
<1> QED BY <1>1, <1>2, <1>3 DEF RegistryInv, LaterIsNew, Written

\* A network comes last.
LEMMA AppendStep ==
    ASSUME RegistryInv, D!Running, NEW n \in NetworkRecord, networks' = Append(networks, n),
           next_network_counter' \in Nat,
           n.state = NewState \/ \A i \in 1..Len(networks) : networks[i].id # n.id
    PROVE  RegistryInv'
<1>1. saving = 0 /\ UNCHANGED <<files, saving, all_ok, saved>>
  BY DEF D!Running
<1>2. /\ networks' \in Seq(NetworkRecord) /\ Len(networks') = Len(networks) + 1 /\ Len(networks) \in Nat
      /\ networks'[Len(networks) + 1] = n /\ \A i \in 1..Len(networks) : networks'[i] = networks[i]
  BY DEF RegistryInv
<1>3. LaterIsNew(networks')
  <2> SUFFICES ASSUME NEW i \in 1..Len(networks'), NEW j \in 1..Len(networks'), i < j,
                      networks'[i].id = networks'[j].id
               PROVE  networks'[j].state = NewState
    BY DEF LaterIsNew
  <2>1. i \in 1..Len(networks) /\ networks'[i] = networks[i]
    BY <1>2
  <2>2. CASE j = Len(networks) + 1
    BY <1>2, <2>1, <2>2
  <2>3. CASE j # Len(networks) + 1
    <3>1. j \in 1..Len(networks) /\ networks'[j] = networks[j]
      BY <1>2, <2>3
    <3> QED BY <2>1, <3>1 DEF RegistryInv, LaterIsNew
  <2> QED BY <2>2, <2>3
<1>4. LaterIsNew(networks)'
  BY <1>3 DEF LaterIsNew
<1> QED BY <1>1, <1>2, <1>4 DEF RegistryInv, Written

LEMMA RemoveStep ==
    ASSUME RegistryInv, NEW id, D!remove_network(id)
    PROVE  RegistryInv'
<1>1. /\ saving = 0 /\ UNCHANGED <<files, saving, all_ok, saved, next_network_counter>>
      /\ networks' = D!Without(id, networks)
  BY DEF D!remove_network, D!Running
<1>2. PICK q : q = networks'
  OBVIOUS
<1>3. q \in Seq(NetworkRecord) /\ Drawn(q, networks, Len(networks))
  BY <1>1, <1>2, WithoutDraws DEF RegistryInv
<1>4. LaterIsNew(q)
  BY <1>3 DEF Drawn, LaterIsNew, RegistryInv
<1>5. LaterIsNew(networks)'
  BY <1>2, <1>4 DEF LaterIsNew
<1>6. Len(q) \in Nat
  BY <1>3
<1> QED BY <1>1, <1>2, <1>3, <1>5, <1>6 DEF RegistryInv, Written

LEMMA SaveNetworkStep ==
    ASSUME RegistryInv, NEW outcome \in {"unopened", "unwritten", "written"}, D!save_network(outcome)
    PROVE  RegistryInv'
<1>1. /\ saving \in 1..Len(networks) /\ UNCHANGED <<networks, next_network_counter, saved>>
      /\ saving' = saving + 1
  BY DEF D!save_network, RegistryInv
<1>a. all_ok' = (all_ok /\ outcome = "written")
  BY DEF D!save_network
<1>2. PICK n : n = networks[saving]
  OBVIOUS
<1>3. n \in NetworkRecord /\ n.id \in D!Id /\ n.state \in FileState /\ "cut" \in FileState
  <2>1. n \in NetworkRecord
    BY <1>1, <1>2 DEF RegistryInv
  <2> QED BY <2>1 DEF NetworkRecord, FileState
<1>4. files' \in {files, [files EXCEPT ![n.id] = "cut"], [files EXCEPT ![n.id] = n.state]}
  BY <1>2 DEF D!save_network
<1>5. files' \in [D!Id -> FileState]
  BY <1>3, <1>4 DEF RegistryInv
<1>6. saved = <<>> /\ saving \in Nat /\ Len(networks) \in Nat
  BY <1>1 DEF RegistryInv
<1>7. ASSUME all_ok' PROVE Written(networks, saving - 1)'
  <2>1. all_ok /\ outcome = "written" /\ files' = [files EXCEPT ![n.id] = n.state]
    BY <1>2, <1>7, <1>a DEF D!save_network
  <2>2. Written(networks, saving - 1)
    BY <1>1, <2>1 DEF RegistryInv
  <2>3. ASSUME NEW i \in 1..saving
        PROVE  \E j \in i..saving : networks[j].id = networks[i].id /\ files'[networks[i].id] = networks[j].state
    <3>1. networks[i] \in NetworkRecord /\ networks[i].id \in D!Id
      <4>1. i \in 1..Len(networks)
        BY <1>1, <1>6
      <4>2. networks[i] \in NetworkRecord
        BY <4>1 DEF RegistryInv
      <4> QED BY <4>2 DEF NetworkRecord
    <3>2. CASE networks[i].id = n.id
      <4>1. files'[networks[i].id] = n.state
        BY <2>1, <3>1, <3>2 DEF RegistryInv
      <4> QED BY <1>2, <1>6, <3>2, <4>1
    <3>3. CASE networks[i].id # n.id
      <4>1. i \in 1..(saving - 1)
        BY <1>2, <1>6, <3>3
      <4>2. PICK j \in i..(saving - 1) : networks[j].id = networks[i].id /\ files[networks[i].id] = networks[j].state
        BY <2>2, <4>1 DEF Written
      <4>3. files'[networks[i].id] = files[networks[i].id]
        BY <2>1, <3>1, <3>3 DEF RegistryInv
      <4> QED BY <1>6, <4>2, <4>3
    <3> QED BY <3>2, <3>3
  <2>4. saving' - 1 = saving
    BY <1>1, <1>6
  <2> QED BY <1>1, <2>3, <2>4 DEF Written
<1>8. Written(saved, Len(saved))'
  BY <1>1, <1>6 DEF Written
<1>9. LaterIsNew(networks)'
  BY <1>1 DEF RegistryInv, LaterIsNew
<1>10. saving' \in Int /\ saving' >= -1 /\ saving' <= Len(networks') + 1
  BY <1>1, <1>6
<1>11. all_ok' \in BOOLEAN
  BY <1>a
<1> QED BY <1>1, <1>5, <1>6, <1>7, <1>8, <1>9, <1>10, <1>11 DEF RegistryInv

LEMMA CrashStep ==
    ASSUME RegistryInv, D!Crash
    PROVE  RegistryInv'
<1>1. /\ saving >= 0 /\ saving' = -1 /\ networks' = <<>> /\ UNCHANGED <<next_network_counter, all_ok, saved>>
      /\ files' \in {files} \cup {[files EXCEPT ![networks[i].id] = "cut"] : i \in DOMAIN networks \cap {saving}}
  BY DEF D!Crash
<1>2. DOMAIN networks = 1..Len(networks) /\ Len(networks) \in Nat
  BY DEF RegistryInv
<1>3. networks' \in Seq(NetworkRecord) /\ Len(networks') = 0
  BY <1>1
<1>4. LaterIsNew(networks)'
  BY <1>3 DEF LaterIsNew
<1>5. CASE files' = files
  BY <1>1, <1>3, <1>4, <1>5 DEF RegistryInv, Written
<1>6. CASE files' # files
  <2>1. saving \in 1..Len(networks) /\ files' = [files EXCEPT ![networks[saving].id] = "cut"]
    BY <1>1, <1>2, <1>6
  <2>2. saved = <<>> /\ Len(saved') = 0
    BY <1>1, <2>1 DEF RegistryInv
  <2>3. files' \in [D!Id -> FileState]
    BY <2>1 DEF RegistryInv, NetworkRecord, FileState
  <2>4. Written(saved, Len(saved))'
    BY <2>2 DEF Written
  <2> QED BY <1>1, <1>3, <1>4, <2>3, <2>4 DEF RegistryInv
<1> QED BY <1>5, <1>6

LEMMA LoadStep ==
    ASSUME RegistryInv, D!load_from_disk
    PROVE  RegistryInv'
<1>1. saving' = 0 /\ next_network_counter' = 0 /\ UNCHANGED <<files, all_ok, saved>>
  BY DEF D!load_from_disk
<1>2. PICK order \in D!SetToSeqs({id \in D!Id : D!deserialize(id)}) :
         networks' = [i \in DOMAIN order |-> D!Network(order[i], files[order[i]])]
  BY DEF D!load_from_disk
<1> DEFINE whole == {id \in D!Id : D!deserialize(id)}
<1>3. PICK k : /\ k = D!Cardinality(whole) /\ order \in [1..k -> whole]
               /\ \A i, j \in 1..k : i # j => order[i] # order[j]
  BY DEF D!SetToSeqs
<1>4. k \in Nat
  <2>1. IsFiniteSet(0..(MaxCounter - 1))
    BY FilesAssumption, FS_Interval
  <2>2. IsFiniteSet(D!Id)
    BY <2>1, FilesAssumption, FS_Product DEF D!Id
  <2>3. Cardinality(whole) \in Nat
    BY <2>2, FS_Subset, FS_CardinalityType
  <2> QED BY <1>3, <2>3 DEF D!Cardinality, Cardinality
<1>5. DOMAIN order = 1..k
  BY <1>3
<1>6. ASSUME NEW i \in 1..k
      PROVE  networks'[i] \in NetworkRecord /\ networks'[i].id = order[i]
  <2>1. order[i] \in D!Id /\ files[order[i]] \in D!NetworkState
    BY <1>3 DEF D!deserialize
  <2>2. networks'[i] = [id |-> order[i], state |-> files[order[i]]]
    BY <1>2, <1>5 DEF D!Network
  <2> QED BY <2>1, <2>2 DEF NetworkRecord
<1>7. networks' = [i \in 1..k |-> networks'[i]]
  BY <1>2, <1>5
<1>8. networks' \in Seq(NetworkRecord) /\ Len(networks') = k
  BY <1>4, <1>6, <1>7
<1>9. LaterIsNew(networks)'
  <2> SUFFICES ASSUME NEW i \in 1..k, NEW j \in 1..k, i < j PROVE networks'[i].id # networks'[j].id
    BY <1>8 DEF LaterIsNew
  <2>1. i # j
    BY <1>4
  <2> QED BY <1>3, <1>6, <2>1
<1> QED BY <1>1, <1>4, <1>8, <1>9 DEF RegistryInv, Written

LEMMA RegistryStep == RegistryInv /\ D!Next => RegistryInv'
<1> SUFFICES ASSUME RegistryInv, D!Next PROVE RegistryInv' OBVIOUS
<1>1. ASSUME NEW thing \in RegistryThing, D!create_network(thing) PROVE RegistryInv'
  <2>1. PICK n : n = D!Network(<<thing, next_network_counter>>, NewState)
    OBVIOUS
  <2>2. /\ D!Running /\ networks' = Append(networks, n) /\ next_network_counter' = next_network_counter + 1
        /\ next_network_counter < MaxCounter
    BY <1>1, <2>1 DEF D!create_network
  <2>3. next_network_counter \in 0..(MaxCounter - 1) /\ next_network_counter' \in Nat
    BY <2>2, FilesAssumption DEF RegistryInv
  <2>4. n \in NetworkRecord /\ n.state = NewState
    BY <2>1, <2>3 DEF D!Network, NetworkRecord, D!Id, D!NetworkState
  <2> QED BY <2>2, <2>3, <2>4, AppendStep
<1>2. ASSUME NEW id \in D!Id, NEW state \in State, D!add_network(D!Network(id, state)) PROVE RegistryInv'
  <2>1. PICK n : n = D!Network(id, state)
    OBVIOUS
  <2>2. D!Running /\ networks' = Append(networks, n) /\ ~D!IsIn(n.id, networks) /\ UNCHANGED next_network_counter
    BY <1>2, <2>1 DEF D!add_network
  <2>3. n \in NetworkRecord
    BY <2>1 DEF D!Network, NetworkRecord, D!NetworkState
  <2>4. \A i \in 1..Len(networks) : networks[i].id # n.id
    BY <2>2 DEF D!IsIn, RegistryInv
  <2>5. next_network_counter' \in Nat
    BY <2>2 DEF RegistryInv
  <2> QED BY <2>2, <2>3, <2>4, <2>5, AppendStep
<1>3. ASSUME D!save_to_disk PROVE RegistryInv'
  <2>1. /\ saving = 0 /\ saving' = 1 /\ all_ok' = TRUE /\ saved' = <<>>
        /\ UNCHANGED <<networks, next_network_counter, files>>
    BY <1>3 DEF D!save_to_disk
  <2>2. saved' \in Seq(NetworkRecord) /\ Len(saved') = 0 /\ Len(networks) \in Nat
    BY <2>1 DEF RegistryInv
  <2> QED BY <2>1, <2>2 DEF RegistryInv, LaterIsNew, Written
<1>4. ASSUME D!save_end PROVE RegistryInv'
  <2>1. /\ saving = Len(networks) + 1 /\ saving' = -1 /\ networks' = <<>>
        /\ UNCHANGED <<next_network_counter, files, all_ok>>
    BY <1>4 DEF D!save_end
  <2>2. networks' \in Seq(NetworkRecord) /\ Len(networks') = 0 /\ Len(networks) \in Nat
    BY <2>1 DEF RegistryInv
  <2>3. saved' \in Seq(NetworkRecord) /\ Written(saved, Len(saved))'
    <3>1. CASE all_ok
      <4>1. saved' = networks
        BY <1>4, <3>1 DEF D!save_end
      <4>2. Written(networks, Len(networks))
        BY <2>1, <2>2, <3>1 DEF RegistryInv
      <4> QED BY <2>1, <4>1, <4>2 DEF RegistryInv, Written
    <3>2. CASE ~all_ok
      <4>1. saved' = <<>>
        BY <1>4, <3>2 DEF D!save_end
      <4>2. saved' \in Seq(NetworkRecord) /\ Len(saved') = 0
        BY <4>1
      <4> QED BY <4>2 DEF Written
    <3> QED BY <3>1, <3>2
  <2>4. LaterIsNew(networks)'
    BY <2>2 DEF LaterIsNew
  <2> QED BY <2>1, <2>2, <2>3, <2>4 DEF RegistryInv
<1> QED BY <1>1, <1>2, <1>3, <1>4, RemoveStep, SaveNetworkStep, CrashStep, LoadStep DEF D!Next

\* Two networks share an id only when create_network made the second, and a
\* save that reports success has lost a network only to a later one of its id
\* (Registry): for any Things and states, and whatever crashes cut short.
THEOREM RegistrySoundHolds == NetworksSpec => []RegistrySound
<1>1. NetworksInit => RegistryInv
  BY RegistryInitially DEF NetworksInit
<1>2. RegistryInv /\ [NetworksNext]_all_vars => RegistryInv'
  <2> SUFFICES ASSUME RegistryInv, [NetworksNext]_all_vars PROVE RegistryInv' OBVIOUS
  <2>1. CASE D!Next
    BY <2>1, RegistryStep
  <2>2. CASE UNCHANGED D_vars
    BY <2>2 DEF D_vars, RegistryInv, LaterIsNew, Written
  <2> QED BY <2>1, <2>2 DEF NetworksNext, all_vars
<1>3. RegistryInv => RegistrySound
  BY RegistryInvGives DEF RegistrySound
<1> QED BY <1>1, <1>2, <1>3, PTL DEF NetworksSpec

-----------------------------------------------------------------------------
(* StateView.  The view is as good as the index and the events it stands on:
   the invariant speaks of any view, index and number k of events, so that it
   also holds of every view that rebuild_state passes through. *)

NodeRecord ==
    [ known : BOOLEAN, joined_at : Nat, is_active : BOOLEAN, key_balance : Nat,
      networks : SUBSET Net, hosted_things : SUBSET Thing, reputation_score : Nat, contributions : Nat ]
NetRecord == [ known : BOOLEAN, is_active : BOOLEAN, members : SUBSET Node ]
ThingRecord == [ known : BOOLEAN, is_available : BOOLEAN, hosts : SUBSET Node, replication_count : Nat ]

EventRecord ==
    [ type : AllKinds, source : Node, node : Node, target : Net \cup Thing \cup {None}, count : Nat, time : Nat ]

EventGood(e) ==
    /\ e \in EventRecord
    /\ e.type \in NetKinds \cup {"NETWORK_CREATED"} => e.target \in Net
    /\ e.type \in ThingKinds => e.target \in Thing

Joined(n, t, s, k) == \E i \in 1..k : s[i].type = "NODE_JOINED" /\ s[i].source = n /\ s[i].time = t

IndexGood(ix) ==
    ix \in [ key_balances : [Node -> Nat], network_members : [Net -> SUBSET Node],
             thing_hosts : [Thing -> SUBSET Node], node_join_times : [Node -> Nat \cup {None}] ]

NodeGood(n, r, things, ix, s, k) ==
    /\ r \in NodeRecord
    /\ ~r.known => r = NewNode
    /\ r.key_balance <= ix.key_balances[n]
    /\ r.is_active => Joined(n, r.joined_at, s, k)
    /\ \A t \in r.hosted_things : n \in things[t].hosts

NetGood(w, r, ix) ==
    /\ r \in NetRecord
    /\ ~r.known => r = NewNetwork
    /\ r.members \subseteq ix.network_members[w]

ThingGood(t, r, ix) ==
    /\ r \in ThingRecord
    /\ ~r.known => r = NewThing
    /\ r.replication_count = Cardinality(r.hosts)
    /\ r.is_available <=> r.hosts # {}
    /\ r.hosts \subseteq ix.thing_hosts[t]

ViewGood(v, ix, s, k) ==
    /\ v = [nodes |-> v.nodes, networks |-> v.networks, things |-> v.things]
    /\ v.nodes = [n \in Node |-> v.nodes[n]]
    /\ v.networks = [w \in Net |-> v.networks[w]]
    /\ v.things = [t \in Thing |-> v.things[t]]
    /\ \A n \in Node : NodeGood(n, v.nodes[n], v.things, ix, s, k)
    /\ \A w \in Net : NetGood(w, v.networks[w], ix)
    /\ \A t \in Thing : ThingGood(t, v.things[t], ix)

\* The caches only grow.
IndexGrows(ix, jx) ==
    /\ \A n \in Node : ix.key_balances[n] <= jx.key_balances[n]
    /\ \A w \in Net : ix.network_members[w] \subseteq jx.network_members[w]
    /\ \A t \in Thing : ix.thing_hosts[t] \subseteq jx.thing_hosts[t]

LEMMA NewRecords ==
    /\ NewNode \in NodeRecord /\ NewNetwork \in NetRecord /\ NewThing \in ThingRecord
    /\ NewNode.key_balance = 0 /\ NewNode.is_active = FALSE /\ NewNode.hosted_things = {}
    /\ NewNetwork.members = {}
    /\ NewThing.hosts = {} /\ NewThing.replication_count = 0 /\ NewThing.is_available = FALSE
BY DEF NewNode, NewNetwork, NewThing, NodeRecord, NetRecord, ThingRecord

LEMMA EventFields ==
    ASSUME NEW e, EventGood(e)
    PROVE  /\ e.type \in AllKinds /\ e.source \in Node /\ e.node \in Node /\ e.count \in Nat /\ e.time \in Nat
           /\ e.type \in {"NETWORK_MEMBER_ADDED", "NETWORK_MEMBER_REMOVED", "NETWORK_CREATED"} => e.target \in Net
           /\ e.type \in {"THING_REPLICATED", "THING_REMOVED"} => e.target \in Thing
BY DEF EventGood, EventRecord, NetKinds, ThingKinds

LEMMA IndexEventGood ==
    ASSUME NEW ix, IndexGood(ix), NEW e, EventGood(e)
    PROVE  /\ IndexGood(IndexEvent(ix, e)) /\ IndexGrows(ix, IndexEvent(ix, e))
           /\ e.type = "KEY_ISSUED" =>
                 IndexEvent(ix, e).key_balances[e.source] = ix.key_balances[e.source] + e.count
           /\ e.type = "NETWORK_MEMBER_ADDED" => e.node \in IndexEvent(ix, e).network_members[e.target]
           /\ e.type = "THING_REPLICATED" => e.node \in IndexEvent(ix, e).thing_hosts[e.target]
<1> USE EventFields
<1>1. CASE e.type = "NODE_JOINED"
  <2>1. IndexEvent(ix, e) = [ix EXCEPT !.node_join_times[e.source] = e.time]
    BY <1>1 DEF IndexEvent
  <2> QED BY <1>1, <2>1 DEF IndexGood, IndexGrows
<1>2. CASE e.type = "KEY_ISSUED"
  <2>1. IndexEvent(ix, e) = [ix EXCEPT !.key_balances[e.source] = ix.key_balances[e.source] + e.count]
    BY <1>2 DEF IndexEvent, IndexGood
  <2> QED BY <1>2, <2>1 DEF IndexGood, IndexGrows
<1>3. CASE e.type = "NETWORK_MEMBER_ADDED"
  <2>1. IndexEvent(ix, e) = [ix EXCEPT !.network_members[e.target] = ix.network_members[e.target] \cup {e.node}]
    BY <1>3 DEF IndexEvent, IndexGood
  <2> QED BY <1>3, <2>1 DEF IndexGood, IndexGrows
<1>4. CASE e.type = "THING_REPLICATED"
  <2>1. IndexEvent(ix, e) = [ix EXCEPT !.thing_hosts[e.target] = ix.thing_hosts[e.target] \cup {e.node}]
    BY <1>4 DEF IndexEvent, IndexGood
  <2> QED BY <1>4, <2>1 DEF IndexGood, IndexGrows
<1>5. CASE e.type \notin {"NODE_JOINED", "KEY_ISSUED", "NETWORK_MEMBER_ADDED", "THING_REPLICATED"}
  <2>1. IndexEvent(ix, e) = ix
    BY <1>5 DEF IndexEvent
  <2> QED BY <1>5, <2>1 DEF IndexGood, IndexGrows
<1> QED BY <1>1, <1>2, <1>3, <1>4, <1>5

\* One entry of a view replaced.
WithNode(v, n, r) ==
    [nodes |-> [v.nodes EXCEPT ![n] = r], networks |-> v.networks, things |-> v.things]
WithNet(v, w, r) ==
    [nodes |-> v.nodes, networks |-> [v.networks EXCEPT ![w] = r], things |-> v.things]
WithThing(v, t, r) ==
    [nodes |-> v.nodes, networks |-> v.networks, things |-> [v.things EXCEPT ![t] = r]]

LEMMA GoodWithNode ==
    ASSUME NEW v, NEW ix, NEW s, NEW k, ViewGood(v, ix, s, k),
           NEW n \in Node, NEW r, NodeGood(n, r, v.things, ix, s, k)
    PROVE  ViewGood(WithNode(v, n, r), ix, s, k)
<1> DEFINE u == WithNode(v, n, r)
<1>1. u = [nodes |-> u.nodes, networks |-> u.networks, things |-> u.things]
      /\ u.nodes = [v.nodes EXCEPT ![n] = r] /\ u.networks = v.networks /\ u.things = v.things
  BY DEF WithNode
<1>2. u.nodes = [m \in Node |-> u.nodes[m]] /\ u.nodes[n] = r /\ \A m \in Node \ {n} : u.nodes[m] = v.nodes[m]
  BY <1>1 DEF ViewGood
<1> HIDE DEF u
<1>3. \A m \in Node : NodeGood(m, u.nodes[m], u.things, ix, s, k)
  BY <1>1, <1>2 DEF ViewGood
<1> QED BY <1>1, <1>2, <1>3 DEF ViewGood, u

LEMMA GoodWithNet ==
    ASSUME NEW v, NEW ix, NEW s, NEW k, ViewGood(v, ix, s, k),
           NEW w \in Net, NEW r, NetGood(w, r, ix)
    PROVE  ViewGood(WithNet(v, w, r), ix, s, k)
<1> DEFINE u == WithNet(v, w, r)
<1>1. u = [nodes |-> u.nodes, networks |-> u.networks, things |-> u.things]
      /\ u.nodes = v.nodes /\ u.networks = [v.networks EXCEPT ![w] = r] /\ u.things = v.things
  BY DEF WithNet
<1>2. u.networks = [m \in Net |-> u.networks[m]] /\ u.networks[w] = r
      /\ \A m \in Net \ {w} : u.networks[m] = v.networks[m]
  BY <1>1 DEF ViewGood
<1> HIDE DEF u
<1>3. \A m \in Net : NetGood(m, u.networks[m], ix)
  BY <1>1, <1>2 DEF ViewGood
<1> QED BY <1>1, <1>2, <1>3 DEF ViewGood, u

LEMMA GoodWithThing ==
    ASSUME NEW v, NEW ix, NEW s, NEW k, ViewGood(v, ix, s, k),
           NEW t \in Thing, NEW r, ThingGood(t, r, ix),
           \A n \in Node : t \in v.nodes[n].hosted_things => n \in r.hosts
    PROVE  ViewGood(WithThing(v, t, r), ix, s, k)
<1> DEFINE u == WithThing(v, t, r)
<1>1. u = [nodes |-> u.nodes, networks |-> u.networks, things |-> u.things]
      /\ u.nodes = v.nodes /\ u.networks = v.networks /\ u.things = [v.things EXCEPT ![t] = r]
  BY DEF WithThing
<1>2. u.things = [m \in Thing |-> u.things[m]] /\ u.things[t] = r
      /\ \A m \in Thing \ {t} : u.things[m] = v.things[m]
  BY <1>1 DEF ViewGood
<1> HIDE DEF u
<1>3. \A m \in Thing : ThingGood(m, u.things[m], ix)
  BY <1>1, <1>2 DEF ViewGood
<1>4. ASSUME NEW n \in Node
      PROVE  NodeGood(n, u.nodes[n], u.things, ix, s, k)
  <2>1. NodeGood(n, v.nodes[n], v.things, ix, s, k)
    BY DEF ViewGood
  <2>2. \A m \in v.nodes[n].hosted_things : m \in Thing /\ n \in v.things[m].hosts
    BY <2>1 DEF NodeGood, NodeRecord
  <2>3. \A m \in v.nodes[n].hosted_things : n \in u.things[m].hosts
    BY <1>2, <2>2
  <2> QED BY <1>1, <2>1, <2>3 DEF NodeGood
<1> QED BY <1>1, <1>2, <1>3, <1>4 DEF ViewGood, u

\* A longer ledger and larger caches stand behind a view as well.
LEMMA GoodGrows ==
    ASSUME NEW v, NEW ix, NEW jx, IndexGood(ix), IndexGood(jx), IndexGrows(ix, jx),
           NEW s, NEW z, NEW k \in Nat, NEW m \in Nat, k <= m, \A i \in 1..k : z[i] = s[i], ViewGood(v, ix, s, k)
    PROVE  ViewGood(v, jx, z, m)
<1>1. ASSUME NEW n \in Node
      PROVE  NodeGood(n, v.nodes[n], v.things, jx, z, m)
  <2>1. NodeGood(n, v.nodes[n], v.things, ix, s, k)
    BY DEF ViewGood
  <2>2. v.nodes[n].key_balance <= jx.key_balances[n]
    <3>1. v.nodes[n].key_balance \in Nat /\ ix.key_balances[n] \in Nat /\ jx.key_balances[n] \in Nat
      BY <2>1 DEF NodeGood, NodeRecord, IndexGood
    <3> QED BY <2>1, <3>1 DEF NodeGood, IndexGrows
  <2>3. v.nodes[n].is_active => Joined(n, v.nodes[n].joined_at, z, m)
    BY <2>1 DEF NodeGood, Joined
  <2> QED BY <2>1, <2>2, <2>3 DEF NodeGood
<1>2. \A w \in Net : NetGood(w, v.networks[w], jx)
  BY DEF ViewGood, NetGood, IndexGrows
<1>3. \A t \in Thing : ThingGood(t, v.things[t], jx)
  BY DEF ViewGood, ThingGood, IndexGrows
<1> QED BY <1>1, <1>2, <1>3 DEF ViewGood

\* Each handler keeps the view good: it finds v good on the caches and the k
\* events that include its own.
LEMMA ApplyGood ==
    ASSUME NEW v, NEW ix, NEW s, NEW k, NEW e, ViewGood(v, ix, s, k), IndexGood(ix), EventGood(e),
           e.type = "NODE_JOINED" => Joined(e.source, e.time, s, k),
           e.type = "KEY_ISSUED" => v.nodes[e.source].key_balance + e.count <= ix.key_balances[e.source],
           e.type = "NETWORK_MEMBER_ADDED" => e.node \in ix.network_members[e.target],
           e.type = "THING_REPLICATED" => e.node \in ix.thing_hosts[e.target]
    PROVE  ViewGood(apply_event(v, e), ix, s, k)
<1>0. e.type \in AllKinds /\ e.source \in Node /\ e.node \in Node /\ e.count \in Nat /\ e.time \in Nat
  BY EventFields
<1>v. /\ v = [nodes |-> v.nodes, networks |-> v.networks, things |-> v.things]
      /\ v.nodes = [n \in Node |-> v.nodes[n]]
      /\ v.networks = [w \in Net |-> v.networks[w]]
      /\ v.things = [t \in Thing |-> v.things[t]]
  BY DEF ViewGood
<1>s. PICK a : a = v.nodes[e.source]
  OBVIOUS
<1>sg. NodeGood(e.source, a, v.things, ix, s, k) /\ a \in NodeRecord
  BY <1>0, <1>s DEF ViewGood, NodeGood
<1>n. PICK b : b = v.nodes[e.node]
  OBVIOUS
<1>ng. NodeGood(e.node, b, v.things, ix, s, k) /\ b \in NodeRecord
  BY <1>0, <1>n DEF ViewGood, NodeGood
<1>1. CASE e.type = "NODE_JOINED"
  <2>1. PICK r : r = [NewNode EXCEPT !.known = TRUE, !.joined_at = e.time, !.is_active = TRUE]
    OBVIOUS
  <2>2. /\ r \in NodeRecord /\ r.known = TRUE /\ r.key_balance = 0 /\ r.joined_at = e.time
        /\ r.hosted_things = {}
    BY <1>0, <2>1, NewRecords DEF NodeRecord
  <2>3. ix.key_balances[e.source] \in Nat
    BY <1>0 DEF IndexGood
  <2>4. NodeGood(e.source, r, v.things, ix, s, k)
    BY <1>1, <2>2, <2>3 DEF NodeGood
  <2>5. apply_event(v, e) = WithNode(v, e.source, r)
    <3>1. apply_event(v, e) = [v EXCEPT !.nodes[e.source] = r]
      BY <1>1, <2>1 DEF apply_event, apply_node_joined
    <3> QED BY <1>0, <1>v, <3>1 DEF WithNode
  <2> QED BY <1>0, <2>4, <2>5, GoodWithNode
<1>2. CASE e.type = "NODE_LEFT"
  <2>1. PICK r : r = [a EXCEPT !.is_active = FALSE]
    OBVIOUS
  <2>2. /\ r \in NodeRecord /\ r.is_active = FALSE /\ r.known = a.known
        /\ r.key_balance = a.key_balance /\ r.hosted_things = a.hosted_things
    BY <1>sg, <2>1 DEF NodeRecord
  <2>3. ~r.known => r = NewNode
    <3>1. ~r.known => a = NewNode
      BY <1>sg, <2>2 DEF NodeGood
    <3>2. [NewNode EXCEPT !.is_active = NewNode.is_active] = NewNode
      BY DEF NewNode
    <3> QED BY <2>1, <3>1, <3>2, NewRecords
  <2>4. NodeGood(e.source, r, v.things, ix, s, k)
    BY <1>sg, <2>2, <2>3 DEF NodeGood
  <2>5. apply_event(v, e) = WithNode(v, e.source, r)
    <3>1. apply_event(v, e) = [v EXCEPT !.nodes[e.source].is_active = FALSE]
      BY <1>2 DEF apply_event, apply_node_left
    <3> QED BY <1>0, <1>v, <1>s, <2>1, <3>1 DEF WithNode
  <2> QED BY <1>0, <2>4, <2>5, GoodWithNode
<1>3. CASE e.type = "KEY_ISSUED"
  <2>1. PICK r : r = [a EXCEPT !.known = TRUE, !.key_balance = a.key_balance + e.count]
    OBVIOUS
  <2>0. a.key_balance + e.count \in Nat
    BY <1>0, <1>sg DEF NodeRecord
  <2>2. /\ r \in NodeRecord /\ r.is_active = a.is_active /\ r.known = TRUE /\ r.joined_at = a.joined_at
        /\ r.key_balance = a.key_balance + e.count /\ r.hosted_things = a.hosted_things
    BY <1>sg, <2>0, <2>1 DEF NodeRecord
  <2>4. NodeGood(e.source, r, v.things, ix, s, k)
    BY <1>sg, <1>s, <1>3, <2>2 DEF NodeGood
  <2>5. apply_event(v, e) = WithNode(v, e.source, r)
    <3>1. apply_event(v, e) = [v EXCEPT !.nodes[e.source] = [a EXCEPT !.known = TRUE, !.key_balance = @ + e.count]]
      BY <1>3, <1>s DEF apply_event, apply_key_issued
    <3>2. [a EXCEPT !.known = TRUE, !.key_balance = @ + e.count] = r
      BY <1>sg, <2>1 DEF NodeRecord
    <3> QED BY <1>0, <1>v, <1>s, <3>1, <3>2 DEF WithNode
  <2> QED BY <1>0, <2>4, <2>5, GoodWithNode
<1>4. CASE e.type = "KEY_REVOKED"
  <2>0. PICK c : c = IF a.key_balance > e.count THEN a.key_balance - e.count ELSE 0
    OBVIOUS
  <2>00. c \in Nat /\ c <= a.key_balance /\ a.key_balance \in Nat
    BY <1>0, <1>sg, <2>0 DEF NodeRecord
  <2>1. PICK r : r = [a EXCEPT !.known = TRUE, !.key_balance = c]
    OBVIOUS
  <2>2. /\ r \in NodeRecord /\ r.is_active = a.is_active /\ r.known = TRUE /\ r.joined_at = a.joined_at
        /\ r.key_balance = c /\ r.hosted_things = a.hosted_things
    BY <1>0, <1>sg, <2>1, <2>00 DEF NodeRecord
  <2>3. ix.key_balances[e.source] \in Nat
    BY <1>0 DEF IndexGood
  <2>4. NodeGood(e.source, r, v.things, ix, s, k)
    BY <1>sg, <2>00, <2>2, <2>3 DEF NodeGood
  <2>5. apply_event(v, e) = WithNode(v, e.source, r)
    <3>1. apply_event(v, e) = [v EXCEPT !.nodes[e.source] =
              [a EXCEPT !.known = TRUE, !.key_balance = IF @ > e.count THEN @ - e.count ELSE 0]]
      BY <1>4, <1>s DEF apply_event, apply_key_revoked
    <3>2. [a EXCEPT !.known = TRUE, !.key_balance = IF @ > e.count THEN @ - e.count ELSE 0] = r
      BY <1>sg, <2>0, <2>1 DEF NodeRecord
    <3> QED BY <1>0, <1>v, <1>s, <3>1, <3>2 DEF WithNode
  <2> QED BY <1>0, <2>4, <2>5, GoodWithNode
<1>5. CASE e.type = "NETWORK_CREATED"
  <2>0. e.target \in Net
    BY <1>5, EventFields
  <2>1. PICK r : r = [NewNetwork EXCEPT !.known = TRUE, !.is_active = TRUE]
    OBVIOUS
  <2>2. r \in NetRecord /\ r.known = TRUE /\ r.members = {}
    BY <2>1, NewRecords DEF NetRecord
  <2>3. NetGood(e.target, r, ix)
    BY <2>2 DEF NetGood
  <2>4. apply_event(v, e) = WithNet(v, e.target, r)
    <3>1. apply_event(v, e) = [v EXCEPT !.networks[e.target] = r]
      BY <1>5, <2>1 DEF apply_event, apply_network_created
    <3> QED BY <1>v, <2>0, <3>1 DEF WithNet
  <2> QED BY <2>0, <2>3, <2>4, GoodWithNet
<1>6. CASE e.type = "NETWORK_MEMBER_ADDED"
  <2>0. e.target \in Net
    BY <1>6, EventFields
  <2>1. PICK c : c = v.networks[e.target]
    OBVIOUS
  <2>2. NetGood(e.target, c, ix) /\ c \in NetRecord
    BY <2>0, <2>1 DEF ViewGood, NetGood
  <2>3. PICK q : q = [c EXCEPT !.known = TRUE, !.members = c.members \cup {e.node}]
    OBVIOUS
  <2>4. q \in NetRecord /\ q.known = TRUE /\ q.members = c.members \cup {e.node}
    BY <1>0, <2>2, <2>3 DEF NetRecord
  <2>5. NetGood(e.target, q, ix)
    BY <1>6, <2>2, <2>4 DEF NetGood
  <2>6. PICK u : u = WithNet(v, e.target, q)
    OBVIOUS
  <2>7. ViewGood(u, ix, s, k)
    BY <2>0, <2>5, <2>6, GoodWithNet
  <2>8. PICK r : r = [b EXCEPT !.known = TRUE, !.networks = b.networks \cup {e.target}]
    OBVIOUS
  <2>9. /\ r \in NodeRecord /\ r.is_active = b.is_active /\ r.known = TRUE /\ r.joined_at = b.joined_at
        /\ r.key_balance = b.key_balance /\ r.hosted_things = b.hosted_things
    BY <1>ng, <2>0, <2>8 DEF NodeRecord
  <2>10. u.nodes = v.nodes /\ u.things = v.things /\ u.networks = [v.networks EXCEPT ![e.target] = q]
    BY <2>6 DEF WithNet
  <2>11. NodeGood(e.node, r, u.things, ix, s, k)
    BY <1>ng, <2>9, <2>10 DEF NodeGood
  <2>12. apply_event(v, e) = WithNode(u, e.node, r)
    <3>1. apply_event(v, e) =
              [v EXCEPT !.networks[e.target] = [c EXCEPT !.known = TRUE, !.members = @ \cup {e.node}],
                        !.nodes[e.node] = [b EXCEPT !.known = TRUE, !.networks = @ \cup {e.target}]]
      BY <1>6, <1>n, <2>1 DEF apply_event, apply_network_member_added
    <3>q. [c EXCEPT !.known = TRUE, !.members = @ \cup {e.node}] = q
      BY <2>2, <2>3 DEF NetRecord
    <3>r. [b EXCEPT !.known = TRUE, !.networks = @ \cup {e.target}] = r
      BY <1>ng, <2>8 DEF NodeRecord
    <3>2. apply_event(v, e).networks = [v.networks EXCEPT ![e.target] = q]
      BY <1>v, <2>0, <2>1, <3>q, <3>1
    <3>3. apply_event(v, e).nodes = [v.nodes EXCEPT ![e.node] = r]
      BY <1>0, <1>v, <1>n, <3>r, <3>1
    <3>4. apply_event(v, e) = [nodes |-> apply_event(v, e).nodes, networks |-> apply_event(v, e).networks,
                               things |-> v.things]
      BY <1>v, <3>1
    <3> QED BY <2>10, <3>2, <3>3, <3>4 DEF WithNode
  <2> QED BY <1>0, <2>7, <2>11, <2>12, GoodWithNode
<1>7. CASE e.type = "NETWORK_MEMBER_REMOVED"
  <2>0. e.target \in Net
    BY <1>7, EventFields
  <2>1. PICK c : c = v.networks[e.target]
    OBVIOUS
  <2>2. NetGood(e.target, c, ix) /\ c \in NetRecord
    BY <2>0, <2>1 DEF ViewGood, NetGood
  <2>3. PICK q : q = [c EXCEPT !.members = c.members \ {e.node}]
    OBVIOUS
  <2>4. q \in NetRecord /\ q.known = c.known /\ q.members = c.members \ {e.node}
    BY <1>0, <2>2, <2>3 DEF NetRecord
  <2>41. ~q.known => q = NewNetwork
    <3>1. ~q.known => c = NewNetwork
      BY <2>2, <2>4 DEF NetGood
    <3>2. [NewNetwork EXCEPT !.members = NewNetwork.members] = NewNetwork
      BY DEF NewNetwork
    <3>3. c = NewNetwork => c.members \ {e.node} = NewNetwork.members
      BY NewRecords
    <3> QED BY <2>3, <3>1, <3>2, <3>3
  <2>5. NetGood(e.target, q, ix)
    BY <2>2, <2>4, <2>41 DEF NetGood
  <2>6. PICK u : u = WithNet(v, e.target, q)
    OBVIOUS
  <2>7. ViewGood(u, ix, s, k)
    BY <2>0, <2>5, <2>6, GoodWithNet
  <2>8. PICK r : r = [b EXCEPT !.networks = b.networks \ {e.target}]
    OBVIOUS
  <2>9. /\ r \in NodeRecord /\ r.is_active = b.is_active /\ r.known = b.known /\ r.joined_at = b.joined_at
        /\ r.key_balance = b.key_balance /\ r.hosted_things = b.hosted_things
    BY <1>ng, <2>0, <2>8 DEF NodeRecord
  <2>91. ~r.known => r = NewNode
    <3>1. ~r.known => b = NewNode
      BY <1>ng, <2>9 DEF NodeGood
    <3>2. [NewNode EXCEPT !.networks = NewNode.networks] = NewNode
      BY DEF NewNode
    <3>3. b = NewNode => b.networks \ {e.target} = NewNode.networks
      BY DEF NewNode
    <3> QED BY <2>8, <3>1, <3>2, <3>3
  <2>10. u.nodes = v.nodes /\ u.things = v.things /\ u.networks = [v.networks EXCEPT ![e.target] = q]
    BY <2>6 DEF WithNet
  <2>11. NodeGood(e.node, r, u.things, ix, s, k)
    BY <1>ng, <2>9, <2>91, <2>10 DEF NodeGood
  <2>12. apply_event(v, e) = WithNode(u, e.node, r)
    <3>1. apply_event(v, e) = [v EXCEPT !.networks[e.target].members = @ \ {e.node},
              !.nodes[e.node].networks = @ \ {e.target}]
      BY <1>7 DEF apply_event, apply_network_member_removed
    <3>2. apply_event(v, e).networks = [v.networks EXCEPT ![e.target] = q]
      BY <1>v, <2>0, <2>1, <2>2, <2>3, <3>1 DEF NetRecord
    <3>3. apply_event(v, e).nodes = [v.nodes EXCEPT ![e.node] = r]
      BY <1>0, <1>v, <1>n, <1>ng, <2>8, <3>1 DEF NodeRecord
    <3>4. apply_event(v, e) = [nodes |-> apply_event(v, e).nodes, networks |-> apply_event(v, e).networks,
                               things |-> v.things]
      BY <1>v, <3>1
    <3> QED BY <2>10, <3>2, <3>3, <3>4 DEF WithNode
  <2> QED BY <1>0, <2>7, <2>11, <2>12, GoodWithNode
<1>8. CASE e.type = "THING_REPLICATED"
  <2>0. e.target \in Thing
    BY <1>8, EventFields
  <2>1. PICK c : c = v.things[e.target]
    OBVIOUS
  <2>2. ThingGood(e.target, c, ix) /\ c \in ThingRecord
    BY <2>0, <2>1 DEF ViewGood, ThingGood
  <2>h. PICK hosts : hosts = c.hosts \cup {e.node}
    OBVIOUS
  <2>hc. hosts \in SUBSET Node /\ Cardinality(hosts) \in Nat
    BY <1>0, <2>2, <2>h, NodesAssumption, FS_Subset, FS_CardinalityType DEF ThingRecord
  <2>3. PICK q : q = [c EXCEPT !.known = TRUE, !.is_available = TRUE, !.hosts = hosts,
                               !.replication_count = Cardinality(hosts)]
    OBVIOUS
  <2>4. /\ q \in ThingRecord /\ q.known = TRUE /\ q.is_available = TRUE /\ q.hosts = hosts
        /\ q.replication_count = Cardinality(hosts)
    BY <2>2, <2>hc, <2>3 DEF ThingRecord
  <2>5. ThingGood(e.target, q, ix)
    BY <1>8, <2>2, <2>h, <2>4 DEF ThingGood
  <2>6. PICK u : u = WithThing(v, e.target, q)
    OBVIOUS
  <2>61. \A n \in Node : e.target \in v.nodes[n].hosted_things => n \in q.hosts
    BY <2>1, <2>h, <2>4 DEF ViewGood, NodeGood
  <2>7. ViewGood(u, ix, s, k)
    BY <2>0, <2>5, <2>6, <2>61, GoodWithThing
  <2>8. PICK r : r = [b EXCEPT !.known = TRUE, !.hosted_things = b.hosted_things \cup {e.target}]
    OBVIOUS
  <2>9. /\ r \in NodeRecord /\ r.is_active = b.is_active /\ r.known = TRUE /\ r.joined_at = b.joined_at
        /\ r.key_balance = b.key_balance /\ r.hosted_things = b.hosted_things \cup {e.target}
    BY <1>ng, <2>0, <2>8 DEF NodeRecord
  <2>10. u.nodes = v.nodes /\ u.networks = v.networks /\ u.things = [v.things EXCEPT ![e.target] = q]
    BY <2>6 DEF WithThing
  <2>11. NodeGood(e.node, r, u.things, ix, s, k)
    <3>1. NodeGood(e.node, u.nodes[e.node], u.things, ix, s, k) /\ u.nodes[e.node] = b
      BY <1>0, <1>n, <2>7, <2>10 DEF ViewGood
    <3>2. u.things[e.target].hosts = hosts
      BY <1>v, <2>0, <2>4, <2>10
    <3>3. \A t \in r.hosted_things : e.node \in u.things[t].hosts
      BY <2>9, <2>h, <3>1, <3>2 DEF NodeGood
    <3> QED BY <1>ng, <2>9, <3>3 DEF NodeGood
  <2>12. apply_event(v, e) = WithNode(u, e.node, r)
    <3>1. apply_event(v, e) = [v EXCEPT !.things[e.target] = [@ EXCEPT !.known = TRUE, !.is_available = TRUE,
                                             !.hosts = hosts, !.replication_count = Cardinality(hosts)],
              !.nodes[e.node] = [b EXCEPT !.known = TRUE, !.hosted_things = @ \cup {e.target}]]
      BY <1>8, <1>n, <2>1, <2>h DEF apply_event, apply_thing_replicated
    <3>2. apply_event(v, e).things = [v.things EXCEPT ![e.target] = q]
      BY <1>v, <2>0, <2>1, <2>2, <2>3, <3>1 DEF ThingRecord
    <3>r. [b EXCEPT !.known = TRUE, !.hosted_things = @ \cup {e.target}] = r
      BY <1>ng, <2>8 DEF NodeRecord
    <3>3. apply_event(v, e).nodes = [v.nodes EXCEPT ![e.node] = r]
      BY <1>0, <1>v, <1>n, <3>r, <3>1
    <3>4. apply_event(v, e) = [nodes |-> apply_event(v, e).nodes, networks |-> v.networks,
                               things |-> apply_event(v, e).things]
      BY <1>v, <3>1
    <3> QED BY <2>10, <3>2, <3>3, <3>4 DEF WithNode
  <2> QED BY <1>0, <2>7, <2>11, <2>12, GoodWithNode
<1>9. CASE e.type = "THING_REMOVED"
  <2>0. e.target \in Thing
    BY <1>9, EventFields
  <2>1. PICK c : c = v.things[e.target]
    OBVIOUS
  <2>2. ThingGood(e.target, c, ix) /\ c \in ThingRecord
    BY <2>0, <2>1 DEF ViewGood, ThingGood
  <2>h. PICK hosts : hosts = c.hosts \ {e.node}
    OBVIOUS
  <2>hc. hosts \in SUBSET Node /\ Cardinality(hosts) \in Nat
    BY <1>0, <2>2, <2>h, NodesAssumption, FS_Subset, FS_CardinalityType DEF ThingRecord
  <2>c1. CASE ~c.known
    <3>1. apply_event(v, e) = v
      BY <1>9, <2>1, <2>c1 DEF apply_event, apply_thing_removed
    <3> QED BY <3>1
  <2>c2. CASE c.known
    <3>3. PICK q : q = [c EXCEPT !.hosts = hosts, !.replication_count = Cardinality(hosts),
                                 !.is_available = c.is_available /\ hosts # {}]
      OBVIOUS
    <3>4. /\ q \in ThingRecord /\ q.known = c.known /\ q.hosts = hosts
          /\ q.replication_count = Cardinality(hosts)
      BY <2>2, <2>hc, <3>3 DEF ThingRecord
    <3>41. q.is_available = (c.is_available /\ hosts # {})
      BY <2>2, <3>3 DEF ThingRecord
    <3>42. q.is_available <=> q.hosts # {}
      BY <2>2, <2>h, <3>4, <3>41 DEF ThingGood
    <3>5. ThingGood(e.target, q, ix)
      BY <2>2, <2>h, <2>c2, <3>4, <3>42 DEF ThingGood
    <3>8. PICK r : r = [b EXCEPT !.hosted_things = b.hosted_things \ {e.target}]
      OBVIOUS
    <3>9. /\ r \in NodeRecord /\ r.is_active = b.is_active /\ r.known = b.known /\ r.joined_at = b.joined_at
          /\ r.key_balance = b.key_balance /\ r.hosted_things = b.hosted_things \ {e.target}
      BY <1>ng, <2>0, <3>8 DEF NodeRecord
    <3>91. ~r.known => r = NewNode
      <4>1. ~r.known => b = NewNode
        BY <1>ng, <3>9 DEF NodeGood
      <4>2. [NewNode EXCEPT !.hosted_things = NewNode.hosted_things] = NewNode
        BY DEF NewNode
      <4>3. b = NewNode => b.hosted_things \ {e.target} = NewNode.hosted_things
        BY NewRecords
      <4> QED BY <3>8, <4>1, <4>2, <4>3
    <3>92. NodeGood(e.node, r, v.things, ix, s, k)
      BY <1>ng, <3>9, <3>91 DEF NodeGood
    <3>6. PICK u : u = WithNode(v, e.node, r)
      OBVIOUS
    <3>7. ViewGood(u, ix, s, k)
      BY <1>0, <3>92, <3>6, GoodWithNode
    <3>10. u.nodes = [v.nodes EXCEPT ![e.node] = r] /\ u.networks = v.networks /\ u.things = v.things
      BY <3>6 DEF WithNode
    <3>11. \A n \in Node : e.target \in u.nodes[n].hosted_things => n \in q.hosts
      <4>1. u.nodes[e.node] = r /\ \A n \in Node \ {e.node} : u.nodes[n] = v.nodes[n]
        BY <1>0, <1>v, <3>10
      <4>2. \A n \in Node \ {e.node} : e.target \in v.nodes[n].hosted_things => n \in c.hosts
        BY <2>1 DEF ViewGood, NodeGood
      <4> QED BY <2>h, <3>4, <3>9, <4>1, <4>2
    <3>12. apply_event(v, e) = WithThing(u, e.target, q)
      <4>1. apply_event(v, e) = [v EXCEPT !.things[e.target] = [c EXCEPT !.hosts = hosts,
                                                  !.replication_count = Cardinality(hosts),
                                                  !.is_available = @ /\ hosts # {}],
                   !.nodes[e.node].hosted_things = @ \ {e.target}]
        BY <1>9, <2>1, <2>h, <2>c2 DEF apply_event, apply_thing_removed
      <4>q. [c EXCEPT !.hosts = hosts, !.replication_count = Cardinality(hosts),
                      !.is_available = @ /\ hosts # {}] = q
        BY <2>2, <3>3 DEF ThingRecord
      <4>2. apply_event(v, e).things = [v.things EXCEPT ![e.target] = q]
        BY <1>v, <2>0, <2>1, <4>q, <4>1
      <4>3. apply_event(v, e).nodes = [v.nodes EXCEPT ![e.node] = r]
        BY <1>0, <1>v, <1>n, <1>ng, <3>8, <4>1 DEF NodeRecord
      <4>4. apply_event(v, e) = [nodes |-> apply_event(v, e).nodes, networks |-> v.networks,
                                 things |-> apply_event(v, e).things]
        BY <1>v, <4>1
      <4> QED BY <3>10, <4>2, <4>3, <4>4 DEF WithThing
    <3> QED BY <2>0, <3>5, <3>7, <3>11, <3>12, GoodWithThing
  <2> QED BY <2>2, <2>c1, <2>c2
<1>10. CASE e.type = "REPUTATION_UPDATED"
  <2>0. b.reputation_score + e.count \in Nat
    BY <1>0, <1>ng DEF NodeRecord
  <2>1. PICK r : r = [b EXCEPT !.known = TRUE, !.reputation_score = b.reputation_score + e.count]
    OBVIOUS
  <2>2. /\ r \in NodeRecord /\ r.is_active = b.is_active /\ r.known = TRUE /\ r.joined_at = b.joined_at
        /\ r.key_balance = b.key_balance /\ r.hosted_things = b.hosted_things
    BY <1>ng, <2>0, <2>1 DEF NodeRecord
  <2>4. NodeGood(e.node, r, v.things, ix, s, k)
    BY <1>ng, <2>2 DEF NodeGood
  <2>5. apply_event(v, e) = WithNode(v, e.node, r)
    <3>1. apply_event(v, e) = [v EXCEPT !.nodes[e.node] = [b EXCEPT !.known = TRUE,
                                                                    !.reputation_score = @ + e.count]]
      BY <1>10, <1>n, <2>1 DEF apply_event, apply_reputation_updated
    <3>2. [b EXCEPT !.known = TRUE, !.reputation_score = @ + e.count] = r
      BY <1>ng, <2>1 DEF NodeRecord
    <3> QED BY <1>0, <1>v, <1>n, <3>1, <3>2 DEF WithNode
  <2> QED BY <1>0, <2>4, <2>5, GoodWithNode
<1>11. CASE e.type \in {"POW_SOLUTION_SUBMITTED", "POSTAKE_CONTRIBUTION"}
  <2>0. a.contributions + 1 \in Nat
    BY <1>sg DEF NodeRecord
  <2>1. PICK r : r = [a EXCEPT !.known = TRUE, !.contributions = a.contributions + 1]
    OBVIOUS
  <2>2. /\ r \in NodeRecord /\ r.is_active = a.is_active /\ r.known = TRUE /\ r.joined_at = a.joined_at
        /\ r.key_balance = a.key_balance /\ r.hosted_things = a.hosted_things
    BY <1>sg, <2>0, <2>1 DEF NodeRecord
  <2>4. NodeGood(e.source, r, v.things, ix, s, k)
    BY <1>sg, <2>2 DEF NodeGood
  <2>5. apply_event(v, e) = WithNode(v, e.source, r)
    <3>1. apply_event(v, e) = [v EXCEPT !.nodes[e.source] = [a EXCEPT !.known = TRUE, !.contributions = @ + 1]]
      BY <1>11, <1>s DEF apply_event, apply_contribution
    <3>2. [a EXCEPT !.known = TRUE, !.contributions = @ + 1] = r
      BY <1>sg, <2>1 DEF NodeRecord
    <3> QED BY <1>0, <1>v, <1>s, <3>1, <3>2 DEF WithNode
  <2> QED BY <1>0, <2>4, <2>5, GoodWithNode
<1> QED BY <1>0, <1>1, <1>2, <1>3, <1>4, <1>5, <1>6, <1>7, <1>8, <1>9, <1>10, <1>11
    DEF AllKinds, SelfKinds, KeyKinds, NetKinds, ThingKinds

\* One event more, in the ledger, the caches and the view.
LEMMA StepGood ==
    ASSUME NEW v, NEW ix, NEW s, NEW z, NEW k \in Nat, NEW e, EventGood(e), IndexGood(ix),
           \A i \in 1..k : z[i] = s[i], z[k + 1] = e, ViewGood(v, ix, s, k)
    PROVE  ViewGood(apply_event(v, e), IndexEvent(ix, e), z, k + 1)
<1>1. PICK jx : jx = IndexEvent(ix, e)
  OBVIOUS
<1>2. IndexGood(jx) /\ IndexGrows(ix, jx)
  BY <1>1, IndexEventGood
<1>3. ViewGood(v, jx, z, k + 1)
  BY <1>2, GoodGrows, k + 1 \in Nat, k <= k + 1
<1>4. e.type = "NODE_JOINED" => Joined(e.source, e.time, z, k + 1)
  BY k + 1 \in 1..(k + 1) DEF Joined
<1>5. e.type = "KEY_ISSUED" => v.nodes[e.source].key_balance + e.count <= jx.key_balances[e.source]
  <2>1. e.source \in Node /\ e.count \in Nat
    BY EventFields
  <2>2. NodeGood(e.source, v.nodes[e.source], v.things, ix, s, k)
    BY <2>1 DEF ViewGood
  <2>3. /\ v.nodes[e.source].key_balance \in Nat /\ ix.key_balances[e.source] \in Nat
        /\ v.nodes[e.source].key_balance <= ix.key_balances[e.source]
    BY <2>1, <2>2 DEF NodeGood, NodeRecord, IndexGood
  <2> QED BY <1>1, <2>1, <2>3, IndexEventGood
<1>6. /\ e.type = "NETWORK_MEMBER_ADDED" => e.node \in jx.network_members[e.target]
      /\ e.type = "THING_REPLICATED" => e.node \in jx.thing_hosts[e.target]
  BY <1>1, IndexEventGood
<1>7. ViewGood(apply_event(v, e), jx, z, k + 1)
  BY <1>2, <1>3, <1>4, <1>5, <1>6, ApplyGood
<1> QED BY <1>1, <1>7

LEMMA EmptyGood ==
    ASSUME NEW s
    PROVE  IndexGood(EmptyIndex) /\ ViewGood(EmptyView, EmptyIndex, s, 0)
<1>1. IndexGood(EmptyIndex)
  BY DEF IndexGood, EmptyIndex
<1>2. /\ EmptyView = [nodes |-> EmptyView.nodes, networks |-> EmptyView.networks, things |-> EmptyView.things]
      /\ EmptyView.nodes = [n \in Node |-> NewNode] /\ EmptyView.networks = [w \in Net |-> NewNetwork]
      /\ EmptyView.things = [t \in Thing |-> NewThing]
  BY DEF EmptyView
<1>3. \A n \in Node : NodeGood(n, NewNode, EmptyView.things, EmptyIndex, s, 0)
  BY NewRecords DEF NodeGood, EmptyIndex
<1>4. \A w \in Net : NetGood(w, NewNetwork, EmptyIndex)
  BY NewRecords DEF NetGood, EmptyIndex
<1>5. \A t \in Thing : ThingGood(t, NewThing, EmptyIndex)
  BY NewRecords, FS_EmptySet DEF ThingGood, EmptyIndex
<1> QED BY <1>1, <1>2, <1>3, <1>4, <1>5 DEF ViewGood

\* The views rebuild_state passes through, and the caches after each event.
ViewRun(f, s, k) == f = [i \in 0..k |-> IF i = 0 THEN EmptyView ELSE apply_event(f[i - 1], s[i])]
IndexRun(g, s, k) == g = [i \in 0..k |-> IF i = 0 THEN EmptyIndex ELSE IndexEvent(g[i - 1], s[i])]

LEMMA ViewRunExists ==
    ASSUME NEW S, NEW s \in Seq(S)
    PROVE  \E f : ViewRun(f, s, Len(s))
<1> DEFINE T == {k \in 0..Len(s) : ~ \E f : ViewRun(f, s, k)}
<1>0. Len(s) \in Nat
  OBVIOUS
<1>1. SUFFICES ASSUME T # {} PROVE FALSE
  BY <1>0
<1>2. T \in SUBSET Nat
  BY <1>0
<1>3. PICK k \in T : \A j \in T : k <= j
  <2> HIDE DEF T
  <2> QED BY <1>1, <1>2, LeastNumber
<1>4. k # 0
  <2>1. ViewRun([i \in 0..0 |-> EmptyView], s, 0)
    BY DEF ViewRun
  <2> QED BY <2>1
<1>5. k - 1 \in 0..Len(s) /\ k \in 1..Len(s)
  BY <1>0, <1>4
<1>6. PICK f : ViewRun(f, s, k - 1)
  BY <1>3, <1>5
<1>7. f = [i \in 0..(k - 1) |-> IF i = 0 THEN EmptyView ELSE apply_event(f[i - 1], s[i])]
  BY <1>6 DEF ViewRun
<1> DEFINE new == apply_event(f[k - 1], s[k])
           g == [i \in 0..k |-> IF i = k THEN new ELSE f[i]]
<1>8. ASSUME NEW i \in 0..k
      PROVE  g[i] = IF i = 0 THEN EmptyView ELSE apply_event(g[i - 1], s[i])
  <2>1. CASE i = k
    <3>1. g[k - 1] = f[k - 1] /\ g[k] = new
      BY <1>5
    <3> QED BY <1>4, <2>1, <3>1
  <2>2. CASE i # k
    <3>1. g[i] = f[i] /\ i \in 0..(k - 1) /\ (i # 0 => g[i - 1] = f[i - 1])
      BY <1>5, <2>2
    <3>2. f[i] = IF i = 0 THEN EmptyView ELSE apply_event(f[i - 1], s[i])
      BY <1>7, <3>1
    <3> QED BY <3>1, <3>2
  <2> QED BY <2>1, <2>2
<1>9. g = [i \in 0..k |-> g[i]]
  OBVIOUS
<1> HIDE DEF g, new
<1>10. ViewRun(g, s, k)
  BY <1>8, <1>9 DEF ViewRun
<1> QED BY <1>10

\* A rebuilt view is good on the caches, which saw the same events in the same
\* order.
LEMMA ReplayedGood ==
    ASSUME NEW s \in Seq(EventRecord), \A i \in 1..Len(s) : EventGood(s[i]),
           NEW g, IndexRun(g, s, Len(s))
    PROVE  ViewGood(Replayed(s), g[Len(s)], s, Len(s))
<1> DEFINE f == CHOOSE h : ViewRun(h, s, Len(s))
           T == {k \in 0..Len(s) : ~(IndexGood(g[k]) /\ ViewGood(f[k], g[k], s, k))}
<1>0. Len(s) \in Nat
  OBVIOUS
<1>1. ViewRun(f, s, Len(s))
  BY ViewRunExists
<1>2. Replayed(s) = f[Len(s)]
  BY DEF Replayed, ViewRun
<1> HIDE DEF f
<1>3. ASSUME T # {} PROVE FALSE
  <2>1. T \in SUBSET Nat
    BY <1>0
  <2>2. PICK k \in T : \A j \in T : k <= j
    <3> HIDE DEF T
    <3> QED BY <1>3, <2>1, LeastNumber
  <2>3. /\ f[k] = IF k = 0 THEN EmptyView ELSE apply_event(f[k - 1], s[k])
        /\ g[k] = IF k = 0 THEN EmptyIndex ELSE IndexEvent(g[k - 1], s[k])
    BY <1>1 DEF ViewRun, IndexRun
  <2>4. k # 0
    BY <2>2, <2>3, EmptyGood
  <2>5. k \in 1..Len(s) /\ k - 1 \in 0..Len(s) /\ k - 1 \in Nat /\ (k - 1) + 1 = k
    BY <1>0, <2>4
  <2>6. PICK u, ix : u = f[k - 1] /\ ix = g[k - 1] /\ IndexGood(ix) /\ ViewGood(u, ix, s, k - 1)
    BY <2>2, <2>5
  <2>7. EventGood(s[k]) /\ f[k] = apply_event(u, s[k]) /\ g[k] = IndexEvent(ix, s[k])
    BY <2>3, <2>4, <2>5, <2>6
  <2>8. IndexGood(g[k])
    BY <2>6, <2>7, IndexEventGood
  <2>9. \A i \in 1..(k - 1) : s[i] = s[i]
    OBVIOUS
  <2>10. ViewGood(f[k], g[k], s, k)
    BY <2>5, <2>6, <2>7, <2>9, StepGood
  <2> QED BY <2>2, <2>8, <2>10
<1>4. Len(s) \in 0..Len(s)
  BY <1>0
<1> QED BY <1>2, <1>3, <1>4

\* The inductive invariant of the views: the caches are what the events of the
\* ledger made of them, and the view is good on both.
StateInv ==
    /\ clock \in 0..MaxTime
    /\ log \in Seq(EventRecord) /\ \A i \in 1..Len(log) : EventGood(log[i])
    /\ IndexGood(index)
    /\ \E g : IndexRun(g, log, Len(log)) /\ index = g[Len(log)]
    /\ ViewGood(view, index, log, Len(log))

LEMMA EventsAreGood ==
    ASSUME NEW t \in Nat, NEW e \in EventsAt(t)
    PROVE  EventGood(e)
<1> USE NodesAssumption, KindsAssumption
<1>1. ASSUME NEW a \in AllKinds, NEW b \in Node, NEW c \in Node, NEW d, NEW x \in Nat, e = Event(a, b, c, d, x, t),
             d \in Net \cup Thing \cup {None},
             a \in NetKinds \cup {"NETWORK_CREATED"} => d \in Net,
             a \in ThingKinds => d \in Thing
      PROVE  EventGood(e)
  BY <1>1 DEF EventGood, EventRecord, Event
<1>2. CASE \E a \in Kinds \cap SelfKinds, n \in Node : e = Event(a, n, n, None, 1, t)
  BY <1>1, <1>2 DEF SelfKinds, NetKinds, ThingKinds
<1>3. CASE \E a \in Kinds \cap KeyKinds, n \in Node, x \in Counts : e = Event(a, n, n, None, x, t)
  BY <1>1, <1>3 DEF KeyKinds, NetKinds, ThingKinds
<1>4. CASE \E a \in Kinds \cap NetKinds, b \in Node, n \in Node, w \in Net : e = Event(a, b, n, w, 1, t)
  BY <1>1, <1>4 DEF NetKinds, ThingKinds
<1>5. CASE \E a \in Kinds \cap ThingKinds, b \in Node, n \in Node, w \in Thing : e = Event(a, b, n, w, 1, t)
  BY <1>1, <1>5 DEF NetKinds, ThingKinds
<1>6. CASE \E a \in Kinds \cap {"NETWORK_CREATED"}, b \in Node, w \in Net : e = Event(a, b, b, w, 1, t)
  BY <1>1, <1>6 DEF ThingKinds
<1>7. CASE \E a \in Kinds \cap {"REPUTATION_UPDATED"}, b \in Node, n \in Node : e = Event(a, b, n, None, 1, t)
  BY <1>1, <1>7 DEF NetKinds, ThingKinds
<1> QED BY <1>2, <1>3, <1>4, <1>5, <1>6, <1>7 DEF EventsAt

\* The caches follow the ledger by one event more.
LEMMA IndexRunExtends ==
    ASSUME NEW s \in Seq(EventRecord), NEW e \in EventRecord, NEW g, IndexRun(g, s, Len(s)),
           NEW z, z = Append(s, e)
    PROVE  \E h : IndexRun(h, z, Len(z)) /\ h[Len(z)] = IndexEvent(g[Len(s)], e)
<1>0. PICK k \in Nat : k = Len(s)
  OBVIOUS
<1>1. Len(z) = k + 1 /\ z[k + 1] = e /\ \A i \in 1..k : z[i] = s[i]
  BY <1>0
<1>2. \A i \in 0..k : g[i] = IF i = 0 THEN EmptyIndex ELSE IndexEvent(g[i - 1], s[i])
  BY <1>0 DEF IndexRun
<1> DEFINE new == IndexEvent(g[k], e)
           h == [i \in 0..(k + 1) |-> IF i = k + 1 THEN new ELSE g[i]]
<1>3. ASSUME NEW i \in 0..(k + 1)
      PROVE  h[i] = IF i = 0 THEN EmptyIndex ELSE IndexEvent(h[i - 1], z[i])
  <2>1. CASE i = k + 1
    <3>1. h[k] = g[k] /\ h[k + 1] = new /\ (k + 1) - 1 = k
      OBVIOUS
    <3> QED BY <1>1, <2>1, <3>1
  <2>2. CASE i # k + 1
    <3>1. i \in 0..k /\ h[i] = g[i] /\ (i # 0 => h[i - 1] = g[i - 1] /\ z[i] = s[i])
      BY <1>1, <2>2
    <3> QED BY <1>2, <3>1
  <2> QED BY <2>1, <2>2
<1>4. h = [i \in 0..(k + 1) |-> h[i]] /\ h[k + 1] = new
  OBVIOUS
<1> HIDE DEF h
<1>5. IndexRun(h, z, k + 1)
  BY <1>3, <1>4 DEF IndexRun
<1> QED BY <1>0, <1>1, <1>4, <1>5

\* What ReceiveEvent and RecordEvent do to the ledger and the caches.
LEMMA LoggedGood ==
    ASSUME StateInv, NEW e, EventGood(e), log' = Append(log, e), index' = IndexEvent(index, e)
    PROVE  /\ log' \in Seq(EventRecord) /\ \A i \in 1..Len(log') : EventGood(log'[i])
           /\ IndexGood(index') /\ IndexGrows(index, index')
           /\ \E g : IndexRun(g, log', Len(log')) /\ index' = g[Len(log')]
           /\ Len(log) \in Nat /\ Len(log') = Len(log) + 1 /\ log'[Len(log) + 1] = e
           /\ \A i \in 1..Len(log) : log'[i] = log[i]
<1>1. e \in EventRecord /\ log \in Seq(EventRecord) /\ \A i \in 1..Len(log) : EventGood(log[i])
  BY DEF StateInv, EventGood
<1>2. /\ log' \in Seq(EventRecord)
      /\ Len(log) \in Nat /\ Len(log') = Len(log) + 1 /\ log'[Len(log) + 1] = e
      /\ \A i \in 1..Len(log) : log'[i] = log[i]
  BY <1>1
<1>3. \A i \in 1..Len(log') : EventGood(log'[i])
  <2> SUFFICES ASSUME NEW i \in 1..Len(log') PROVE EventGood(log'[i]) OBVIOUS
  <2>1. CASE i = Len(log) + 1
    BY <1>2, <2>1
  <2>2. CASE i # Len(log) + 1
    BY <1>1, <1>2, <2>2
  <2> QED BY <2>1, <2>2
<1>4. IndexGood(index') /\ IndexGrows(index, index')
  BY IndexEventGood DEF StateInv
<1>5. PICK g : IndexRun(g, log, Len(log)) /\ index = g[Len(log)]
  BY DEF StateInv
<1>6. \E h : IndexRun(h, log', Len(log')) /\ h[Len(log')] = IndexEvent(g[Len(log)], e)
  BY <1>1, <1>5, IndexRunExtends
<1> QED BY <1>2, <1>3, <1>4, <1>5, <1>6

LEMMA ReceiveStep ==
    ASSUME StateInv, NEW e, EventGood(e), ReceiveEvent(e)
    PROVE  StateInv'
<1>1. log' = Append(log, e) /\ index' = IndexEvent(index, e) /\ view' = apply_event(view, e) /\ clock' = clock
  BY DEF ReceiveEvent
<1>2. ViewGood(view', index', log', Len(log'))
  BY <1>1, LoggedGood, StepGood DEF StateInv
<1> QED BY <1>1, <1>2, LoggedGood DEF StateInv

LEMMA RecordStep ==
    ASSUME StateInv, NEW e, EventGood(e), RecordEvent(e)
    PROVE  StateInv'
<1>1. log' = Append(log, e) /\ index' = IndexEvent(index, e) /\ view' = view /\ clock' = clock
  BY DEF RecordEvent
<1>2. /\ IndexGood(index) /\ IndexGood(index') /\ IndexGrows(index, index')
      /\ Len(log) \in Nat /\ Len(log') \in Nat /\ Len(log) <= Len(log')
      /\ \A i \in 1..Len(log) : log'[i] = log[i]
  BY <1>1, LoggedGood DEF StateInv
<1>3. ViewGood(view, index', log', Len(log'))
  BY <1>2, GoodGrows DEF StateInv
<1> QED BY <1>1, <1>3, LoggedGood DEF StateInv

LEMMA RebuildStep ==
    ASSUME StateInv, rebuild_state
    PROVE  StateInv'
<1>1. view' = Replayed(log) /\ log' = log /\ index' = index /\ clock' = clock
  BY DEF rebuild_state
<1>2. PICK g : IndexRun(g, log, Len(log)) /\ index = g[Len(log)]
  BY DEF StateInv
<1>3. ViewGood(Replayed(log), index, log, Len(log))
  BY <1>2, ReplayedGood DEF StateInv
<1> QED BY <1>1, <1>3 DEF StateInv

\* A step that replaces the records of nodes by others as good.
LEMMA NodesStep ==
    ASSUME StateInv, UNCHANGED <<log, index, clock>>,
           NEW f, f = [n \in Node |-> f[n]], view' = [view EXCEPT !.nodes = f],
           \A n \in Node : NodeGood(n, f[n], view.things, index, log, Len(log))
    PROVE  StateInv'
<1>1. view = [nodes |-> view.nodes, networks |-> view.networks, things |-> view.things]
  BY DEF StateInv, ViewGood
<1>2. /\ view' = [nodes |-> view'.nodes, networks |-> view'.networks, things |-> view'.things]
      /\ view'.nodes = f /\ view'.networks = view.networks /\ view'.things = view.things
  BY <1>1
<1>3. ViewGood(view', index, log, Len(log))
  BY <1>2 DEF StateInv, ViewGood
<1> QED BY <1>3 DEF StateInv

LEMMA ActivityStep ==
    ASSUME StateInv, update_node_activity
    PROVE  StateInv'
<1> DEFINE late(n) == clock - LastActivity(n) > InactivityThreshold
<1>1. PICK f : f = [n \in Node |-> [view.nodes[n] EXCEPT !.is_active = @ /\ ~late(n)]]
  OBVIOUS
<1>2. view' = [view EXCEPT !.nodes = f] /\ UNCHANGED <<log, index, clock>>
  BY <1>1 DEF update_node_activity
<1>3. ASSUME NEW n \in Node PROVE NodeGood(n, f[n], view.things, index, log, Len(log))
  <2>1. PICK a : a = view.nodes[n]
    OBVIOUS
  <2>2. NodeGood(n, a, view.things, index, log, Len(log)) /\ a \in NodeRecord
    BY <2>1 DEF StateInv, ViewGood, NodeGood
  <2>3. PICK c : c = (a.is_active /\ ~late(n))
    OBVIOUS
  <2>4. c \in BOOLEAN /\ (c => a.is_active)
    BY <2>2, <2>3 DEF NodeRecord
  <2>5. f[n] = [a EXCEPT !.is_active = c]
    BY <1>1, <2>1, <2>3
  <2> HIDE DEF late
  <2>6. /\ f[n] \in NodeRecord /\ f[n].is_active = c /\ f[n].known = a.known /\ f[n].joined_at = a.joined_at
        /\ f[n].key_balance = a.key_balance /\ f[n].hosted_things = a.hosted_things
    BY <2>2, <2>4, <2>5 DEF NodeRecord
  <2>7. ~f[n].known => f[n] = NewNode
    <3>1. ~f[n].known => a = NewNode
      BY <2>2, <2>6 DEF NodeGood
    <3>2. [NewNode EXCEPT !.is_active = NewNode.is_active] = NewNode
      BY DEF NewNode
    <3>3. a = NewNode => c = NewNode.is_active
      BY <2>4, NewRecords
    <3> QED BY <2>5, <3>1, <3>2, <3>3
  <2> QED BY <2>2, <2>4, <2>6, <2>7 DEF NodeGood
<1>4. f = [n \in Node |-> f[n]]
  BY <1>1
<1> QED BY <1>2, <1>3, <1>4, NodesStep

LEMMA CleanupStep ==
    ASSUME StateInv, cleanup_stale_state
    PROVE  StateInv'
<1>1. PICK f : f = [n \in Node |-> IF IsStale(n) THEN NewNode ELSE view.nodes[n]]
  OBVIOUS
<1>2. view' = [view EXCEPT !.nodes = f] /\ UNCHANGED <<log, index, clock>>
  BY <1>1 DEF cleanup_stale_state
<1>3. \A n \in Node : NodeGood(n, NewNode, view.things, index, log, Len(log))
  <2>1. \A n \in Node : index.key_balances[n] \in Nat
    BY DEF StateInv, IndexGood
  <2> QED BY <2>1, NewRecords DEF NodeGood
<1>4. \A n \in Node : NodeGood(n, view.nodes[n], view.things, index, log, Len(log))
  BY DEF StateInv, ViewGood
<1>5. \A n \in Node : f[n] = NewNode \/ f[n] = view.nodes[n]
  BY <1>1
<1>6. f = [n \in Node |-> f[n]]
  BY <1>1
<1> QED BY <1>2, <1>3, <1>4, <1>5, <1>6, NodesStep

LEMMA StateStep ==
    ASSUME StateInv, Next
    PROVE  StateInv'
<1>0. clock \in Nat /\ clock + 1 \in Nat
  BY DEF StateInv
<1>1. ASSUME NEW t \in {clock, clock + 1}, NEW e \in EventsAt(t), ReceiveEvent(e) PROVE StateInv'
  BY <1>0, <1>1, EventsAreGood, ReceiveStep
<1>2. ASSUME NEW e \in EventsAt(clock), RecordEvent(e) PROVE StateInv'
  BY <1>0, <1>2, EventsAreGood, RecordStep
<1>3. ASSUME Tick PROVE StateInv'
  <2>1. clock' \in 0..MaxTime /\ UNCHANGED <<log, index, view>>
    BY <1>3, NodesAssumption DEF Tick, StateInv
  <2> QED BY <2>1 DEF StateInv
<1> QED BY <1>1, <1>2, <1>3, RebuildStep, ActivityStep, CleanupStep DEF Next

LEMMA StateInvGives == StateInv => ViewSound
<1> SUFFICES ASSUME StateInv PROVE ViewSound OBVIOUS
<1>1. /\ \A n \in Node : NodeGood(n, view.nodes[n], view.things, index, log, Len(log))
      /\ \A w \in Net : NetGood(w, view.networks[w], index)
      /\ \A t \in Thing : ThingGood(t, view.things[t], index)
  BY DEF StateInv, ViewGood
<1>2. TypeOK
  <2>1. DOMAIN view.nodes = Node /\ DOMAIN view.networks = Net /\ DOMAIN view.things = Thing
    BY DEF StateInv, ViewGood
  <2>2. \A n \in Node : view.nodes[n].key_balance \in Nat /\ (~view.nodes[n].known => view.nodes[n] = NewNode)
    BY <1>1 DEF NodeGood, NodeRecord
  <2> QED BY <1>1, <2>1, <2>2 DEF TypeOK, StateInv, IndexGood, NetGood, ThingGood
<1>3. HostingConsistent
  <2>1. \A n \in Node : \A t \in view.nodes[n].hosted_things : n \in view.things[t].hosts
    BY <1>1 DEF NodeGood
  <2> QED BY <1>1, <2>1 DEF HostingConsistent, ThingGood
<1>4. ViewWithinIndex
  BY <1>1 DEF ViewWithinIndex, NodeGood, NetGood, ThingGood
<1>5. ActiveHasJoined
  <2>1. DOMAIN log = 1..Len(log)
    BY DEF StateInv
  <2> QED BY <1>1, <2>1 DEF ActiveHasJoined, NodeGood, Joined
<1> QED BY <1>2, <1>3, <1>4, <1>5 DEF ViewSound

\* What StateManager answers is coherent and backed by the ledger, for any
\* nodes, networks, Things, counts and thresholds, and whatever events, local
\* records, clean-ups and rebuilds come in whatever order.
THEOREM ViewSoundHolds == NetworksSpec => []ViewSound
<1>1. NetworksInit => StateInv
  <2> SUFFICES ASSUME Init PROVE StateInv BY DEF NetworksInit
  <2>1. log = <<>> /\ log \in Seq(EventRecord) /\ Len(log) = 0
    BY DEF Init
  <2>2. clock \in 0..MaxTime
    BY NodesAssumption DEF Init
  <2>3. IndexRun([i \in 0..0 |-> EmptyIndex], log, 0)
    BY DEF IndexRun
  <2>4. index = [i \in 0..0 |-> EmptyIndex][0]
    BY DEF Init
  <2>5. IndexGood(index) /\ ViewGood(view, index, log, 0)
    BY EmptyGood DEF Init
  <2> QED BY <2>1, <2>2, <2>3, <2>4, <2>5 DEF StateInv
<1>2. StateInv /\ [NetworksNext]_all_vars => StateInv'
  <2> SUFFICES ASSUME StateInv, [NetworksNext]_all_vars PROVE StateInv' OBVIOUS
  <2>1. CASE Next
    BY <2>1, StateStep
  <2>2. CASE UNCHANGED vars
    BY <2>2 DEF vars, StateInv
  <2> QED BY <2>1, <2>2 DEF NetworksNext, all_vars
<1> QED BY <1>1, <1>2, StateInvGives, PTL DEF NetworksSpec
=============================================================================
