--------------------------- MODULE ServicesProofs ---------------------------
(***************************************************************************)
(* Proofs about the parts of MCServices, for any nodes, policies, clients, *)
(* limits, routes and bounds.  The fairness of ServicesSpec plays no part. *)
(***************************************************************************)
EXTENDS MCServices, FiniteSetTheorems, TLAPS

-----------------------------------------------------------------------------
(* WebSocket *)

\* A subscription is counted when it is made, and counted off at most once.
SubscribersInv ==
    /\ count \in Nat
    /\ IsFiniteSet(subscriptions)
    /\ Cardinality(subscriptions) <= count

LEMMA FewerSubscribers ==
    ASSUME SubscribersInv, count' = count, subscriptions' \subseteq subscriptions
    PROVE  SubscribersInv'
<1>1. /\ IsFiniteSet(subscriptions') /\ Cardinality(subscriptions') <= Cardinality(subscriptions)
      /\ Cardinality(subscriptions') \in Nat /\ Cardinality(subscriptions) \in Nat
  BY FS_Subset, FS_CardinalityType DEF SubscribersInv
<1> QED BY <1>1 DEF SubscribersInv

LEMMA SubscribersStep ==
    ASSUME SubscribersInv, W!Next
    PROVE  SubscribersInv'
<1>0. Cardinality(subscriptions) \in Nat
  BY FS_CardinalityType DEF SubscribersInv
<1>1. ASSUME NEW o \in W!Object, NEW e \in Event, W!subscribe(o, e) PROVE SubscribersInv'
  <2>1. CASE UNCHANGED <<subscriptions, count>>
    BY <2>1, FewerSubscribers
  <2>2. CASE /\ subscriptions' = subscriptions \cup {[event |-> e, object |-> o]}
             /\ count' = count + 1
    <3>1. /\ IsFiniteSet(subscriptions')
          /\ \/ Cardinality(subscriptions') = Cardinality(subscriptions)
             \/ Cardinality(subscriptions') = Cardinality(subscriptions) + 1
      BY <2>2, FS_AddElement DEF SubscribersInv
    <3> QED BY <1>0, <2>2, <3>1 DEF SubscribersInv
  <2> QED BY <1>1, <2>1, <2>2 DEF W!subscribe
<1>2. ASSUME NEW o \in W!Object, NEW e \in Event, W!unsubscribe(o, e) PROVE SubscribersInv'
  <2>1. PICK found, dead :
           /\ found \subseteq subscriptions
           /\ subscriptions' = (subscriptions \ dead) \ found
           /\ count' = count - Cardinality(found)
    BY <1>2 DEF W!unsubscribe, W!Live, W!Cardinality, Cardinality
  <2>2. /\ IsFiniteSet(found) /\ Cardinality(found) \in Nat
        /\ Cardinality(subscriptions \ found) = Cardinality(subscriptions) - Cardinality(found)
        /\ IsFiniteSet(subscriptions \ found)
    <3>1. IsFiniteSet(found) /\ Cardinality(found) \in Nat
      BY <2>1, FS_Subset, FS_CardinalityType DEF SubscribersInv
    <3>2. subscriptions \cap found = found
      BY <2>1
    <3> QED BY <3>1, <3>2, FS_Difference DEF SubscribersInv
  <2>3. subscriptions' \subseteq subscriptions \ found
    BY <2>1
  <2>4. /\ IsFiniteSet(subscriptions') /\ Cardinality(subscriptions') \in Nat
        /\ Cardinality(subscriptions') <= Cardinality(subscriptions \ found)
    BY <2>2, <2>3, FS_Subset, FS_CardinalityType
  <2> QED BY <1>0, <2>1, <2>2, <2>4 DEF SubscribersInv
<1>3. CASE \/ W!start \/ W!stop \/ W!keepalive_loop
           \/ \E i \in ClientId : W!accept_connection(i)
           \/ \E o \in W!Object : W!release(o)
           \/ \E e \in Event : W!broadcast_event(e)
  <2>1. count' = count /\ subscriptions' \subseteq subscriptions
    BY <1>3 DEF W!start, W!stop, W!keepalive_loop, W!accept_connection, W!release, W!broadcast_event
  <2> QED BY <2>1, FewerSubscribers
<1> QED BY <1>1, <1>2, <1>3 DEF W!Next

\* The unsigned subscription_count never falls below the subscriptions that are
\* there (WebSocket), for any number of connections and any limits.
THEOREM CountCoversSubscribersHolds == ServicesSpec => []CountCoversSubscribers
<1>1. ServicesInit => SubscribersInv
  BY FS_EmptySet DEF ServicesInit, W!Init, SubscribersInv
<1>2. SubscribersInv /\ [ServicesNext]_all_vars => SubscribersInv'
  <2> SUFFICES ASSUME SubscribersInv, [ServicesNext]_all_vars PROVE SubscribersInv' OBVIOUS
  <2>1. CASE W!Next
    BY <2>1, SubscribersStep
  <2>2. CASE UNCHANGED W_vars
    BY <2>2 DEF W_vars, SubscribersInv
  <2> QED BY <2>1, <2>2 DEF ServicesNext, all_vars
<1>3. SubscribersInv => CountCoversSubscribers
  <2>1. SubscribersInv => Cardinality(subscriptions) \in Nat
    BY FS_CardinalityType DEF SubscribersInv
  <2> QED BY <2>1 DEF SubscribersInv, CountCoversSubscribers, W!CountCoversSubscribers, W!Cardinality, Cardinality
<1> QED BY <1>1, <1>2, <1>3, PTL DEF ServicesSpec

-----------------------------------------------------------------------------
(* Router *)

Ids == 1..Len(router_asked)

RequestRecord ==
    [kind : {"request"}, to : Relay, id : Nat, content : Content, from : Relay, hops : Int, onion : Seq(Relay)]
ResponseRecord ==
    [kind : {"response"}, to : Relay, id : Nat, content : Content, intact : BOOLEAN]
PendingRecord == [id : Nat, content : Content, time : Nat]
Notice == [kind : {"received", "not_found"}, content : Content]

\* Whatever is under way names a request and the content it asked for.
WireGood == \A m \in wire : m \in RequestRecord \cup ResponseRecord /\ m.id \in Ids /\ m.content = router_asked[m.id]

\* A request is pending once, at one node, and only while nobody has been told.
PendingGood ==
    /\ pending \in [Relay -> SUBSET PendingRecord]
    /\ \A n \in Relay : \A p \in pending[n] : p.id \in Ids /\ told[p.id] = <<>>
    /\ \A n, m \in Relay : \A p \in pending[n], q \in pending[m] : p.id = q.id => n = m /\ p = q

ToldGood ==
    /\ told \in [1..RouterMaxRequests -> Seq(Notice)]
    /\ \A i \in 1..RouterMaxRequests : i \notin Ids => told[i] = <<>>
    /\ \A i \in Ids : Len(told[i]) <= 1 /\ \A j \in 1..Len(told[i]) : told[i][j].content = router_asked[i]

RouterInv ==
    /\ router_clock \in Nat
    /\ router_asked \in Seq(Content) /\ Len(router_asked) <= RouterMaxRequests
    /\ WireGood /\ PendingGood /\ ToldGood

LEMMA RouterInitially == O!Init => RouterInv
<1> SUFFICES ASSUME O!Init PROVE RouterInv OBVIOUS
<1> USE RoutesAssumption DEF O!Init, O!Id
<1>1. router_asked = <<>> /\ router_asked \in Seq(Content) /\ Len(router_asked) = 0
  OBVIOUS
<1>2. \A i \in 1..RouterMaxRequests : told[i] = <<>>
  OBVIOUS
<1>3. told \in [1..RouterMaxRequests -> Seq(Notice)]
  OBVIOUS
<1>4. WireGood /\ PendingGood
  BY DEF WireGood, PendingGood
<1>5. ToldGood
  BY <1>1, <1>2, <1>3 DEF ToldGood, Ids
<1> QED BY <1>1, <1>4, <1>5 DEF RouterInv

\* A new request takes the next id, which nobody knows yet.
LEMMA TrackStep ==
    ASSUME RouterInv, NEW n \in Relay, NEW c \in Content, O!Track(n, c)
    PROVE  /\ router_asked' \in Seq(Content) /\ Len(router_asked') <= RouterMaxRequests
           /\ Len(router_asked') = Len(router_asked) + 1 /\ Len(router_asked) \in Nat
           /\ router_asked'[Len(router_asked')] = c
           /\ \A i \in Ids : i \in Ids' /\ router_asked'[i] = router_asked[i]
           /\ PendingGood' /\ ToldGood'
<1>1. /\ Len(router_asked) < RouterMaxRequests
      /\ router_asked' = Append(router_asked, c)
      /\ pending' = [pending EXCEPT ![n] = pending[n] \cup {[id |-> Len(router_asked'), content |-> c, time |-> router_clock]}]
      /\ told' = told
  BY DEF O!Track, O!vars
<1>2. router_asked \in Seq(Content) /\ Len(router_asked) \in Nat
  BY DEF RouterInv
<1>3. /\ router_asked' \in Seq(Content)
      /\ Len(router_asked') = Len(router_asked) + 1
      /\ router_asked'[Len(router_asked')] = c
      /\ \A i \in 1..Len(router_asked) : router_asked'[i] = router_asked[i]
  BY <1>1, <1>2
<1>4. /\ Len(router_asked') <= RouterMaxRequests
      /\ \A i \in Ids : i \in Ids' /\ router_asked'[i] = router_asked[i]
  BY <1>1, <1>2, <1>3, RoutesAssumption DEF Ids
<1>5. PICK new : new = [id |-> Len(router_asked'), content |-> c, time |-> router_clock]
  OBVIOUS
<1>6. /\ new \in PendingRecord /\ new.id = Len(router_asked) + 1 /\ new.id \notin Ids /\ new.id \in Ids'
      /\ new.id \in 1..RouterMaxRequests
  BY <1>1, <1>2, <1>3, <1>5, RoutesAssumption DEF PendingRecord, Ids, RouterInv
<1>7. told[new.id] = <<>>
  BY <1>6 DEF RouterInv, ToldGood
<1>8. pending \in [Relay -> SUBSET PendingRecord] /\ pending'[n] = pending[n] \cup {new}
      /\ \A m \in Relay \ {n} : pending'[m] = pending[m]
  BY <1>1, <1>5 DEF RouterInv, PendingGood
<1>9. PendingGood'
  <2>1. pending' \in [Relay -> SUBSET PendingRecord]
    BY <1>1, <1>5, <1>6, <1>8
  <2>2. \A m \in Relay : \A p \in pending[m] : p.id \in Ids /\ told[p.id] = <<>> /\ p.id # new.id
    BY <1>6 DEF RouterInv, PendingGood
  <2>3. ASSUME NEW m \in Relay, NEW p \in pending'[m]
        PROVE  p.id \in Ids' /\ told'[p.id] = <<>>
    BY <1>1, <1>4, <1>6, <1>7, <1>8, <2>2
  <2>4. ASSUME NEW m \in Relay, NEW k \in Relay, NEW p \in pending'[m], NEW q \in pending'[k], p.id = q.id
        PROVE  m = k /\ p = q
    <3>1. p \in pending[m] \/ (m = n /\ p = new)
      BY <1>8
    <3>2. q \in pending[k] \/ (k = n /\ q = new)
      BY <1>8
    <3>3. CASE p \in pending[m] /\ q \in pending[k]
      BY <2>4, <3>3 DEF RouterInv, PendingGood
    <3> QED BY <2>2, <2>4, <3>1, <3>2, <3>3
  <2> QED BY <2>1, <2>3, <2>4 DEF PendingGood
<1>10. ToldGood'
  <2>1. \A i \in Ids' : i \in Ids \/ i = new.id
    BY <1>2, <1>3, <1>6 DEF Ids
  <2>2. Len(told[new.id]) = 0
    BY <1>7
  <2>3. ASSUME NEW i \in Ids'
        PROVE  Len(told[i]) <= 1 /\ \A j \in 1..Len(told[i]) : told[i][j].content = router_asked'[i]
    <3>1. CASE i \in Ids
      BY <1>4, <3>1 DEF RouterInv, ToldGood
    <3>2. CASE i = new.id
      <4>1. Len(told[i]) = 0
        BY <2>2, <3>2
      <4> QED BY <4>1
    <3> QED BY <2>1, <3>1, <3>2
  <2>4. \A i \in 1..RouterMaxRequests : i \notin Ids' => told[i] = <<>>
    BY <1>4 DEF RouterInv, ToldGood
  <2> QED BY <1>1, <2>3, <2>4 DEF RouterInv, ToldGood
<1> QED BY <1>2, <1>3, <1>4, <1>9, <1>10

LEMMA RequestStep ==
    ASSUME RouterInv, NEW n \in Relay, NEW c \in Content, O!Track(n, c),
           NEW m, m \in RequestRecord, m.id = Len(router_asked'), m.content = c, wire' \subseteq wire \cup {m}
    PROVE  RouterInv'
<1>1. router_clock' = router_clock
  BY DEF O!Track
<1>2. /\ router_asked' \in Seq(Content) /\ Len(router_asked') <= RouterMaxRequests
      /\ Len(router_asked') = Len(router_asked) + 1 /\ Len(router_asked) \in Nat
      /\ router_asked'[Len(router_asked')] = c
      /\ \A i \in Ids : i \in Ids' /\ router_asked'[i] = router_asked[i]
      /\ PendingGood' /\ ToldGood'
  BY TrackStep
<1>3. WireGood'
  <2>1. m.id \in Ids' /\ m.content = router_asked'[m.id]
    BY <1>2 DEF Ids
  <2> QED BY <1>2, <2>1 DEF RouterInv, WireGood
<1> QED BY <1>1, <1>2, <1>3 DEF RouterInv

\* A step that leaves requests and callbacks alone, or takes a request away.
LEMMA QuietStep ==
    ASSUME RouterInv, UNCHANGED <<router_asked, told>>, router_clock' \in Nat, WireGood',
           pending' \in [Relay -> SUBSET PendingRecord], \A n \in Relay : pending'[n] \subseteq pending[n]
    PROVE  RouterInv'
<1>1. PendingGood'
  BY DEF RouterInv, PendingGood, Ids
<1>2. ToldGood'
  BY DEF RouterInv, ToldGood, Ids
<1> QED BY <1>1, <1>2 DEF RouterInv

LEMMA HandleRequestStep ==
    ASSUME RouterInv, NEW m \in wire, O!handle_content_request(m)
    PROVE  RouterInv'
<1>1. PICK inner \in O!decrypt_onion_layer(m) : O!Serve(inner) \/ O!Forward(inner)
  BY DEF O!handle_content_request
<1>2. UNCHANGED <<local_content, pending, router_clock, router_asked, told>> /\ m.kind = "request"
  BY DEF O!handle_content_request
<1>3. m \in RequestRecord /\ m.id \in Ids /\ m.content = router_asked[m.id]
  BY <1>2 DEF RouterInv, WireGood, ResponseRecord
<1>4. inner \in RequestRecord /\ inner.id = m.id /\ inner.content = m.content
  <2>1. CASE inner = m
    BY <1>3, <2>1
  <2>2. CASE inner = [m EXCEPT !.onion = <<>>]
    <3>1. <<>> \in Seq(Relay)
      OBVIOUS
    <3> QED BY <1>3, <2>2, <3>1 DEF RequestRecord
  <2> QED BY <1>1, <2>1, <2>2 DEF O!decrypt_onion_layer
<1>5. ASSUME O!Serve(inner) PROVE WireGood'
  <2>1. PICK r : /\ wire' = wire \cup r
                 /\ r = {} \/ \E b \in BOOLEAN : r = O!send_to_peer(O!Response(inner.from, inner.id, inner.content, b))
    BY <1>5 DEF O!Serve
  <2>2. ASSUME NEW b \in BOOLEAN
        PROVE  LET w == O!Response(inner.from, inner.id, inner.content, b)
               IN  w \in ResponseRecord /\ w.id = m.id /\ w.content = m.content
    BY <1>4 DEF O!Response, ResponseRecord, RequestRecord
  <2>3. \A w \in r : w \in ResponseRecord /\ w.id = m.id /\ w.content = m.content
    BY <2>1, <2>2 DEF O!send_to_peer
  <2> QED BY <1>2, <1>3, <2>1, <2>3 DEF RouterInv, WireGood, Ids
<1>6. ASSUME O!Forward(inner) PROVE WireGood'
  <2>1. PICK next \in Relay \cup {Nobody} : wire' = wire \cup O!send_to_peer([inner EXCEPT !.to = next, !.hops = inner.hops - 1])
    BY <1>6 DEF O!Forward
  <2>2. PICK w : w = [inner EXCEPT !.to = next, !.hops = inner.hops - 1]
    OBVIOUS
  <2>3. inner.hops - 1 \in Int
    BY <1>4 DEF RequestRecord
  <2>4. w.to = next /\ w.id = m.id /\ w.content = m.content
    BY <1>4, <2>2 DEF RequestRecord
  <2>5. next \in Relay => w \in RequestRecord
    BY <1>4, <2>2, <2>3 DEF RequestRecord
  <2>6. wire' \subseteq wire \cup {w} /\ (next = Nobody => wire' = wire)
    BY <2>1, <2>2, <2>4 DEF O!send_to_peer
  <2> QED BY <1>2, <1>3, <2>4, <2>5, <2>6 DEF RouterInv, WireGood, Ids
<1>7. WireGood'
  BY <1>1, <1>5, <1>6
<1> QED BY <1>2, <1>7, QuietStep DEF RouterInv, PendingGood

LEMMA HandleResponseStep ==
    ASSUME RouterInv, NEW m \in wire, O!handle_content_response(m)
    PROVE  RouterInv'
<1>1. m.kind = "response" /\ UNCHANGED <<local_content, wire, router_clock, router_asked>>
  BY DEF O!handle_content_response
<1>2. m \in ResponseRecord /\ m.id \in Ids /\ m.content = router_asked[m.id]
  BY <1>1 DEF RouterInv, WireGood, RequestRecord
<1>3. PICK p \in pending[m.to] :
         /\ p.id = m.id
         /\ told' = [told EXCEPT ![m.id] = Append(told[m.id], [kind |-> "received", content |-> m.content])]
         /\ pending' = [pending EXCEPT ![m.to] = pending[m.to] \ {p}]
  BY DEF O!handle_content_response
<1>4. m.to \in Relay /\ m.content \in Content
  BY <1>2 DEF ResponseRecord
<1>5. told[m.id] = <<>>
  BY <1>3, <1>4 DEF RouterInv, PendingGood
<1>6. PICK seq : seq = Append(<<>>, [kind |-> "received", content |-> m.content])
  OBVIOUS
<1>7. seq \in Seq(Notice) /\ Len(seq) = 1 /\ seq[1].content = m.content
  BY <1>4, <1>6 DEF Notice
<1>8. m.id \in 1..RouterMaxRequests
  BY <1>2, RoutesAssumption DEF Ids, RouterInv
<1>9. told'[m.id] = seq /\ \A i \in 1..RouterMaxRequests : i # m.id => told'[i] = told[i]
  BY <1>3, <1>5, <1>6, <1>8 DEF RouterInv, ToldGood
<1>10. Ids \subseteq 1..RouterMaxRequests /\ Ids' = Ids
  BY <1>1, RoutesAssumption DEF Ids, RouterInv
<1>11. ToldGood'
  <2>1. told' \in [1..RouterMaxRequests -> Seq(Notice)]
    BY <1>3, <1>5, <1>6, <1>7 DEF RouterInv, ToldGood
  <2>2. \A i \in 1..RouterMaxRequests : i \notin Ids' => told'[i] = <<>>
    BY <1>2, <1>9, <1>10 DEF RouterInv, ToldGood
  <2>3. ASSUME NEW i \in Ids'
        PROVE  Len(told'[i]) <= 1 /\ \A j \in 1..Len(told'[i]) : told'[i][j].content = router_asked'[i]
    <3>1. CASE i = m.id
      <4>1. told'[i] = seq /\ router_asked'[i] = m.content
        BY <1>1, <1>2, <1>9, <3>1
      <4>2. ASSUME NEW j \in 1..Len(seq) PROVE seq[j].content = m.content
        <5>1. j = 1
          BY <1>7
        <5> QED BY <1>7, <5>1
      <4>3. Len(seq) <= 1 /\ \A j \in 1..Len(seq) : seq[j].content = m.content
        BY <1>7, <4>2
      <4> QED BY <4>1, <4>3, Zenon
    <3>2. CASE i # m.id
      BY <1>1, <1>9, <1>10, <3>2 DEF RouterInv, ToldGood
    <3> QED BY <3>1, <3>2
  <2> QED BY <2>1, <2>2, <2>3 DEF ToldGood
<1>12. PendingGood'
  <2>1. pending \in [Relay -> SUBSET PendingRecord]
    BY DEF RouterInv, PendingGood
  <2>2. /\ pending' \in [Relay -> SUBSET PendingRecord]
        /\ pending'[m.to] = pending[m.to] \ {p}
        /\ \A n \in Relay : pending'[n] \subseteq pending[n]
    BY <1>3, <1>4, <2>1
  <2>3. ASSUME NEW n \in Relay, NEW q \in pending'[n]
        PROVE  q.id \in Ids' /\ told'[q.id] = <<>>
    <3>1. q \in pending[n] /\ q.id \in Ids /\ told[q.id] = <<>>
      BY <2>2 DEF RouterInv, PendingGood
    <3>2. q.id # m.id
      <4>1. SUFFICES ASSUME q.id = m.id PROVE FALSE OBVIOUS
      <4>2. n = m.to /\ q = p
        BY <1>3, <1>4, <3>1, <4>1 DEF RouterInv, PendingGood
      <4> QED BY <2>2, <4>2
    <3> QED BY <1>9, <1>10, <3>1, <3>2
  <2>4. \A n, k \in Relay : \A q \in pending'[n], r \in pending'[k] : q.id = r.id => n = k /\ q = r
    BY <2>2 DEF RouterInv, PendingGood
  <2> QED BY <2>2, <2>3, <2>4 DEF PendingGood
<1>13. WireGood'
  BY <1>1 DEF RouterInv, WireGood, Ids
<1> QED BY <1>1, <1>11, <1>12, <1>13 DEF RouterInv

LEMMA TimeoutStep ==
    ASSUME RouterInv, NEW n \in Relay, O!cleanup_timed_out_requests(n)
    PROVE  RouterInv'
<1> DEFINE late(p) == O!has_timed_out(p)
           due(i) == \E p \in pending[n] : p.id = i /\ late(p)
<1>1. /\ told' = [i \in 1..RouterMaxRequests |->
                    IF due(i) THEN Append(told[i], [kind |-> "not_found", content |-> router_asked[i]]) ELSE told[i]]
      /\ pending' = [pending EXCEPT ![n] = {p \in pending[n] : ~late(p)}]
      /\ UNCHANGED <<local_content, wire, router_clock, router_asked>>
  BY DEF O!cleanup_timed_out_requests, O!Id
<1> HIDE DEF late
<1>2. Ids \subseteq 1..RouterMaxRequests /\ Ids' = Ids /\ \A i \in Ids : router_asked[i] \in Content
  BY <1>1, RoutesAssumption DEF Ids, RouterInv
<1>3. \A i \in 1..RouterMaxRequests : due(i) => i \in Ids /\ told[i] = <<>>
  BY DEF RouterInv, PendingGood
<1>4. ASSUME NEW i \in 1..RouterMaxRequests, due(i)
      PROVE  told'[i] \in Seq(Notice) /\ Len(told'[i]) = 1 /\ told'[i][1].content = router_asked[i]
  <2>1. told'[i] = Append(<<>>, [kind |-> "not_found", content |-> router_asked[i]])
    BY <1>1, <1>3, <1>4
  <2>2. [kind |-> "not_found", content |-> router_asked[i]] \in Notice
    BY <1>2, <1>3, <1>4 DEF Notice
  <2> QED BY <2>1, <2>2
<1>5. \A i \in 1..RouterMaxRequests : ~due(i) => told'[i] = told[i]
  BY <1>1
<1>6. told' = [i \in 1..RouterMaxRequests |-> told'[i]]
  BY <1>1
<1>7. ToldGood'
  <2> HIDE DEF due
  <2>1. told' \in [1..RouterMaxRequests -> Seq(Notice)]
    <3>1. \A i \in 1..RouterMaxRequests : told'[i] \in Seq(Notice)
      BY <1>4, <1>5 DEF RouterInv, ToldGood
    <3> QED BY <1>6, <3>1
  <2>2. \A i \in 1..RouterMaxRequests : i \notin Ids' => told'[i] = <<>>
    BY <1>2, <1>3, <1>5 DEF RouterInv, ToldGood
  <2>3. ASSUME NEW i \in Ids'
        PROVE  Len(told'[i]) <= 1 /\ \A j \in 1..Len(told'[i]) : told'[i][j].content = router_asked'[i]
    <3>1. CASE due(i)
      <4>1. i \in 1..RouterMaxRequests
        BY <1>2
      <4>2. PICK q : q = told'[i] /\ Len(q) = 1 /\ q[1].content = router_asked[i]
        BY <1>4, <3>1, <4>1
      <4>3. ASSUME NEW j \in 1..Len(q) PROVE q[j].content = router_asked[i]
        <5>1. j = 1
          BY <4>2
        <5> QED BY <4>2, <5>1
      <4>4. Len(q) <= 1 /\ \A j \in 1..Len(q) : q[j].content = router_asked[i]
        BY <4>2, <4>3
      <4>5. q = told'[i] /\ router_asked' = router_asked
        BY <1>1, <4>2
      <4> QED BY <4>4, <4>5, Zenon
    <3>2. CASE ~due(i)
      BY <1>1, <1>2, <1>5, <3>2 DEF RouterInv, ToldGood
    <3> QED BY <3>1, <3>2
  <2> QED BY <2>1, <2>2, <2>3 DEF ToldGood
<1>8. PendingGood'
  <2>1. pending \in [Relay -> SUBSET PendingRecord]
    BY DEF RouterInv, PendingGood
  <2>2. /\ pending' \in [Relay -> SUBSET PendingRecord]
        /\ pending'[n] = {p \in pending[n] : ~late(p)}
        /\ \A k \in Relay : pending'[k] \subseteq pending[k]
    BY <1>1, <2>1
  <2>3. ASSUME NEW k \in Relay, NEW q \in pending'[k]
        PROVE  q.id \in Ids' /\ told'[q.id] = <<>>
    <3>1. q \in pending[k] /\ q.id \in Ids /\ told[q.id] = <<>>
      BY <2>2 DEF RouterInv, PendingGood
    <3>2. ~due(q.id)
      <4>1. SUFFICES ASSUME NEW p \in pending[n], p.id = q.id, late(p) PROVE FALSE OBVIOUS
      <4>2. n = k /\ p = q
        BY <3>1, <4>1 DEF RouterInv, PendingGood
      <4> QED BY <2>2, <4>1, <4>2
    <3> HIDE DEF due
    <3> QED BY <1>2, <1>5, <3>1, <3>2
  <2>4. \A m, k \in Relay : \A q \in pending'[m], r \in pending'[k] : q.id = r.id => m = k /\ q = r
    BY <2>2 DEF RouterInv, PendingGood
  <2> QED BY <2>2, <2>3, <2>4 DEF PendingGood
<1>9. WireGood'
  BY <1>1 DEF RouterInv, WireGood, Ids
<1> QED BY <1>1, <1>7, <1>8, <1>9 DEF RouterInv

LEMMA RouterStep ==
    ASSUME RouterInv, O!Next
    PROVE  RouterInv'
<1>0. router_clock \in Nat /\ pending \in [Relay -> SUBSET PendingRecord]
  BY DEF RouterInv, PendingGood
<1>1. ASSUME NEW n \in Relay, NEW c \in Content, NEW limit \in HopLimit, O!request_content(n, c, limit)
      PROVE  RouterInv'
  <2>1. PICK hops, next : /\ next \in Relay \cup {Nobody} /\ hops \in Int
                          /\ wire' = wire \cup O!send_to_peer(O!Request(next, Len(router_asked'), c, n, hops, <<>>))
    <3>1. (IF limit > MaxHopLimit THEN MaxHopLimit ELSE limit) \in Int
      BY RoutesAssumption
    <3> QED BY <1>1, <3>1 DEF O!request_content
  <2>2. O!Track(n, c)
    BY <1>1 DEF O!request_content
  <2>3. Len(router_asked') \in Nat
    BY <2>2, TrackStep
  <2>4. CASE next \in Relay
    <3>1. PICK m : m = O!Request(next, Len(router_asked'), c, n, hops, <<>>)
      OBVIOUS
    <3>2. m \in RequestRecord /\ m.id = Len(router_asked') /\ m.content = c
      BY <2>1, <2>3, <2>4, <3>1 DEF O!Request, RequestRecord
    <3>3. wire' \subseteq wire \cup {m}
      BY <2>1, <3>1 DEF O!send_to_peer
    <3> QED BY <2>2, <3>2, <3>3, RequestStep
  <2>5. CASE next = Nobody
    <3>1. wire' = wire
      BY <2>1, <2>5 DEF O!send_to_peer, O!Request
    <3>2. PICK m : m = O!Request(n, Len(router_asked'), c, n, hops, <<>>)
      OBVIOUS
    <3>3. m \in RequestRecord /\ m.id = Len(router_asked') /\ m.content = c
      BY <2>1, <2>3, <3>2 DEF O!Request, RequestRecord
    <3> QED BY <2>2, <3>1, <3>3, RequestStep
  <2> QED BY <2>1, <2>4, <2>5
<1>2. ASSUME NEW n \in Relay, NEW c \in Content, NEW path \in Path, O!request_content_with_onion_routing(n, c, path)
      PROVE  RouterInv'
  <2>1. O!Track(n, c)
    BY <1>2 DEF O!request_content_with_onion_routing
  <2>2. Len(router_asked') \in Nat
    BY <2>1, TrackStep
  <2>3. path \in Seq(Relay)
    BY RoutesAssumption
  <2>4. PICK to \in Relay : path = <<>> \/ to = path[1]
    BY <2>3
  <2>5. PICK m : m = O!Request(to, Len(router_asked'), c, n, Len(path) + 2, path)
    OBVIOUS
  <2>6. m \in RequestRecord /\ m.id = Len(router_asked') /\ m.content = c
    BY <2>2, <2>3, <2>5 DEF O!Request, RequestRecord
  <2>7. wire' \subseteq wire \cup {m}
    BY <1>2, <2>4, <2>5 DEF O!request_content_with_onion_routing
  <2> QED BY <2>1, <2>6, <2>7, RequestStep
<1>3. ASSUME NEW n \in Relay, NEW p \in pending[n], O!cancel_request(n, p) PROVE RouterInv'
  <2>1. /\ pending' = [pending EXCEPT ![n] = pending[n] \ {p}]
        /\ UNCHANGED <<local_content, wire, router_clock, router_asked, told>>
    BY <1>3 DEF O!cancel_request
  <2>2. WireGood'
    BY <2>1 DEF RouterInv, WireGood, Ids
  <2> QED BY <1>0, <2>1, <2>2, QuietStep
<1>4. ASSUME NEW m \in wire, O!Lose(m) PROVE RouterInv'
  <2>1. wire' \subseteq wire /\ UNCHANGED <<local_content, pending, router_clock, router_asked, told>>
    BY <1>4 DEF O!Lose
  <2>2. WireGood'
    BY <2>1 DEF RouterInv, WireGood, Ids
  <2> QED BY <1>0, <2>1, <2>2, QuietStep
<1>5. CASE \/ \E n \in Relay : \E c \in Content : O!advertise_local_content(n, c) \/ O!remove_local_content(n, c)
           \/ O!Tick
  <2>1. router_clock' \in Nat /\ UNCHANGED <<pending, wire, router_asked, told>>
    BY <1>0, <1>5 DEF O!advertise_local_content, O!remove_local_content, O!Tick
  <2>2. WireGood'
    BY <2>1 DEF RouterInv, WireGood, Ids
  <2> QED BY <1>0, <2>1, <2>2, QuietStep
<1> QED BY <1>1, <1>2, <1>3, <1>4, <1>5, HandleRequestStep, HandleResponseStep, TimeoutStep DEF O!Next

\* A requester hears of a request at most once, and of no other content than it
\* asked for (Router): for any nodes, routes, hop limits and time-outs, and
\* whatever answers come late, twice, damaged or after a cancellation.
THEOREM AnsweredOnceHolds == ServicesSpec => []AnsweredOnce
<1>1. ServicesInit => RouterInv
  BY RouterInitially DEF ServicesInit
<1>2. RouterInv /\ [ServicesNext]_all_vars => RouterInv'
  <2> SUFFICES ASSUME RouterInv, [ServicesNext]_all_vars PROVE RouterInv' OBVIOUS
  <2>1. CASE O!Next
    BY <2>1, RouterStep
  <2>2. CASE UNCHANGED O_vars
    BY <2>2 DEF O_vars, RouterInv, WireGood, PendingGood, ToldGood, Ids
  <2> QED BY <2>1, <2>2 DEF ServicesNext, all_vars
<1>3. RouterInv => AnsweredOnce
  <2> SUFFICES ASSUME RouterInv, NEW i \in DOMAIN router_asked
               PROVE  Len(told[i]) <= 1 /\ \A j \in DOMAIN told[i] : told[i][j].content = router_asked[i]
    BY DEF AnsweredOnce, O!AnsweredOnce
  <2>1. i \in Ids /\ i \in 1..RouterMaxRequests
    BY RoutesAssumption DEF RouterInv, Ids
  <2>2. told[i] \in Seq(Notice)
    BY <2>1 DEF RouterInv, ToldGood
  <2>3. DOMAIN told[i] = 1..Len(told[i])
    BY <2>2
  <2> QED BY <2>1, <2>3 DEF RouterInv, ToldGood
<1> QED BY <1>1, <1>2, <1>3, PTL DEF ServicesSpec

-----------------------------------------------------------------------------
(* Gateway.  The counter of a client is at least the number of requests it was
   let through in any window that reaches to its last request: a gap as long
   as the window resets the counter, but leaves such a window empty. *)

Window(adm, s, span) == {i \in 1..Len(adm) : s <= adm[i] /\ adm[i] < s + span}

RateGood(adm, last, counter, span, limit) ==
    /\ \A s \in Int : s <= last /\ last < s + span => Cardinality(Window(adm, s, span)) <= counter
    /\ \A s \in Int : Cardinality(Window(adm, s, span)) <= limit

LEMMA WindowFinite ==
    ASSUME NEW adm, Len(adm) \in Nat, NEW s, NEW span
    PROVE  IsFiniteSet(Window(adm, s, span)) /\ Cardinality(Window(adm, s, span)) \in Nat
<1>1. IsFiniteSet(1..Len(adm)) /\ Window(adm, s, span) \subseteq 1..Len(adm)
  BY FS_Interval DEF Window
<1> QED BY <1>1, FS_Subset, FS_CardinalityType

LEMMA RateCounted ==
    ASSUME NEW adm \in Seq(Int), NEW last \in Int, NEW counter \in Nat, NEW span \in Nat, NEW limit \in Nat,
           NEW t \in Int, last <= t, \A i \in 1..Len(adm) : adm[i] <= last,
           RateGood(adm, last, counter, span, limit),
           NEW new, new = (IF t - last >= span THEN 0 ELSE counter) + 1
    PROVE  /\ new \in Nat
           /\ RateGood(adm, t, new, span, limit)
           /\ new <= limit => RateGood(Append(adm, t), t, new, span, limit)
<1>0. new \in Nat \ {0} /\ Len(adm) \in Nat /\ \A i \in 1..Len(adm) : adm[i] \in Int
  OBVIOUS
<1>1. ASSUME NEW s \in Int, s <= t, t < s + span
      PROVE  Cardinality(Window(adm, s, span)) <= new - 1 /\ Cardinality(Window(adm, s, span)) \in Nat
  <2>1. CASE s <= last
    <3>1. last < s + span /\ new = counter + 1
      BY <1>1, <2>1
    <3>2. Cardinality(Window(adm, s, span)) <= counter
      BY <2>1, <3>1 DEF RateGood
    <3> QED BY <1>0, <3>1, <3>2, WindowFinite
  <2>2. CASE ~(s <= last)
    <3>1. Window(adm, s, span) = {}
      BY <1>0, <2>2 DEF Window
    <3>2. Cardinality(Window(adm, s, span)) = 0
      BY <3>1, FS_EmptySet
    <3> QED BY <1>0, <3>2
  <2> QED BY <2>1, <2>2
<1>2. RateGood(adm, t, new, span, limit)
  BY <1>0, <1>1 DEF RateGood
<1>3. ASSUME new <= limit
      PROVE  RateGood(Append(adm, t), t, new, span, limit)
  <2>1. PICK z : z = Append(adm, t)
    OBVIOUS
  <2>2. Len(z) = Len(adm) + 1 /\ z[Len(adm) + 1] = t /\ \A i \in 1..Len(adm) : z[i] = adm[i]
    BY <2>1
  <2>3. ASSUME NEW s \in Int, s <= t, t < s + span
        PROVE  Cardinality(Window(z, s, span)) <= new /\ Cardinality(Window(z, s, span)) \in Nat
    <3>1. Window(z, s, span) = Window(adm, s, span) \cup {Len(adm) + 1}
      <4>1. Len(adm) + 1 \in Window(z, s, span)
        BY <1>0, <2>2, <2>3 DEF Window
      <4>2. ASSUME NEW i, i # Len(adm) + 1 PROVE i \in Window(z, s, span) <=> i \in Window(adm, s, span)
        <5>1. i \in 1..Len(z) <=> i \in 1..Len(adm)
          BY <1>0, <2>2, <4>2
        <5> QED BY <2>2, <5>1 DEF Window
      <4> QED BY <4>1, <4>2
    <3>2. IsFiniteSet(Window(adm, s, span)) /\ Cardinality(Window(adm, s, span)) \in Nat
      BY <1>0, WindowFinite
    <3>3. \/ Cardinality(Window(z, s, span)) = Cardinality(Window(adm, s, span))
          \/ Cardinality(Window(z, s, span)) = Cardinality(Window(adm, s, span)) + 1
      BY <3>1, <3>2, FS_AddElement
    <3>4. Cardinality(Window(adm, s, span)) <= new - 1
      BY <1>1, <2>3
    <3> QED BY <1>0, <3>2, <3>3, <3>4
  <2>4. ASSUME NEW s \in Int, ~(s <= t /\ t < s + span)
        PROVE  Cardinality(Window(z, s, span)) <= limit
    <3>1. Window(z, s, span) = Window(adm, s, span)
      <4>1. Len(adm) + 1 \notin Window(z, s, span)
        BY <2>2, <2>4 DEF Window
      <4>2. \A i : i # Len(adm) + 1 => (i \in 1..Len(z) <=> i \in 1..Len(adm))
        BY <1>0, <2>2
      <4>3. Len(adm) + 1 \notin 1..Len(adm)
        BY <1>0
      <4>4. ASSUME NEW i PROVE i \in Window(z, s, span) <=> i \in Window(adm, s, span)
        <5>1. CASE i = Len(adm) + 1
          BY <4>1, <4>3, <5>1 DEF Window
        <5>2. CASE i # Len(adm) + 1
          BY <2>2, <4>2, <5>2 DEF Window
        <5> QED BY <5>1, <5>2
      <4> QED BY <4>4
    <3> QED BY <3>1 DEF RateGood
  <2>5. \A s \in Int : Cardinality(Window(z, s, span)) <= limit
    BY <1>0, <1>3, <2>3, <2>4
  <2>6. RateGood(z, t, new, span, limit)
    BY <2>3, <2>5 DEF RateGood
  <2> QED BY <2>1, <2>6
<1> QED BY <1>0, <1>2, <1>3

ClientGood(adm, info) ==
    /\ adm \in Seq(Int) /\ info \in [last : Int, minute : Nat, hour : Nat]
    /\ \A i \in 1..Len(adm) : adm[i] <= info.last
    /\ RateGood(adm, info.last, info.minute, Minute, PerMinute)
    /\ RateGood(adm, info.last, info.hour, Hour, PerHour)

GatewayInv ==
    /\ clock \in Nat
    /\ pc = [t \in Thread |-> pc[t]] /\ request = [t \in Thread |-> request[t]]
    /\ \A t \in Thread : pc[t] = "arrived" => request[t].client \in Client
    /\ client_rates = [c \in Client |-> client_rates[c]] /\ admitted = [c \in Client |-> admitted[c]]
    /\ \A c \in Client : ClientGood(admitted[c], client_rates[c]) /\ client_rates[c].last <= clock

LEMMA GatewayInitially == H!Init => GatewayInv
<1> SUFFICES ASSUME H!Init PROVE GatewayInv OBVIOUS
<1>1. ASSUME NEW span \in Nat, NEW limit \in Nat, NEW last
      PROVE  RateGood(<<>>, last, 0, span, limit)
  <2>1. \A s : Window(<<>>, s, span) = {}
    BY DEF Window
  <2>2. \A s : Cardinality(Window(<<>>, s, span)) = 0
    BY <2>1, FS_EmptySet
  <2> QED BY <2>2 DEF RateGood
<1>2. PICK info : info = [last |-> -Hour, minute |-> 0, hour |-> 0]
  OBVIOUS
<1>3. /\ info \in [last : Int, minute : Nat, hour : Nat] /\ info.last <= 0
      /\ info.minute = 0 /\ info.hour = 0
  BY <1>2, RatesAssumption
<1>4. ClientGood(<<>>, info)
  BY <1>1, <1>3, RatesAssumption DEF ClientGood
<1>5. client_rates = [c \in Client |-> info] /\ admitted = [c \in Client |-> <<>>] /\ clock = 0
  BY <1>2 DEF H!Init
<1>6. pc = [t \in Thread |-> "idle"] /\ request = [t \in Thread |-> request[t]]
  BY DEF H!Init
<1> QED BY <1>3, <1>4, <1>5, <1>6 DEF GatewayInv

LEMMA RequestHandled ==
    ASSUME GatewayInv, NEW t \in Thread, H!handle_request(t)
    PROVE  GatewayInv'
<1>1. PICK c : c = request[t].client
  OBVIOUS
<1>2. c \in Client
  BY <1>1 DEF GatewayInv, H!handle_request
<1>3. PICK adm, old : adm = admitted[c] /\ old = client_rates[c]
  OBVIOUS
<1>4. ClientGood(adm, old) /\ old.last <= clock /\ clock \in Nat
  BY <1>2, <1>3 DEF GatewayInv
<1>5. PICK a, b : /\ a = (IF clock - old.last >= Minute THEN 0 ELSE old.minute) + 1
                  /\ b = (IF clock - old.last >= Hour THEN 0 ELSE old.hour) + 1
  OBVIOUS
<1>6. PICK info : info = [last |-> clock, minute |-> a, hour |-> b]
  OBVIOUS
<1>7. PICK passed : passed = (a <= PerMinute /\ b <= PerHour)
  OBVIOUS
<1>8. PICK log : log = IF passed THEN Append(adm, clock) ELSE adm
  OBVIOUS
<1>9. /\ client_rates' = [client_rates EXCEPT ![c] = info]
      /\ pc' = [pc EXCEPT ![t] = IF passed THEN "session" ELSE "idle"]
      /\ admitted' = [admitted EXCEPT ![c] = log]
      /\ request' = request /\ clock' = clock
  BY <1>1, <1>3, <1>5, <1>6, <1>7, <1>8 DEF H!handle_request, H!counted, H!within_limits
<1>10. ClientGood(log, info)
  <2>1. /\ adm \in Seq(Int) /\ old.last \in Int /\ old.minute \in Nat /\ old.hour \in Nat
        /\ \A i \in 1..Len(adm) : adm[i] <= old.last
    BY <1>4 DEF ClientGood
  <2>a. {Minute, PerMinute, Hour, PerHour} \subseteq Nat /\ clock \in Int /\ old.last <= clock
    BY <1>4, RatesAssumption
  <2>b. /\ RateGood(adm, old.last, old.minute, Minute, PerMinute)
        /\ RateGood(adm, old.last, old.hour, Hour, PerHour)
    BY <1>4 DEF ClientGood
  <2>c. ASSUME NEW x \in Nat, NEW span \in Nat, NEW limit \in Nat, RateGood(adm, old.last, x, span, limit),
               NEW y, y = (IF clock - old.last >= span THEN 0 ELSE x) + 1
        PROVE  /\ y \in Nat
               /\ RateGood(adm, clock, y, span, limit)
               /\ y <= limit => RateGood(Append(adm, clock), clock, y, span, limit)
    BY <2>1, <2>a, <2>c, RateCounted
  <2>2. /\ a \in Nat
        /\ RateGood(adm, clock, a, Minute, PerMinute)
        /\ a <= PerMinute => RateGood(Append(adm, clock), clock, a, Minute, PerMinute)
    BY <1>5, <2>1, <2>a, <2>b, <2>c
  <2>3. /\ b \in Nat
        /\ RateGood(adm, clock, b, Hour, PerHour)
        /\ b <= PerHour => RateGood(Append(adm, clock), clock, b, Hour, PerHour)
    BY <1>5, <2>1, <2>a, <2>b, <2>c
  <2>4. /\ info \in [last : Int, minute : Nat, hour : Nat]
        /\ info.last = clock /\ info.minute = a /\ info.hour = b
    BY <1>4, <1>6, <2>2, <2>3
  <2>5. RateGood(log, clock, a, Minute, PerMinute) /\ RateGood(log, clock, b, Hour, PerHour)
    BY <1>7, <1>8, <2>2, <2>3
  <2>6. log \in Seq(Int) /\ \A i \in 1..Len(log) : log[i] <= clock
    <3>1. CASE passed
      <4>1. log = Append(adm, clock)
        BY <1>8, <3>1
      <4>2. /\ log \in Seq(Int) /\ Len(log) = Len(adm) + 1 /\ log[Len(adm) + 1] = clock /\ Len(adm) \in Nat
            /\ \A i \in 1..Len(adm) : log[i] = adm[i] /\ adm[i] \in Int
        BY <1>4, <2>1, <4>1
      <4>3. ASSUME NEW i \in 1..Len(log) PROVE log[i] <= clock
        <5>1. CASE i = Len(adm) + 1
          BY <1>4, <4>2, <5>1
        <5>2. CASE i # Len(adm) + 1
          <6>1. i \in 1..Len(adm)
            BY <4>2, <5>2
          <6> QED BY <1>4, <2>1, <4>2, <6>1
        <5> QED BY <5>1, <5>2
      <4> QED BY <4>2, <4>3
    <3>2. CASE ~passed
      <4>1. log = adm /\ \A i \in 1..Len(adm) : adm[i] \in Int
        BY <1>8, <2>1, <3>2
      <4> QED BY <1>4, <2>1, <4>1
    <3> QED BY <3>1, <3>2
  <2> QED BY <2>4, <2>5, <2>6 DEF ClientGood
<1>11. /\ client_rates' = [d \in Client |-> client_rates'[d]] /\ admitted' = [d \in Client |-> admitted'[d]]
       /\ client_rates'[c] = info /\ admitted'[c] = log
       /\ \A d \in Client \ {c} : client_rates'[d] = client_rates[d] /\ admitted'[d] = admitted[d]
  BY <1>2, <1>9 DEF GatewayInv
<1>12. \A d \in Client : ClientGood(admitted'[d], client_rates'[d]) /\ client_rates'[d].last <= clock'
  <2>1. info.last <= clock
    BY <1>4, <1>6
  <2> QED BY <1>9, <1>10, <1>11, <2>1 DEF GatewayInv
<1>13. pc' = [u \in Thread |-> pc'[u]] /\ \A u \in Thread : pc'[u] = "arrived" => pc[u] = "arrived"
  BY <1>9 DEF GatewayInv
<1> QED BY <1>4, <1>9, <1>11, <1>12, <1>13 DEF GatewayInv

LEMMA GatewayStep ==
    ASSUME GatewayInv, H!Next
    PROVE  GatewayInv'
<1>1. ASSUME UNCHANGED <<request, client_rates, admitted>>, clock' \in Nat, clock <= clock',
             pc' = [u \in Thread |-> pc'[u]], \A u \in Thread : pc'[u] = "arrived" => pc[u] = "arrived"
      PROVE  GatewayInv'
  <2>1. \A c \in Client : client_rates[c].last \in Int
    BY DEF GatewayInv, ClientGood
  <2>2. \A c \in Client : client_rates[c].last <= clock'
    BY <1>1, <2>1 DEF GatewayInv
  <2> QED BY <1>1, <2>2 DEF GatewayInv
<1>2. CASE H!start \/ H!stop \/ H!stop_joined
  BY <1>1, <1>2 DEF H!start, H!stop, H!stop_joined, GatewayInv
<1>3. CASE H!Tick
  BY <1>1, <1>3 DEF H!Tick, GatewayInv
<1>4. ASSUME NEW t \in Thread, NEW r \in H!Request, H!setup_http_routes(t, r) PROVE GatewayInv'
  <2>1. /\ pc' = [pc EXCEPT ![t] = "arrived"] /\ request' = [request EXCEPT ![t] = r]
        /\ UNCHANGED <<client_rates, clock, admitted>>
    BY <1>4 DEF H!setup_http_routes
  <2>2. r.client \in Client
    BY DEF H!Request
  <2>3. pc' = [u \in Thread |-> pc'[u]] /\ request' = [u \in Thread |-> request'[u]]
    BY <2>1 DEF GatewayInv
  <2>4. \A u \in Thread : pc'[u] = "arrived" => request'[u].client \in Client
    BY <2>1, <2>2 DEF GatewayInv
  <2> QED BY <2>1, <2>3, <2>4 DEF GatewayInv
<1>5. ASSUME NEW t \in Thread, H!get_or_create_session(t) \/ H!answer(t) \/ H!handle_status(t) PROVE GatewayInv'
  <2>1. PICK at : at # "arrived" /\ pc' = [pc EXCEPT ![t] = at]
    BY <1>5 DEF H!get_or_create_session, H!known_session, H!new_session, H!cleanup_sessions, H!answer, H!handle_status
  <2>2. UNCHANGED <<request, client_rates, clock, admitted>>
    BY <1>5 DEF H!get_or_create_session, H!answer, H!handle_status
  <2>3. pc' = [u \in Thread |-> pc'[u]] /\ \A u \in Thread : pc'[u] = "arrived" => pc[u] = "arrived"
    BY <2>1 DEF GatewayInv
  <2> QED BY <1>1, <2>2, <2>3 DEF GatewayInv
<1> QED BY <1>2, <1>3, <1>4, <1>5, RequestHandled DEF H!Next

\* No client is let through more often than its limits in any minute or hour,
\* wherever the window starts (Gateway): for any threads, clients and limits,
\* and though the counters reset only after a silence.
THEOREM ClientRateHoldsAlways == ServicesSpec => []ClientRateHolds
<1>1. ServicesInit => GatewayInv
  BY GatewayInitially DEF ServicesInit
<1>2. GatewayInv /\ [ServicesNext]_all_vars => GatewayInv'
  <2> SUFFICES ASSUME GatewayInv, [ServicesNext]_all_vars PROVE GatewayInv' OBVIOUS
  <2>1. CASE H!Next
    BY <2>1, GatewayStep
  <2>2. CASE UNCHANGED H_vars
    BY <2>2 DEF H_vars, GatewayInv
  <2> QED BY <2>1, <2>2 DEF ServicesNext, all_vars
<1>3. GatewayInv => ClientRateHolds
  <2> SUFFICES ASSUME GatewayInv, NEW c \in Client, NEW s \in 0..GatewayMaxTime
               PROVE  /\ Cardinality({i \in DOMAIN admitted[c] :
                                       s <= admitted[c][i] /\ admitted[c][i] < s + Minute}) <= PerMinute
                      /\ Cardinality({i \in DOMAIN admitted[c] :
                                       s <= admitted[c][i] /\ admitted[c][i] < s + Hour}) <= PerHour
    BY DEF ClientRateHolds, H!ClientRateHolds, H!Cardinality, Cardinality
  <2>1. DOMAIN admitted[c] = 1..Len(admitted[c]) /\ ClientGood(admitted[c], client_rates[c])
    BY DEF GatewayInv, ClientGood
  <2>2. /\ {i \in DOMAIN admitted[c] : s <= admitted[c][i] /\ admitted[c][i] < s + Minute}
           = Window(admitted[c], s, Minute)
        /\ {i \in DOMAIN admitted[c] : s <= admitted[c][i] /\ admitted[c][i] < s + Hour}
           = Window(admitted[c], s, Hour)
    BY <2>1 DEF Window
  <2>3. s \in Int
    OBVIOUS
  <2> QED BY <2>1, <2>2, <2>3 DEF ClientGood, RateGood
<1> QED BY <1>1, <1>2, <1>3, PTL DEF ServicesSpec

-----------------------------------------------------------------------------
(* Decay.  A node in touch is followed, with a time of its last report that is
   no older than the last one it made; what it used since is still known. *)

NodeActivity == [last_seen : Nat, last_use : [KeyType -> Nat \cup {None}], actions : [KeyType -> Nat]]
ThingActivity == [created_at : Nat, last_accessed : Nat, accessed : BOOLEAN, hosts : Nat]

DecayTypes ==
    /\ now \in Nat
    /\ node_activity \in [Node -> NodeActivity \cup {None}]
    /\ thing_activity \in ThingActivity \cup {None}
    /\ thing \in [created_at : Nat, hosts : Nat] \cup {None}
    /\ reported \in [Node -> Nat \cup {None}]
    /\ used \in [Node -> [KeyType -> Nat \cup {None}]]
    /\ visited \in Nat \cup {None}
    /\ \A n \in Node : reported[n] # None => reported[n] <= now
    /\ \A n \in Node, k \in KeyType : used[n][k] # None => used[n][k] <= now

NodeKnown(n, a) ==
    /\ InTouch(n) => a # None /\ a.last_seen >= reported[n]
    /\ \A k \in KeyType : used[n][k] # None =>
          InTouch(n) /\ a.last_use[k] # None /\ a.last_use[k] >= used[n][k]

ThingKnown ==
    visited # None => /\ thing_activity # None
                      /\ thing_activity.created_at # 0
                      /\ thing_activity.last_accessed >= visited

DecayInv == DecayTypes /\ (\A n \in Node : NodeKnown(n, node_activity[n])) /\ ThingKnown

LEMMA NewActivityTypes == NewNodeActivity \in NodeActivity /\ NewThingActivity \in ThingActivity
BY DEF NewNodeActivity, NewThingActivity, NodeActivity, ThingActivity

LEMMA ActivityOfTypes ==
    ASSUME DecayInv
    PROVE  /\ \A n \in Node : NodeActivityOf(n) \in NodeActivity
           /\ \A n \in Node : node_activity[n] # None => NodeActivityOf(n) = node_activity[n]
           /\ ThingActivityOf \in ThingActivity
           /\ None \notin NodeActivity /\ None \notin ThingActivity
BY NewActivityTypes, NoneAssumption
   DEF DecayInv, DecayTypes, NodeActivityOf, ThingActivityOf, NodeActivity, ThingActivity

LEMMA TrackedKeeps ==
    ASSUME DecayInv
    PROVE  /\ Tracked \in [Node -> NodeActivity \cup {None}]
           /\ \A n \in Node : node_activity[n] # None => Tracked[n] = node_activity[n]
<1>1. [NewNodeActivity EXCEPT !.last_seen = now] \in NodeActivity
  BY NewActivityTypes DEF NodeActivity, DecayInv, DecayTypes
<1> QED BY <1>1 DEF Tracked, DecayInv, DecayTypes

LEMMA UpdatedThing ==
    ASSUME DecayInv, NEW a \in ThingActivity
    PROVE  /\ update_thing_activity_from_state(a) \in ThingActivity
           /\ a.created_at # 0 => /\ update_thing_activity_from_state(a).created_at = a.created_at
                                  /\ update_thing_activity_from_state(a).last_accessed = a.last_accessed
<1>1. CASE thing = None
  BY <1>1 DEF update_thing_activity_from_state
<1>2. CASE thing # None
  <2>1. thing.hosts \in Nat /\ thing.created_at \in Nat
    BY <1>2 DEF DecayInv, DecayTypes
  <2>2. PICK x, y : /\ x = (IF a.created_at = 0 THEN thing.created_at ELSE a.last_accessed)
                    /\ y = (IF a.created_at = 0 THEN thing.created_at ELSE a.created_at)
    OBVIOUS
  <2>3. update_thing_activity_from_state(a) = [a EXCEPT !.hosts = thing.hosts, !.last_accessed = x, !.created_at = y]
    BY <1>2, <2>2 DEF update_thing_activity_from_state, ThingActivity
  <2>4. x \in Nat /\ y \in Nat
    BY <2>1, <2>2 DEF ThingActivity
  <2> QED BY <2>1, <2>2, <2>3, <2>4 DEF ThingActivity
<1> QED BY <1>1, <1>2

LEMMA TrackedThingKeeps ==
    ASSUME DecayInv
    PROVE  /\ TrackedThing \in ThingActivity \cup {None}
           /\ thing_activity # None => TrackedThing = thing_activity
BY NewActivityTypes, UpdatedThing DEF TrackedThing, DecayInv, DecayTypes

\* What a step has to show that leaves the time and the histories alone.
LEMMA FollowStep ==
    ASSUME DecayInv, UNCHANGED <<thing, now, reported, used, visited>>,
           node_activity' \in [Node -> NodeActivity \cup {None}],
           thing_activity' \in ThingActivity \cup {None},
           \A n \in Node : NodeKnown(n, node_activity'[n]),
           ThingKnown'
    PROVE  DecayInv'
<1>1. \A n \in Node : NodeKnown(n, node_activity[n])'
  BY DEF NodeKnown, InTouch
<1>2. DecayTypes'
  BY DEF DecayInv, DecayTypes
<1> QED BY <1>1, <1>2 DEF DecayInv

\* check_key_decay and process_epoch forget nobody.
LEMMA TrackStepKeeps ==
    ASSUME DecayInv, UNCHANGED <<thing, now, reported, used, visited>>,
           node_activity' \in [Node -> NodeActivity \cup {None}],
           \A n \in Node : node_activity[n] # None => /\ node_activity'[n] # None
                                                      /\ node_activity'[n].last_seen = node_activity[n].last_seen
                                                      /\ node_activity'[n].last_use = node_activity[n].last_use,
           thing_activity' \in {thing_activity, TrackedThing}
    PROVE  DecayInv'
<1>1. \A n \in Node : NodeKnown(n, node_activity'[n])
  BY DEF DecayInv, NodeKnown
<1>2. thing_activity' \in ThingActivity \cup {None} /\ (thing_activity # None => thing_activity' = thing_activity)
  BY TrackedThingKeeps DEF DecayInv, DecayTypes
<1>3. ThingKnown'
  BY <1>2 DEF DecayInv, ThingKnown
<1> QED BY <1>1, <1>2, <1>3, FollowStep

LEMMA ReportStep ==
    ASSUME DecayInv, NEW n \in Node, record_node_activity(n)
    PROVE  DecayInv'
<1>1. PICK a : a = [NodeActivityOf(n) EXCEPT !.last_seen = now]
  OBVIOUS
<1>2. /\ node_activity' = [node_activity EXCEPT ![n] = a]
      /\ reported' = [reported EXCEPT ![n] = now]
      /\ UNCHANGED <<thing, thing_activity, now, used, visited>>
  BY <1>1 DEF record_node_activity
<1>3. a \in NodeActivity /\ a.last_seen = now /\ a.last_use = NodeActivityOf(n).last_use /\ a # None /\ now \in Nat
  BY <1>1, ActivityOfTypes DEF NodeActivity, DecayInv, DecayTypes
<1>4. /\ node_activity'[n] = a /\ reported'[n] = now
      /\ \A m \in Node \ {n} : node_activity'[m] = node_activity[m] /\ reported'[m] = reported[m]
  BY <1>2 DEF DecayInv, DecayTypes
<1>5. DecayTypes'
  <2>1. node_activity' \in [Node -> NodeActivity \cup {None}] /\ reported' \in [Node -> Nat \cup {None}]
    BY <1>2, <1>3 DEF DecayInv, DecayTypes
  <2>2. \A m \in Node : reported'[m] # None => reported'[m] <= now'
    BY <1>2, <1>3, <1>4 DEF DecayInv, DecayTypes
  <2> QED BY <1>2, <2>1, <2>2 DEF DecayInv, DecayTypes
<1>6. ASSUME NEW m \in Node PROVE NodeKnown(m, node_activity[m])'
  <2>1. CASE m # n
    BY <1>2, <1>4, <2>1 DEF DecayInv, NodeKnown, InTouch
  <2>2. CASE m = n
    <3>1. InTouch(n)'
      BY <1>2, <1>3, <1>4, NoneAssumption, DecayAssumption DEF InTouch
    <3>2. \A k \in KeyType : used[n][k] # None => a.last_use[k] # None /\ a.last_use[k] >= used[n][k]
      <4> SUFFICES ASSUME NEW k \in KeyType, used[n][k] # None
                   PROVE  a.last_use[k] # None /\ a.last_use[k] >= used[n][k]
        OBVIOUS
      <4>1. /\ node_activity[n] # None
            /\ node_activity[n].last_use[k] # None /\ node_activity[n].last_use[k] >= used[n][k]
        BY DEF DecayInv, NodeKnown
      <4> QED BY <1>3, <4>1, ActivityOfTypes
    <3> QED BY <1>2, <1>3, <1>4, <2>2, <3>1, <3>2 DEF NodeKnown
  <2> QED BY <2>1, <2>2
<1>7. ThingKnown'
  BY <1>2 DEF DecayInv, ThingKnown
<1> QED BY <1>5, <1>6, <1>7 DEF DecayInv

LEMMA UseStep ==
    ASSUME DecayInv, NEW n \in Node, NEW k \in KeyType, record_key_use(n, k)
    PROVE  DecayInv'
<1>1. PICK b : b = NodeActivityOf(n)
  OBVIOUS
<1>2. PICK a : a = [b EXCEPT !.last_use[k] = now, !.actions[k] = b.actions[k] + 1]
  OBVIOUS
<1>3. /\ node_activity' = [node_activity EXCEPT ![n] = a]
      /\ used' = IF InTouch(n) THEN [used EXCEPT ![n][k] = now] ELSE used
      /\ UNCHANGED <<thing, thing_activity, now, reported, visited>>
  BY <1>1, <1>2 DEF record_key_use
<1>4. b \in NodeActivity /\ now \in Nat /\ None \notin NodeActivity
  BY <1>1, ActivityOfTypes DEF DecayInv, DecayTypes
<1>5. b.actions[k] + 1 \in Nat
  BY <1>4 DEF NodeActivity
<1>6. /\ a \in NodeActivity /\ a.last_seen = b.last_seen /\ a.last_use = [b.last_use EXCEPT ![k] = now]
  BY <1>2, <1>4, <1>5 DEF NodeActivity
<1>7. a # None /\ a.last_use[k] = now /\ now # None /\ \A j \in KeyType \ {k} : a.last_use[j] = b.last_use[j]
  BY <1>4, <1>6, NoneAssumption DEF NodeActivity
<1>8. node_activity'[n] = a /\ \A m \in Node \ {n} : node_activity'[m] = node_activity[m]
  BY <1>3 DEF DecayInv, DecayTypes
<1>9. /\ used' \in [Node -> [KeyType -> Nat \cup {None}]]
      /\ \A m \in Node, j \in KeyType : used'[m][j] = used[m][j] \/ (m = n /\ j = k /\ used'[m][j] = now /\ InTouch(n))
  <2>1. used \in [Node -> [KeyType -> Nat \cup {None}]]
    BY DEF DecayInv, DecayTypes
  <2>2. CASE ~InTouch(n)
    BY <1>3, <2>1, <2>2
  <2>3. CASE InTouch(n)
    <3>1. used' = [used EXCEPT ![n] = [used[n] EXCEPT ![k] = now]]
      BY <1>3, <2>3
    <3>2. [used[n] EXCEPT ![k] = now] \in [KeyType -> Nat \cup {None}]
      BY <1>4, <2>1
    <3> QED BY <2>1, <2>3, <3>1, <3>2
  <2> QED BY <2>2, <2>3
<1>10. DecayTypes'
  <2>1. node_activity' \in [Node -> NodeActivity \cup {None}]
    BY <1>3, <1>6 DEF DecayInv, DecayTypes
  <2>2. \A m \in Node, j \in KeyType : used'[m][j] # None => used'[m][j] <= now'
    BY <1>3, <1>4, <1>9 DEF DecayInv, DecayTypes
  <2> QED BY <1>3, <1>9, <2>1, <2>2 DEF DecayInv, DecayTypes
<1>11. ASSUME NEW m \in Node PROVE NodeKnown(m, node_activity[m])'
  <2>0. NodeKnown(m, node_activity[m]) /\ (InTouch(m)' <=> InTouch(m))
    BY <1>3 DEF DecayInv, InTouch
  <2>1. CASE m # n
    BY <1>3, <1>8, <1>9, <2>0, <2>1 DEF NodeKnown
  <2>2. CASE m = n
    <3>1. InTouch(n) => b = node_activity[n] /\ a.last_seen >= reported[n]
      BY <1>1, <1>6, <2>0, <2>2, ActivityOfTypes DEF NodeKnown
    <3>2. ASSUME NEW j \in KeyType, used'[n][j] # None
          PROVE  InTouch(n) /\ a.last_use[j] # None /\ a.last_use[j] >= used'[n][j]
      <4>1. CASE used'[n][j] = used[n][j]
        <5>1. InTouch(n) /\ node_activity[n].last_use[j] # None /\ node_activity[n].last_use[j] >= used[n][j]
          BY <2>0, <2>2, <3>2, <4>1 DEF NodeKnown
        <5>2. CASE j = k
          BY <1>4, <1>7, <3>2, <4>1, <5>1, <5>2 DEF DecayInv, DecayTypes
        <5>3. CASE j # k
          BY <1>7, <3>1, <4>1, <5>1, <5>3
        <5> QED BY <5>2, <5>3
      <4>2. CASE j = k /\ used'[n][j] = now /\ InTouch(n)
        BY <1>4, <1>7, <4>2
      <4> QED BY <1>9, <4>1, <4>2
    <3> QED BY <1>3, <1>7, <1>8, <2>0, <2>2, <3>1, <3>2 DEF NodeKnown
  <2> QED BY <2>1, <2>2
<1>12. ThingKnown'
  BY <1>3 DEF DecayInv, ThingKnown
<1> QED BY <1>10, <1>11, <1>12 DEF DecayInv

LEMMA AccessStep ==
    ASSUME DecayInv, record_thing_access
    PROVE  DecayInv'
<1>1. PICK b : b = ThingActivityOf
  OBVIOUS
<1>2. PICK a : a = [b EXCEPT !.last_accessed = now, !.accessed = TRUE]
  OBVIOUS
<1>3. /\ thing_activity' = update_thing_activity_from_state(a)
      /\ visited' = IF b.created_at # 0 THEN now ELSE visited
      /\ UNCHANGED <<thing, node_activity, now, reported, used>>
  BY <1>1, <1>2 DEF record_thing_access
<1>4. b \in ThingActivity /\ now \in Nat /\ None \notin ThingActivity
  BY <1>1, ActivityOfTypes DEF DecayInv, DecayTypes
<1>5. a \in ThingActivity /\ a.created_at = b.created_at /\ a.last_accessed = now
  BY <1>2, <1>4 DEF ThingActivity
<1>6. /\ thing_activity' \in ThingActivity
      /\ b.created_at # 0 => thing_activity'.created_at = b.created_at /\ thing_activity'.last_accessed = now
  BY <1>3, <1>5, UpdatedThing
<1>7. DecayTypes' /\ \A n \in Node : NodeKnown(n, node_activity[n])'
  <2>1. visited' \in Nat \cup {None}
    BY <1>3, <1>4 DEF DecayInv, DecayTypes
  <2> QED BY <1>3, <1>6, <2>1 DEF DecayInv, DecayTypes, NodeKnown, InTouch
<1>8. ThingKnown'
  <2>1. CASE b.created_at # 0
    BY <1>3, <1>4, <1>6, <2>1 DEF ThingKnown
  <2>2. CASE b.created_at = 0
    <3>1. visited = None
      BY <1>1, <2>2 DEF DecayInv, ThingKnown, ThingActivityOf
    <3> QED BY <1>3, <2>2, <3>1 DEF ThingKnown
  <2> QED BY <2>1, <2>2
<1> QED BY <1>7, <1>8 DEF DecayInv

LEMMA EpochStep ==
    ASSUME DecayInv, process_epoch
    PROVE  DecayInv'
<1>1. PICK f : f = Tracked
  OBVIOUS
<1>2. /\ node_activity' = [n \in Node |-> IF f[n] = None THEN None ELSE [f[n] EXCEPT !.actions = NewNodeActivity.actions]]
      /\ thing_activity' = TrackedThing
      /\ UNCHANGED <<thing, now, reported, used, visited>>
  BY <1>1 DEF process_epoch
<1>3. f \in [Node -> NodeActivity \cup {None}] /\ \A n \in Node : node_activity[n] # None => f[n] = node_activity[n]
  BY <1>1, TrackedKeeps
<1>4. NewNodeActivity.actions \in [KeyType -> Nat]
  BY DEF NewNodeActivity
<1>5. ASSUME NEW n \in Node, f[n] # None
      PROVE  /\ node_activity'[n] \in NodeActivity /\ node_activity'[n].last_seen = f[n].last_seen
             /\ node_activity'[n].last_use = f[n].last_use
  <2>1. f[n] \in NodeActivity /\ node_activity'[n] = [f[n] EXCEPT !.actions = NewNodeActivity.actions]
    BY <1>2, <1>3, <1>5
  <2> QED BY <1>4, <2>1 DEF NodeActivity
<1>6. node_activity' \in [Node -> NodeActivity \cup {None}]
  <2>1. \A n \in Node : node_activity'[n] \in NodeActivity \cup {None}
    BY <1>2, <1>5
  <2>2. node_activity' = [n \in Node |-> node_activity'[n]]
    BY <1>2
  <2> QED BY <2>1, <2>2
<1>7. \A n \in Node : node_activity[n] # None => /\ node_activity'[n] # None
                                                 /\ node_activity'[n].last_seen = node_activity[n].last_seen
                                                 /\ node_activity'[n].last_use = node_activity[n].last_use
  BY <1>3, <1>5, ActivityOfTypes
<1> QED BY <1>2, <1>6, <1>7, TrackStepKeeps

LEMMA ForgetStep ==
    ASSUME DecayInv, cleanup_inactive_nodes
    PROVE  DecayInv'
<1>1. /\ node_activity' = [n \in Node |->
            IF node_activity[n] # None /\ is_inactive(NodeActivityOf(n).last_seen, ForgetAfter)
            THEN None ELSE node_activity[n]]
      /\ UNCHANGED <<thing, thing_activity, now, reported, used, visited>>
  BY DEF cleanup_inactive_nodes
<1>2. ASSUME NEW n \in Node, InTouch(n)
      PROVE  node_activity'[n] = node_activity[n]
  <2>1. node_activity[n] # None /\ node_activity[n].last_seen >= reported[n]
    BY <1>2 DEF DecayInv, NodeKnown
  <2>2. NodeActivityOf(n) = node_activity[n] /\ node_activity[n].last_seen \in Nat
    BY <2>1, ActivityOfTypes DEF NodeActivity
  <2>3. reported[n] \in Nat /\ now - reported[n] <= ForgetAfter /\ now \in Nat
    BY <1>2 DEF InTouch, DecayInv, DecayTypes
  <2>4. ~is_inactive(NodeActivityOf(n).last_seen, ForgetAfter)
    BY <2>1, <2>2, <2>3, DecayAssumption DEF is_inactive
  <2> QED BY <1>1, <2>4
<1>3. node_activity' \in [Node -> NodeActivity \cup {None}]
  BY <1>1 DEF DecayInv, DecayTypes
<1>4. \A n \in Node : NodeKnown(n, node_activity'[n])
  BY <1>2 DEF DecayInv, NodeKnown
<1>5. ThingKnown' /\ thing_activity' \in ThingActivity \cup {None}
  BY <1>1 DEF DecayInv, DecayTypes, ThingKnown
<1> QED BY <1>1, <1>3, <1>4, <1>5, FollowStep

LEMMA ClockStep ==
    ASSUME DecayInv, Tick
    PROVE  DecayInv'
<1>1. /\ now' = now + 1 /\ now \in Nat
      /\ used' = [n \in Node |-> IF InTouch(n) /\ now + 1 - reported[n] <= ForgetAfter THEN used[n]
                                 ELSE [k \in KeyType |-> None]]
      /\ UNCHANGED <<thing, node_activity, thing_activity, reported, visited>>
  BY DEF Tick, DecayInv, DecayTypes
<1>2. ASSUME NEW n \in Node
      PROVE  (InTouch(n)' => InTouch(n)) /\ (InTouch(n) /\ now + 1 - reported[n] <= ForgetAfter => InTouch(n)')
  <2>1. reported[n] # None => reported[n] \in Nat
    BY DEF DecayInv, DecayTypes
  <2> QED BY <1>1, <2>1, DecayAssumption DEF InTouch
<1>3. used' \in [Node -> [KeyType -> Nat \cup {None}]]
      /\ \A n \in Node, k \in KeyType : used'[n][k] # None => used'[n][k] = used[n][k] /\ InTouch(n)'
  <2>1. used \in [Node -> [KeyType -> Nat \cup {None}]]
    BY DEF DecayInv, DecayTypes
  <2> QED BY <1>1, <1>2, <2>1
<1>4. DecayTypes'
  <2>1. \A n \in Node : reported[n] # None => reported[n] <= now + 1
    BY <1>1 DEF DecayInv, DecayTypes
  <2>2. \A n \in Node, k \in KeyType : used'[n][k] # None => used'[n][k] <= now + 1
    <3> SUFFICES ASSUME NEW n \in Node, NEW k \in KeyType, used'[n][k] # None PROVE used'[n][k] <= now + 1 OBVIOUS
    <3>1. used'[n][k] = used[n][k] /\ used[n][k] \in Nat /\ used[n][k] <= now
      BY <1>3 DEF DecayInv, DecayTypes
    <3> QED BY <1>1, <3>1
  <2> QED BY <1>1, <1>3, <2>1, <2>2 DEF DecayInv, DecayTypes
<1>5. \A n \in Node : NodeKnown(n, node_activity[n])'
  BY <1>1, <1>2, <1>3 DEF DecayInv, NodeKnown
<1>6. ThingKnown'
  BY <1>1 DEF DecayInv, ThingKnown
<1> QED BY <1>4, <1>5, <1>6 DEF DecayInv

LEMMA DecayStep ==
    ASSUME DecayInv, Next
    PROVE  DecayInv'
<1>1. ASSUME UNCHANGED <<node_activity, thing_activity, now, reported, used, visited>>,
             thing' \in [created_at : Nat, hosts : Nat] \cup {None}
      PROVE  DecayInv'
  BY <1>1 DEF DecayInv, DecayTypes, NodeKnown, InTouch, ThingKnown
<1>2. CASE UNCHANGED scheduler_vars \/ NodeChanges
  BY <1>1, <1>2 DEF scheduler_vars, NodeChanges, DecayInv, DecayTypes
<1>3. CASE ThingChanges
  <2>1. thing' \in [created_at : Nat, hosts : Nat]
    <3>1. thing # None => thing \in [created_at : Nat, hosts : Nat]
      BY DEF DecayInv, DecayTypes
    <3>2. CASE thing' = [created_at |-> now, hosts |-> IF thing = None THEN 1 ELSE thing.hosts + 1]
      BY <3>1, <3>2 DEF DecayInv, DecayTypes
    <3>3. CASE IsAvailable /\ thing' = [thing EXCEPT !.hosts = thing.hosts - 1]
      <4>1. thing \in [created_at : Nat, hosts : Nat] /\ thing.hosts - 1 \in Nat
        BY <3>1, <3>3 DEF IsAvailable
      <4> QED BY <3>3, <4>1
    <3> QED BY <1>3, <3>2, <3>3 DEF ThingChanges
  <2> QED BY <1>1, <1>3, <2>1 DEF ThingChanges
<1>4. CASE check_key_decay
  <2>1. node_activity' = Tracked /\ UNCHANGED <<thing, thing_activity, now, reported, used, visited>>
    BY <1>4 DEF check_key_decay
  <2>2. \A n \in Node : node_activity[n] # None => node_activity'[n] = node_activity[n]
    BY <2>1, TrackedKeeps
  <2> QED BY <2>1, <2>2, TrackedKeeps, TrackStepKeeps
<1>5. CASE check_thing_decay
  <2>1. thing_activity' = TrackedThing /\ UNCHANGED <<thing, node_activity, now, reported, used, visited>>
    BY <1>5 DEF check_thing_decay
  <2> QED BY <2>1, TrackStepKeeps DEF DecayInv, DecayTypes
<1>6. CASE SchedulerNext
  BY <1>2, <1>3, <1>6, ReportStep, UseStep, AccessStep, EpochStep, ForgetStep, ClockStep DEF SchedulerNext
<1>7. CASE start \/ stop \/ join \/ trigger_check \/ SetTrigger \/ Worker \/ IntervalElapsed
  BY <1>2, <1>4, <1>5, <1>7 DEF start, stop, join, trigger_check, SetTrigger, Worker, IntervalElapsed, Leave,
     Triggered, WakeUp, LookAgain, ClearTrigger, CheckKeys, CheckThings, EndCheck
<1> QED BY <1>6, <1>7 DEF Next

LEMMA DecayInvGives == DecayInv => NoFalseInactivity
<1> SUFFICES ASSUME DecayInv PROVE NoFalseInactivity OBVIOUS
<1>1. ASSUME NEW n \in Node, NEW k \in KeyType, KeyDecay(n, k) = "INACTIVITY",
             IsRecent(reported[n], Policy[k].threshold),
             Policy[k].requires_activity => IsRecent(used[n][k], Policy[k].threshold)
      PROVE  FALSE
  <2>0. Policy[k] \in [max_age : Nat, threshold : Nat, requires_activity : BOOLEAN, min_actions : Nat]
    BY DecayAssumption
  <2>1. PICK a : a = Tracked[n]
    OBVIOUS
  <2>2. /\ Policy[k].max_age # 0
        /\ \/ is_inactive(a.last_seen, Policy[k].threshold)
           \/ Policy[k].requires_activity /\ ~has_used_key_type(a, k, Policy[k].threshold)
    <3>1. should_decay_key(a, k) = "INACTIVITY"
      BY <1>1, <2>1, NoneAssumption DEF KeyDecay
    <3> QED BY <3>1, NoneAssumption DEF should_decay_key
  <2>3. /\ now \in Nat /\ reported[n] \in Nat /\ now - reported[n] <= Policy[k].threshold
        /\ Policy[k].threshold <= ForgetAfter /\ Policy[k].threshold \in Nat /\ ForgetAfter \in Nat
    BY <1>1, <2>0, <2>2, ForgetAssumption, DecayAssumption DEF IsRecent, DecayInv, DecayTypes
  <2>4. InTouch(n)
    BY <1>1, <2>3 DEF InTouch, IsRecent
  <2>5. node_activity[n] # None /\ node_activity[n].last_seen >= reported[n] /\ a = node_activity[n]
    BY <2>1, <2>4, TrackedKeeps DEF DecayInv, NodeKnown
  <2>6. a \in NodeActivity
    BY <2>5 DEF DecayInv, DecayTypes
  <2>7. ~is_inactive(a.last_seen, Policy[k].threshold)
    BY <2>3, <2>5, <2>6 DEF is_inactive, NodeActivity
  <2>8. CASE Policy[k].requires_activity /\ ~has_used_key_type(a, k, Policy[k].threshold)
    <3>1. used[n][k] # None /\ now - used[n][k] <= Policy[k].threshold
      BY <1>1, <2>8 DEF IsRecent
    <3>2. a.last_use[k] # None /\ a.last_use[k] >= used[n][k]
      BY <2>5, <3>1 DEF DecayInv, NodeKnown
    <3>3. a.last_use[k] \in Nat /\ used[n][k] \in Nat
      BY <2>6, <3>1, <3>2 DEF NodeActivity, DecayInv, DecayTypes
    <3> QED BY <2>3, <2>8, <3>1, <3>2, <3>3 DEF has_used_key_type, is_inactive
  <2> QED BY <2>2, <2>7, <2>8
<1>2. ASSUME ThingDecay = "INACTIVITY", IsRecent(visited, ThingIdle)
      PROVE  FALSE
  <2>1. visited # None /\ visited \in Nat /\ now \in Nat /\ now - visited <= ThingIdle
    BY <1>2 DEF IsRecent, DecayInv, DecayTypes
  <2>2. thing_activity # None /\ thing_activity.last_accessed >= visited /\ TrackedThing = thing_activity
    BY <2>1, TrackedThingKeeps DEF DecayInv, ThingKnown
  <2>3. thing_activity.last_accessed \in Nat
    BY <2>2 DEF DecayInv, DecayTypes, ThingActivity
  <2>4. ~is_inactive(thing_activity.last_accessed, ThingIdle)
    BY <2>1, <2>2, <2>3, DecayAssumption DEF is_inactive
  <2> QED BY <1>2, <2>2, <2>4, NoneAssumption DEF ThingDecay, should_decay_thing
<1> QED BY <1>1, <1>2 DEF NoFalseInactivity

\* No key is found inactive whose node reported in time and used it in time, and
\* no Thing that was accessed in time (Decay): for any nodes, key types and
\* policies that decay before a node is forgotten, and whatever checks, epochs,
\* clean-ups and changes of the state lie in between.
THEOREM NoFalseInactivityHolds == ServicesSpec => []NoFalseInactivity
<1>1. ServicesInit => DecayInv
  <2> SUFFICES ASSUME SchedulerInit PROVE DecayInv BY DEF ServicesInit, Init
  <2>1. DecayTypes
    BY DEF SchedulerInit, DecayTypes
  <2>2. \A n \in Node : ~InTouch(n) /\ \A k \in KeyType : used[n][k] = None
    BY DEF SchedulerInit, InTouch
  <2> QED BY <2>1, <2>2 DEF SchedulerInit, DecayInv, NodeKnown, ThingKnown
<1>2. DecayInv /\ [ServicesNext]_all_vars => DecayInv'
  <2> SUFFICES ASSUME DecayInv, [ServicesNext]_all_vars PROVE DecayInv' OBVIOUS
  <2>1. CASE Next
    BY <2>1, DecayStep
  <2>2. CASE UNCHANGED vars
    BY <2>2 DEF vars, scheduler_vars, DecayInv, DecayTypes, NodeKnown, InTouch, ThingKnown
  <2> QED BY <2>1, <2>2 DEF ServicesNext, all_vars
<1> QED BY <1>1, <1>2, DecayInvGives, PTL DEF ServicesSpec
=============================================================================
