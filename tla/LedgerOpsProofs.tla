-------------------------- MODULE LedgerOpsProofs ---------------------------
(***************************************************************************)
(* Lemmas about the operations of one Ledger object, for the proofs about  *)
(* the modules that use it.  Good(l) collects what every Ledger object     *)
(* satisfies by itself; the constructor establishes it and an append that  *)
(* passed verify_event keeps it.  Two ledgers that are linked agree        *)
(* wherever they share an event, because a hash link determines the event  *)
(* before it.                                                              *)
(*                                                                         *)
(* Induction is by least counterexample: a set of numbers that is not      *)
(* empty has a least member.                                               *)
(***************************************************************************)
EXTENDS LedgerOps, NaturalsInduction, WellFoundedInduction, TLAPS

LEMMA LeastNumber ==
    ASSUME NEW T \in SUBSET Nat, T # {}
    PROVE  \E x \in T : \A y \in T : x <= y
<1>1. PICK x \in T : \A y \in T : ~ (<<y, x>> \in OpToRel(<, Nat))
  BY NatLessThanWellFounded, WFMin
<1>2. \A y \in T : ~ (y < x)
  BY <1>1 DEF OpToRel
<1> QED BY <1>2

\* A sequence after an Append.
LEMMA AppendFacts ==
    ASSUME NEW S, NEW s \in Seq(S), NEW e \in S
    PROVE  /\ Len(s) \in Nat
           /\ Append(s, e) \in Seq(S)
           /\ Len(Append(s, e)) = Len(s) + 1
           /\ Append(s, e)[Len(s) + 1] = e
           /\ \A i \in 1..Len(s) : Append(s, e)[i] = s[i]
           /\ Append(s, e) # <<>>
           /\ s = <<>> <=> Len(s) = 0
OBVIOUS

\* A list of s grows with s, or stays when the new member is none of its own.
LEMMA ListGrows ==
    ASSUME NEW S, NEW s \in Seq(S), NEW t \in Seq(S), NEW e \in S, NEW A, NEW B,
           ListsInOrder(t, s, A),
           \A i \in 1..Len(s) : s[i] \in B <=> s[i] \in A
    PROVE  /\ e \in B => ListsInOrder(Append(t, e), Append(s, e), B)
           /\ e \notin B => ListsInOrder(t, Append(s, e), B)
<1> DEFINE s2 == Append(s, e)
           t2 == Append(t, e)
           K == Len(s)
           L == Len(t)
<1>1. K \in Nat /\ Len(s2) = K + 1 /\ s2[K + 1] = e /\ \A k \in 1..K : s2[k] = s[k]
  BY AppendFacts
<1>2. L \in Nat /\ Len(t2) = L + 1 /\ t2[L + 1] = e /\ \A k \in 1..L : t2[k] = t[k]
  BY AppendFacts
<1>3. /\ \A i \in 1..L : t[i] \in A /\ \E k \in 1..K : s[k] = t[i]
      /\ \A k \in 1..K : s[k] \in A => \E i \in 1..L : t[i] = s[k]
      /\ \A i, j \in 1..L : i < j => \E k, l \in 1..K : k < l /\ s[k] = t[i] /\ s[l] = t[j]
  BY DEF ListsInOrder
<1>4. \A i \in 1..K : s[i] \in B <=> s[i] \in A
  OBVIOUS
<1> SUFFICES /\ e \in B => ListsInOrder(t2, s2, B)
             /\ e \notin B => ListsInOrder(t, s2, B)
  OBVIOUS
<1> HIDE DEF s2, t2, K, L
<1>7. ASSUME NEW i \in 1..L, NEW j \in 1..L, i < j
      PROVE  \E k, l \in 1..(K + 1) : k < l /\ s2[k] = t[i] /\ s2[l] = t[j]
  <2>1. PICK k \in 1..K, l \in 1..K : k < l /\ s[k] = t[i] /\ s[l] = t[j]
    BY <1>3, <1>7
  <2>2. k \in 1..(K + 1) /\ l \in 1..(K + 1) /\ s2[k] = t[i] /\ s2[l] = t[j]
    BY <1>1, <2>1
  <2> QED BY <2>1, <2>2
<1>8. ASSUME e \notin B PROVE ListsInOrder(t, s2, B)
  <2>1. \A i \in 1..L : t[i] \in B /\ \E k \in 1..(K + 1) : s2[k] = t[i]
    BY <1>1, <1>3, <1>4
  <2>2. \A k \in 1..(K + 1) : s2[k] \in B => \E i \in 1..L : t[i] = s2[k]
    BY <1>1, <1>3, <1>4, <1>8
  <2> QED BY <1>1, <1>7, <2>1, <2>2 DEF ListsInOrder, L
<1>9. ASSUME e \in B PROVE ListsInOrder(t2, s2, B)
  <2>1. \A i \in 1..(L + 1) : t2[i] \in B /\ \E k \in 1..(K + 1) : s2[k] = t2[i]
    <3> SUFFICES ASSUME NEW i \in 1..(L + 1)
                 PROVE  t2[i] \in B /\ \E k \in 1..(K + 1) : s2[k] = t2[i]
      OBVIOUS
    <3>1. CASE i = L + 1
      <4>1. K + 1 \in 1..(K + 1)
        BY <1>1
      <4> QED BY <1>1, <1>2, <1>9, <3>1, <4>1
    <3>2. CASE i \in 1..L
      <4>1. PICK k \in 1..K : s[k] = t[i] /\ t[i] \in A
        BY <1>3, <3>2
      <4> QED BY <1>1, <1>2, <1>4, <3>2, <4>1
    <3> QED BY <1>2, <3>1, <3>2
  <2>3. \A k \in 1..(K + 1) : s2[k] \in B => \E i \in 1..(L + 1) : t2[i] = s2[k]
    <3> SUFFICES ASSUME NEW k \in 1..(K + 1), s2[k] \in B PROVE \E i \in 1..(L + 1) : t2[i] = s2[k]
      OBVIOUS
    <3>1. CASE k = K + 1
      <4>1. L + 1 \in 1..(L + 1)
        BY <1>2
      <4> QED BY <1>1, <1>2, <3>1, <4>1
    <3>2. CASE k \in 1..K
      <4>1. PICK i \in 1..L : t[i] = s[k]
        BY <1>1, <1>3, <1>4, <3>2
      <4> QED BY <1>1, <1>2, <3>2, <4>1
    <3> QED BY <1>1, <3>1, <3>2
  <2>2. ASSUME NEW i \in 1..(L + 1), NEW j \in 1..(L + 1), i < j
        PROVE  \E k, l \in 1..(K + 1) : k < l /\ s2[k] = t2[i] /\ s2[l] = t2[j]
    <3>0. i \in 1..L /\ t2[i] = t[i]
      BY <1>2, <2>2
    <3>1. CASE j \in 1..L
      BY <1>2, <1>7, <2>2, <3>0, <3>1
    <3>2. CASE j = L + 1
      <4>1. PICK k \in 1..K : s[k] = t[i]
        BY <1>3, <3>0
      <4>2. k \in 1..(K + 1) /\ K + 1 \in 1..(K + 1) /\ k < K + 1 /\ s2[k] = t2[i] /\ s2[K + 1] = t2[j]
        BY <1>1, <1>2, <3>0, <3>2, <4>1
      <4> QED BY <4>2
    <3> QED BY <1>2, <3>1, <3>2
  <2> QED BY <1>1, <1>2, <2>1, <2>2, <2>3 DEF ListsInOrder
<1> QED BY <1>8, <1>9

-----------------------------------------------------------------------------
(* One ledger *)

Shape(l) ==
    l = [ events         |-> l.events,
          event_lookup   |-> l.event_lookup,
          events_by_node |-> l.events_by_node,
          latest_hash    |-> l.latest_hash,
          event_counter  |-> l.event_counter ]

Linked(l) ==
    \A i \in 1..Len(l.events) :
        l.events[i].previous_hash =
            IF i = 1 THEN ZeroHash ELSE compute_hash(l.events[i - 1])

Lookup(l) ==
    /\ \A i \in 1..Len(l.events) :
          /\ l.events[i].event_id \in DOMAIN l.event_lookup
          /\ l.event_lookup[l.events[i].event_id] = i
    /\ \A id \in DOMAIN l.event_lookup :
          /\ l.event_lookup[id] \in 1..Len(l.events)
          /\ l.events[l.event_lookup[id]].event_id = id

TipHash(l) ==
    l.latest_hash = IF l.events = <<>> THEN ZeroHash ELSE compute_hash(Tip(l))

Indexed(l) ==
    \A m \in DOMAIN l.events_by_node : l.events_by_node[m] \in Seq(DOMAIN l.event_lookup)

Good(l) == Shape(l) /\ Linked(l) /\ Lookup(l) /\ Indexed(l) /\ TipHash(l)

\* Blake3 is modelled without collisions, and never yields the zero hash.
LEMMA HashFacts ==
    /\ \A x, y : compute_hash(x) = compute_hash(y) => x = y
    /\ \A x : compute_hash(x) # ZeroHash
BY DEF compute_hash, Blake3, ZeroHash

\* The constructor's ledger.
LEMMA EmptyGood == Good(EmptyLedger)
BY DEF Good, Shape, Linked, Lookup, Indexed, TipHash, EmptyLedger

\* create_event's counter does not touch the rest.
LEMMA BumpedGood ==
    ASSUME NEW l, Good(l), NEW c
    PROVE  LET b == [l EXCEPT !.event_counter = c]
           IN  /\ Good(b) /\ b.events = l.events /\ b.event_counter = c
               /\ b.latest_hash = l.latest_hash
               /\ \A m : get_events_by_node(b, m) = get_events_by_node(l, m)
BY DEF Good, Shape, Linked, Lookup, Indexed, TipHash, Tip, get_events_by_node, get_event

\* An append that passed verify_event keeps everything.
LEMMA AppendGood ==
    ASSUME NEW S, NEW l, Good(l), l.events \in Seq(S), NEW e \in S, NEW now,
           verify_event(l, e, now)
    PROVE  Good(Appended(l, e))
<1> DEFINE a == Appended(l, e)
           N == Len(l.events)
<1>0. /\ a.event_lookup =
              [id \in DOMAIN l.event_lookup \cup {e.event_id} |->
                 IF id = e.event_id THEN N + 1 ELSE l.event_lookup[id]]
      /\ a.latest_hash = compute_hash(e)
      /\ a.events = Append(l.events, e)
      /\ a.events_by_node = IndexByNode(l.events_by_node, e)
      /\ Shape(a)
  BY DEF Appended, Shape
<1>1. /\ N \in Nat
      /\ a.events = Append(l.events, e)
      /\ Len(a.events) = N + 1
      /\ a.events[N + 1] = e
      /\ \A i \in 1..N : a.events[i] = l.events[i]
      /\ a.events # <<>>
      /\ l.events = <<>> <=> N = 0
  BY <1>0, AppendFacts
<1>2. e.event_id \notin DOMAIN l.event_lookup
  BY DEF verify_event, IsKnown
<1>3. Linked(a)
  <2>1. e.previous_hash = IF N = 0 THEN ZeroHash ELSE compute_hash(l.events[N])
    BY <1>1 DEF verify_event, verify_event_chain, Tip
  <2> SUFFICES ASSUME NEW i \in 1..(N + 1)
               PROVE  a.events[i].previous_hash =
                        IF i = 1 THEN ZeroHash ELSE compute_hash(a.events[i - 1])
    BY <1>1 DEF Linked
  <2>2. CASE i = N + 1
    BY <1>1, <2>1, <2>2
  <2>3. CASE i \in 1..N
    <3>1. i = 1 \/ (i - 1) \in 1..N
      BY <1>1, <2>3
    <3> QED BY <1>1, <2>3, <3>1 DEF Good, Linked
  <2> QED BY <1>1, <2>2, <2>3
<1>4. Lookup(a)
  <2>1. /\ DOMAIN a.event_lookup = DOMAIN l.event_lookup \cup {e.event_id}
        /\ a.event_lookup[e.event_id] = N + 1
        /\ \A id \in DOMAIN l.event_lookup : a.event_lookup[id] = l.event_lookup[id]
    BY <1>0, <1>2
  <2>2. ASSUME NEW i \in 1..(N + 1)
        PROVE  /\ a.events[i].event_id \in DOMAIN a.event_lookup
               /\ a.event_lookup[a.events[i].event_id] = i
    <3>1. CASE i = N + 1
      BY <1>1, <2>1, <3>1
    <3>2. CASE i \in 1..N
      BY <1>1, <2>1, <3>2 DEF Good, Lookup
    <3> QED BY <1>1, <3>1, <3>2
  <2>3. ASSUME NEW id \in DOMAIN a.event_lookup
        PROVE  /\ a.event_lookup[id] \in 1..(N + 1)
               /\ a.events[a.event_lookup[id]].event_id = id
    <3>1. CASE id = e.event_id
      BY <1>1, <2>1, <3>1
    <3>2. CASE id \in DOMAIN l.event_lookup
      <4>1. PICK i : i = l.event_lookup[id]
        OBVIOUS
      <4>2. i \in 1..N /\ l.events[i].event_id = id
        BY <3>2, <4>1 DEF Good, Lookup
      <4>3. a.event_lookup[id] = i /\ a.events[i] = l.events[i] /\ i \in 1..(N + 1)
        BY <1>1, <2>1, <3>2, <4>1, <4>2
      <4> QED BY <4>2, <4>3
    <3> QED BY <2>1, <3>1, <3>2
  <2> QED BY <1>1, <2>2, <2>3 DEF Lookup
<1>5. TipHash(a)
  BY <1>0, <1>1 DEF TipHash, Tip
<1>6. Indexed(a)
  <2> DEFINE ids == DOMAIN l.event_lookup
             more == ids \cup {e.event_id}
  <2>1. DOMAIN a.event_lookup = more
    BY <1>0
  <2>2. \A m \in DOMAIN l.events_by_node : l.events_by_node[m] \in Seq(ids)
    BY DEF Good, Indexed
  <2>3. \A m \in DOMAIN l.events_by_node : l.events_by_node[m] \in Seq(more)
    BY <2>2
  <2> HIDE DEF more
  <2>4. e.event_id \in more
    BY DEF more
  <2>5. \A m \in DOMAIN a.events_by_node : a.events_by_node[m] \in Seq(more)
    BY <1>0, <2>3, <2>4 DEF IndexByNode
  <2> QED BY <2>1, <2>5 DEF Indexed
<1> QED BY <1>0, <1>3, <1>4, <1>5, <1>6 DEF Good

LEMMA AppendIs ==
    ASSUME NEW S, NEW h \in Seq(S), NEW e \in S
    PROVE  Append(h, e) = [i \in 1..(Len(h) + 1) |-> IF i = Len(h) + 1 THEN e ELSE h[i]]
<1>1. PICK z : z = Append(h, e)
  OBVIOUS
<1>2. z \in Seq(S) /\ Len(h) \in Nat /\ Len(z) = Len(h) + 1
  BY <1>1
<1>3. \A i \in 1..(Len(h) + 1) : z[i] = IF i = Len(h) + 1 THEN e ELSE h[i]
  BY <1>1
<1>4. z = [i \in 1..Len(z) |-> z[i]]
  BY <1>2
<1> QED BY <1>1, <1>2, <1>3, <1>4

\* get_events_by_node gives events of the ledger, and one more for the source
\* of an event that is appended.
LEMMA IndexGrows ==
    ASSUME NEW S, NEW l, Good(l), l.events \in Seq(S), NEW e \in S, NEW now,
           verify_event(l, e, now), NEW m
    PROVE  /\ get_events_by_node(l, m) \in Seq(S)
           /\ get_events_by_node(Appended(l, e), m) =
                IF e.source_node = m THEN Append(get_events_by_node(l, m), e)
                ELSE get_events_by_node(l, m)
<1> DEFINE a == Appended(l, e)
           N == Len(l.events)
           ids == DOMAIN l.event_lookup
<1>1. /\ a.event_lookup = [id \in ids \cup {e.event_id} |->
                               IF id = e.event_id THEN N + 1 ELSE l.event_lookup[id]]
      /\ a.events = Append(l.events, e)
      /\ a.events_by_node = IndexByNode(l.events_by_node, e)
  BY DEF Appended
<1>2. N \in Nat /\ a.events[N + 1] = e /\ \A i \in 1..N : a.events[i] = l.events[i] /\ l.events[i] \in S
  BY <1>1, AppendFacts
<1>3. e.event_id \notin ids
  BY DEF verify_event, IsKnown
<1>4. \A id \in ids : l.event_lookup[id] \in 1..N
  BY DEF Good, Lookup
<1>5. \A id \in ids : get_event(l, id) \in S /\ get_event(a, id) = get_event(l, id)
  BY <1>1, <1>2, <1>3, <1>4 DEF get_event
<1>6. get_event(a, e.event_id) = e
  BY <1>1, <1>2 DEF get_event
<1>7. \A n \in DOMAIN l.events_by_node : l.events_by_node[n] \in Seq(ids)
  BY DEF Good, Indexed
<1>8. e.source_node \in DOMAIN a.events_by_node /\ \A n : n # e.source_node =>
         /\ n \in DOMAIN a.events_by_node <=> n \in DOMAIN l.events_by_node
         /\ n \in DOMAIN l.events_by_node => a.events_by_node[n] = l.events_by_node[n]
  BY <1>1 DEF IndexByNode
<1>9. a.events_by_node[e.source_node] =
         Append(IF e.source_node \in DOMAIN l.events_by_node
                THEN l.events_by_node[e.source_node] ELSE <<>>, e.event_id)
  BY <1>1 DEF IndexByNode
<1> HIDE DEF a, N
<1>10. get_events_by_node(l, m) \in Seq(S)
  <2>1. CASE m \notin DOMAIN l.events_by_node
    BY <2>1 DEF get_events_by_node
  <2>2. CASE m \in DOMAIN l.events_by_node
    <3> DEFINE q == l.events_by_node[m]
    <3>1. q \in Seq(ids) /\ get_events_by_node(l, m) = [i \in 1..Len(q) |-> get_event(l, q[i])]
      BY <1>7, <2>2 DEF get_events_by_node
    <3>2. Len(q) \in Nat /\ \A i \in 1..Len(q) : q[i] \in ids
      BY <3>1
    <3> HIDE DEF q
    <3>3. \A i \in 1..Len(q) : get_event(l, q[i]) \in S
      BY <1>5, <3>2
    <3> QED BY <3>1, <3>2, <3>3
  <2> QED BY <2>1, <2>2
<1>11. CASE e.source_node # m
  <2>1. CASE m \notin DOMAIN l.events_by_node
    <3>1. get_events_by_node(a, m) = <<>> /\ get_events_by_node(l, m) = <<>>
      BY <1>8, <1>11, <2>1 DEF get_events_by_node
    <3> QED BY <1>10, <1>11, <3>1 DEF a
  <2>2. CASE m \in DOMAIN l.events_by_node
    <3> DEFINE q == l.events_by_node[m]
    <3>1. q \in Seq(ids) /\ get_events_by_node(l, m) = [i \in 1..Len(q) |-> get_event(l, q[i])]
      BY <1>7, <2>2 DEF get_events_by_node
    <3>2. get_events_by_node(a, m) = [i \in 1..Len(q) |-> get_event(a, q[i])]
      BY <1>8, <1>11, <2>2, <3>1 DEF get_events_by_node
    <3>3. \A i \in 1..Len(q) : q[i] \in ids
      BY <3>1
    <3> HIDE DEF q
    <3>4. get_events_by_node(a, m) = get_events_by_node(l, m)
      BY <1>5, <3>1, <3>2, <3>3
    <3> QED BY <1>10, <1>11, <3>4 DEF a
  <2> QED BY <2>1, <2>2
<1>12. CASE e.source_node = m
  <2> DEFINE q == IF m \in DOMAIN l.events_by_node THEN l.events_by_node[m] ELSE <<>>
             r == Append(q, e.event_id)
  <2>1. q \in Seq(ids) /\ get_events_by_node(l, m) = [i \in 1..Len(q) |-> get_event(l, q[i])]
    <3>1. CASE m \in DOMAIN l.events_by_node
      BY <1>7, <3>1 DEF get_events_by_node
    <3>2. CASE m \notin DOMAIN l.events_by_node
      <4>1. q = <<>> /\ get_events_by_node(l, m) = <<>>
        BY <3>2 DEF get_events_by_node
      <4>2. <<>> \in Seq(ids) /\ <<>> = [i \in 1..0 |-> get_event(l, q[i])] /\ Len(<<>>) = 0
        OBVIOUS
      <4> HIDE DEF q
      <4> QED BY <4>1, <4>2
    <3> QED BY <3>1, <3>2
  <2>2. q \in Seq(ids \cup {e.event_id}) /\ e.event_id \in ids \cup {e.event_id}
    BY <2>1
  <2>3. /\ Len(q) \in Nat /\ Len(r) = Len(q) + 1 /\ r[Len(q) + 1] = e.event_id
        /\ DOMAIN r = 1..(Len(q) + 1)
        /\ \A i \in 1..Len(q) : r[i] = q[i] /\ q[i] \in ids
    BY <2>1, <2>2
  <2>4. get_events_by_node(a, m) = [i \in 1..(Len(q) + 1) |-> get_event(a, r[i])]
    <3>1. m \in DOMAIN a.events_by_node /\ a.events_by_node[m] = r
      BY <1>8, <1>9, <1>12
    <3>2. Len(r) = Len(q) + 1
      BY <2>3
    <3> HIDE DEF q, r
    <3> QED BY <3>1, <3>2 DEF get_events_by_node
  <2> DEFINE g == get_events_by_node(l, m)
  <2>5. Append(g, e) = [i \in 1..(Len(q) + 1) |-> IF i = Len(q) + 1 THEN e ELSE g[i]]
    <3>1. g \in Seq(S) /\ Len(g) = Len(q)
      BY <1>10, <2>1, <2>3
    <3>2. PICK h : h = g
      OBVIOUS
    <3>3. Append(h, e) = [i \in 1..(Len(h) + 1) |-> IF i = Len(h) + 1 THEN e ELSE h[i]]
      BY <3>1, <3>2, AppendIs
    <3> HIDE DEF g, q, r
    <3> QED BY <3>1, <3>2, <3>3
  <2> HIDE DEF q, r
  <2>6. \A i \in 1..(Len(q) + 1) : get_event(a, r[i]) = IF i = Len(q) + 1 THEN e ELSE g[i]
    BY <1>5, <1>6, <2>1, <2>3
  <2>7. get_events_by_node(a, m) = Append(g, e)
    BY <2>4, <2>5, <2>6
  <2> QED BY <1>10, <1>12, <2>7 DEF a
<1> QED BY <1>10, <1>11, <1>12 DEF a

\* add_event either refuses the event or appends it after the tip.
LEMMA AddEventCases ==
    ASSUME NEW S, NEW l, Good(l), l.events \in Seq(S), NEW e \in S, NEW now
    PROVE  /\ Good(add_event(l, e, now))
           /\ add_event(l, e, now).event_counter = l.event_counter
           /\ ~verify_event(l, e, now) => add_event(l, e, now) = l
           /\ verify_event(l, e, now) =>
                /\ add_event(l, e, now).events = Append(l.events, e)
                /\ e.previous_hash = IF l.events = <<>> THEN ZeroHash ELSE compute_hash(Tip(l))
                /\ ~(e.timestamp > now + MaxFutureSkew)
<1>1. CASE ~verify_event(l, e, now)
  BY <1>1 DEF add_event
<1>2. CASE verify_event(l, e, now)
  <2>1. add_event(l, e, now) = Appended(l, e)
    BY <1>2 DEF add_event
  <2>2. Good(Appended(l, e))
    BY <1>2, AppendGood
  <2>3. /\ Appended(l, e).events = Append(l.events, e)
        /\ Appended(l, e).event_counter = l.event_counter
    BY DEF Appended
  <2>5. /\ e.previous_hash = IF l.events = <<>> THEN ZeroHash ELSE compute_hash(Tip(l))
        /\ ~(e.timestamp > now + MaxFutureSkew)
    BY <1>2 DEF verify_event, verify_event_chain, TooFarAhead
  <2> QED BY <1>2, <2>1, <2>2, <2>3, <2>5
<1> QED BY <1>1, <1>2

\* a has the index by node of l, with e added for its source.
IndexAfter(a, l, e, S) ==
    \A m : /\ get_events_by_node(l, m) \in Seq(S)
           /\ get_events_by_node(a, m) =
                IF e.source_node = m THEN Append(get_events_by_node(l, m), e)
                ELSE get_events_by_node(l, m)

LEMMA AddEventIndex ==
    ASSUME NEW S, NEW l, Good(l), l.events \in Seq(S), NEW e \in S, NEW now,
           verify_event(l, e, now)
    PROVE  IndexAfter(add_event(l, e, now), l, e, S)
<1>1. add_event(l, e, now) = Appended(l, e)
  BY DEF add_event
<1> QED BY <1>1, IndexGrows DEF IndexAfter

-----------------------------------------------------------------------------
(* Two ledgers *)

LinkedSeq(t) ==
    \A j \in 1..Len(t) :
        t[j].previous_hash = IF j = 1 THEN ZeroHash ELSE compute_hash(t[j - 1])

Agree(s, t) ==
    \A i \in 1..Len(s), j \in 1..Len(t) :
        s[i] = t[j] => i = j /\ \A k \in 1..i : s[k] = t[k]

\* Linked sequences agree wherever they share an event: the link of an event
\* determines the event before it, so that two ways to the same event can be
\* walked back to the start in step.
LEMMA LinkedAgree ==
    ASSUME NEW S, NEW s \in Seq(S), NEW t \in Seq(S), LinkedSeq(s), LinkedSeq(t)
    PROVE  Agree(s, t)
<1> DEFINE Meet(i, j) == s[i] = t[j] => i = j /\ \A k \in 1..i : s[k] = t[k]
           T == {i \in 1..Len(s) : \E j \in 1..Len(t) : ~ Meet(i, j)}
<1>0. Len(s) \in Nat /\ Len(t) \in Nat
  OBVIOUS
<1>1. SUFFICES ASSUME T # {} PROVE FALSE
  BY DEF Agree
<1>2. T \in SUBSET Nat
  BY <1>0
<1>3. PICK i \in T : \A m \in T : i <= m
  BY <1>1, <1>2, LeastNumber
<1>4. PICK j \in 1..Len(t) : ~ Meet(i, j)
  OBVIOUS
<1>5. s[i] = t[j] /\ i \in 1..Len(s)
  BY <1>4
<1>6. /\ s[i].previous_hash = IF i = 1 THEN ZeroHash ELSE compute_hash(s[i - 1])
      /\ s[i].previous_hash = IF j = 1 THEN ZeroHash ELSE compute_hash(t[j - 1])
  BY <1>5 DEF LinkedSeq
<1>7. CASE i = 1 \/ j = 1
  <2>1. i = 1 /\ j = 1
    BY <1>6, <1>7, HashFacts
  <2> QED BY <1>4, <1>5, <2>1
<1>8. CASE i # 1 /\ j # 1
  <2>1. s[i - 1] = t[j - 1]
    BY <1>6, <1>8, HashFacts
  <2>2. i - 1 \in 1..Len(s) /\ j - 1 \in 1..Len(t)
    BY <1>0, <1>5, <1>8
  <2>3. i - 1 \notin T
    BY <1>2, <1>3, <2>2
  <2>4. Meet(i - 1, j - 1)
    BY <2>2, <2>3
  <2>5. i - 1 = j - 1 /\ \A k \in 1..(i - 1) : s[k] = t[k]
    BY <2>1, <2>4
  <2> QED BY <1>0, <1>4, <1>5, <2>5
<1> QED BY <1>7, <1>8
=============================================================================
