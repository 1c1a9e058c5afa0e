---------------------------- MODULE OverlayProofs ---------------------------
(***************************************************************************)
(* Proofs about what moves messages and content between nodes, for any     *)
(* nodes, messages, targets, workers and limits: Gossip and Replication.   *)
(* Induction over a sequence is by least counterexample.                   *)
(***************************************************************************)
EXTENDS MCOverlay, FiniteSetTheorems, WellFoundedInduction, NaturalsInduction, TLAPS

LEMMA LeastNumber ==
    ASSUME NEW T \in SUBSET Nat, T # {}
    PROVE  \E x \in T : \A y \in T : x <= y
<1>1. PICK x \in T : \A y \in T : ~ (<<y, x>> \in OpToRel(<, Nat))
  BY NatLessThanWellFounded, WFMin
<1>2. \A y \in T : ~ (y < x)
  BY <1>1 DEF OpToRel
<1> QED BY <1>2

(* The clean-ups of both modules leave the entries at some positions of a
   sequence, in their order. *)

\* The function they compute with, on the first k entries of s.
Filters(f, s, In, k) ==
    f = [i \in 0..k |-> IF i = 0 THEN <<>> ELSE IF i \in In THEN Append(f[i - 1], s[i]) ELSE f[i - 1]]

\* q are the entries of s at the positions In, and place[a] is that of q[a].
IsSelection(place, q, s, In) ==
    /\ place \in [1..Len(q) -> In]
    /\ \A a \in 1..Len(q) : q[a] = s[place[a]]
    /\ \A a, b \in 1..Len(q) : a < b => place[a] < place[b]
    /\ \A i \in In : \E a \in 1..Len(q) : place[a] = i

Selected(q, s, In) == \E place : IsSelection(place, q, s, In)

LEMMA FilterExists ==
    ASSUME NEW S, NEW s \in Seq(S), NEW In
    PROVE  \E f : Filters(f, s, In, Len(s))
<1> DEFINE T == {k \in 0..Len(s) : ~ \E f : Filters(f, s, In, k)}
           next(q, i) == IF i \in In THEN Append(q, s[i]) ELSE q
<1>0. Len(s) \in Nat
  OBVIOUS
<1>1. SUFFICES ASSUME T # {} PROVE FALSE
  BY <1>0
<1>2. T \in SUBSET Nat
  BY <1>0
<1>3. PICK k \in T : \A j \in T : k <= j
  <2> HIDE DEF T
  <2> QED BY <1>1, <1>2, LeastNumber
<1>4. k # 0
  <2>1. Filters([i \in 0..0 |-> <<>>], s, In, 0)
    BY DEF Filters
  <2> QED BY <2>1
<1>5. k - 1 \in 0..Len(s) /\ k \in 1..Len(s)
  BY <1>0, <1>4
<1>6. PICK f : Filters(f, s, In, k - 1)
  BY <1>3, <1>5
<1>7. f = [i \in 0..(k - 1) |-> IF i = 0 THEN <<>> ELSE next(f[i - 1], i)]
  BY <1>6 DEF Filters
<1> DEFINE new == next(f[k - 1], k)
           g == [i \in 0..k |-> IF i = k THEN new ELSE f[i]]
<1> HIDE DEF next
<1>8. ASSUME NEW i \in 0..k
      PROVE  g[i] = IF i = 0 THEN <<>> ELSE next(g[i - 1], i)
  <2>1. CASE i = k
    <3>1. g[k - 1] = f[k - 1] /\ g[k] = new
      BY <1>5
    <3> QED BY <1>4, <2>1, <3>1
  <2>2. CASE i # k
    <3>1. g[i] = f[i] /\ i \in 0..(k - 1) /\ (i # 0 => g[i - 1] = f[i - 1])
      BY <1>5, <2>2
    <3>2. f[i] = IF i = 0 THEN <<>> ELSE next(f[i - 1], i)
      BY <1>7, <3>1
    <3> QED BY <3>1, <3>2
  <2> QED BY <2>1, <2>2
<1>9. g = [i \in 0..k |-> g[i]]
  OBVIOUS
<1> HIDE DEF g, new
<1>10. Filters(g, s, In, k)
  <2>1. g = [i \in 0..k |-> IF i = 0 THEN <<>> ELSE next(g[i - 1], i)]
    BY <1>8, <1>9
  <2> QED BY <2>1 DEF Filters, next
<1> QED BY <1>10

LEMMA FilterSelects ==
    ASSUME NEW S, NEW s \in Seq(S), NEW In, NEW f, Filters(f, s, In, Len(s))
    PROVE  /\ f[Len(s)] \in Seq(S)
           /\ Len(f[Len(s)]) <= Len(s)
           /\ Selected(f[Len(s)], s, In \cap 1..Len(s))
<1> DEFINE Done(k) == f[k] \in Seq(S) /\ Len(f[k]) <= k /\ Selected(f[k], s, In \cap 1..k)
           T == {k \in 0..Len(s) : ~Done(k)}
<1>0. Len(s) \in Nat /\ \A i \in 1..Len(s) : s[i] \in S
  OBVIOUS
<1>3. ASSUME T # {} PROVE FALSE
  <2>1. T \in SUBSET Nat
    BY <1>0
  <2>2. PICK k \in T : \A j \in T : k <= j
    <3> HIDE DEF T
    <3> QED BY <1>3, <2>1, LeastNumber
  <2>3. f[k] = IF k = 0 THEN <<>> ELSE IF k \in In THEN Append(f[k - 1], s[k]) ELSE f[k - 1]
    BY DEF Filters
  <2>4. k # 0
    <3>1. Len(<<>>) = 0 /\ <<>> \in Seq(S) /\ In \cap 1..0 = {}
      OBVIOUS
    <3>2. IsSelection([a \in {} |-> 0], <<>>, s, In \cap 1..0)
      BY <3>1 DEF IsSelection
    <3>3. Selected(<<>>, s, In \cap 1..0)
      BY <3>2 DEF Selected
    <3>4. ASSUME k = 0 PROVE FALSE
      <4>1. f[0] = <<>>
        BY <2>3, <3>4
      <4> QED BY <2>2, <3>1, <3>3, <3>4, <4>1
    <3> QED BY <3>4
  <2>5. k \in 1..Len(s) /\ k - 1 \in 0..Len(s) /\ s[k] \in S
    BY <1>0, <2>4
  <2>50. k - 1 \notin T /\ ~Done(k)
    <3> HIDE DEF Done
    <3> QED BY <2>1, <2>2, <2>5
  <2>51. Done(k - 1)
    <3> HIDE DEF Done
    <3> QED BY <2>5, <2>50
  <2>6. PICK q \in Seq(S) : q = f[k - 1] /\ Len(q) <= k - 1 /\ Selected(q, s, In \cap 1..(k - 1))
    BY <2>51
  <2>7. PICK place : IsSelection(place, q, s, In \cap 1..(k - 1))
    BY <2>6 DEF Selected
  <2>8. CASE k \notin In
    <3>1. f[k] = q
      BY <2>3, <2>4, <2>6, <2>8
    <3>2. In \cap 1..k = In \cap 1..(k - 1)
      BY <2>5, <2>8
    <3>3. Len(q) <= k
      BY <2>5, <2>6
    <3>4. Done(k)
      BY <2>6, <3>1, <3>2, <3>3
    <3> QED BY <2>50, <3>4
  <2>9. CASE k \in In
    <3>1. PICK r : r = Append(q, s[k])
      OBVIOUS
    <3>2. f[k] = r
      BY <2>3, <2>4, <2>6, <2>9, <3>1
    <3>3. /\ r \in Seq(S) /\ Len(r) = Len(q) + 1 /\ Len(q) \in Nat
          /\ r[Len(q) + 1] = s[k] /\ \A a \in 1..Len(q) : r[a] = q[a]
      BY <2>5, <3>1
    <3>4. PICK p2 : p2 = [a \in 1..(Len(q) + 1) |-> IF a = Len(q) + 1 THEN k ELSE place[a]]
      OBVIOUS
    <3>50. \A a \in 1..Len(q) : place[a] \in In \cap 1..(k - 1)
      BY <2>7 DEF IsSelection
    <3>51. p2[Len(q) + 1] = k /\ \A a \in 1..Len(q) : p2[a] = place[a]
      BY <3>3, <3>4
    <3>5. p2[Len(q) + 1] = k /\ \A a \in 1..Len(q) : p2[a] = place[a] /\ p2[a] \in In /\ p2[a] \in 1..(k - 1)
      BY <3>50, <3>51
    <3>6. p2 \in [1..Len(r) -> In \cap 1..k]
      <4>1. \A a \in 1..(Len(q) + 1) : a = Len(q) + 1 \/ a \in 1..Len(q)
        BY <3>3
      <4>2. \A a \in 1..(Len(q) + 1) : p2[a] \in In \cap 1..k
        BY <2>5, <2>9, <3>5, <4>1
      <4> QED BY <3>3, <3>4, <4>2
    <3>7. \A a \in 1..Len(r) : r[a] = s[p2[a]]
      BY <2>7, <3>3, <3>5 DEF IsSelection
    <3>8. ASSUME NEW a \in 1..Len(r), NEW b \in 1..Len(r), a < b PROVE p2[a] < p2[b]
      <4>1. a \in 1..Len(q)
        BY <3>3, <3>8
      <4>2. CASE b = Len(q) + 1
        BY <2>5, <3>5, <4>1, <4>2
      <4>3. CASE b \in 1..Len(q)
        BY <2>7, <3>5, <3>8, <4>1, <4>3 DEF IsSelection
      <4> QED BY <3>3, <4>2, <4>3
    <3>9. ASSUME NEW i \in In \cap 1..k PROVE \E a \in 1..Len(r) : p2[a] = i
      <4>1. CASE i = k
        BY <3>3, <3>5, <4>1
      <4>2. CASE i # k
        <5>1. i \in In \cap 1..(k - 1)
          BY <2>5, <4>2
        <5>2. PICK a \in 1..Len(q) : place[a] = i
          BY <2>7, <5>1 DEF IsSelection
        <5> QED BY <3>3, <3>5, <5>2
      <4> QED BY <4>1, <4>2
    <3>10. IsSelection(p2, r, s, In \cap 1..k)
      BY <3>6, <3>7, <3>8, <3>9 DEF IsSelection
    <3>11. Selected(r, s, In \cap 1..k)
      BY <3>10 DEF Selected
    <3>12. Len(r) <= k
      BY <2>5, <2>6, <3>3
    <3>13. Done(k)
      BY <3>2, <3>3, <3>11, <3>12
    <3> QED BY <2>50, <3>13
  <2> QED BY <2>8, <2>9
<1>4. Len(s) \notin T
  BY <1>3
<1>5. Done(Len(s))
  <2> HIDE DEF Done
  <2> QED BY <1>0, <1>4
<1> QED BY <1>5

(* Gossip.  A message that was handled is in the cache, or too old: an entry
   is no older than its message, and lives at least as long. *)

\* What Kept leaves.
LEMMA KeptSelects ==
    ASSUME NEW S, NEW s \in Seq(S), NEW t, NEW ttl
    PROVE  /\ Kept(s, t, ttl) \in Seq(S)
           /\ Len(Kept(s, t, ttl)) <= Len(s)
           /\ Selected(Kept(s, t, ttl), s, {i \in 1..Len(s) : ~(t - s[i].time > ttl)})
<1> DEFINE In == {i \in 1..Len(s) : ~(t - s[i].time > ttl)}
           Is(f) == f = [i \in 0..Len(s) |->
                           IF i = 0 THEN <<>>
                           ELSE IF t - s[i].time > ttl THEN f[i - 1] ELSE Append(f[i - 1], s[i])]
           g == CHOOSE f : Is(f)
<1>0. Len(s) \in Nat
  OBVIOUS
<1>1. Kept(s, t, ttl) = g[Len(s)]
  BY DEF Kept
<1>2. ASSUME NEW f PROVE Is(f) <=> Filters(f, s, In, Len(s))
  <2>1. \A i \in 0..Len(s) : i # 0 => (i \in In <=> ~(t - s[i].time > ttl))
    BY <1>0
  <2>2. \A i \in 0..Len(s) :
           (IF i = 0 THEN <<>> ELSE IF t - s[i].time > ttl THEN f[i - 1] ELSE Append(f[i - 1], s[i]))
           = (IF i = 0 THEN <<>> ELSE IF i \in In THEN Append(f[i - 1], s[i]) ELSE f[i - 1])
    BY <2>1
  <2> HIDE DEF In
  <2> QED BY <2>2 DEF Filters
<1>3. PICK f : Filters(f, s, In, Len(s))
  BY FilterExists
<1>4. Is(g)
  <2>1. Is(f)
    BY <1>2, <1>3
  <2> HIDE DEF Is
  <2> QED BY <2>1
<1>5. Filters(g, s, In, Len(s))
  BY <1>2, <1>4
<1>6. In \cap 1..Len(s) = In
  OBVIOUS
<1> HIDE DEF g, In
<1> QED BY <1>1, <1>5, <1>6, FilterSelects DEF In

\* r is the cache s with an entry e more, and perhaps without its oldest.
Marked(r, S, s, e) ==
    /\ r \in Seq(S) /\ Len(r) \in 1..MaxSeen
    /\ r[Len(r)] = e
    /\ \A i \in 1..Len(r) : r[i] = e \/ \E j \in 1..Len(s) : r[i] = s[j]
    /\ \A j \in 1..Len(s) : (Len(s) >= MaxSeen /\ s[j] = Head(s)) \/ \E i \in 1..Len(r) : r[i] = s[j]

LEMMA MarkFacts ==
    ASSUME NEW S, NEW s \in Seq(S), Len(s) <= MaxSeen, NEW m, NEW t, [id |-> m, time |-> t] \in S
    PROVE  Marked(mark_as_seen(s, m, t), S, s, [id |-> m, time |-> t])
<1>0. Len(s) \in Nat /\ MaxSeen \in Nat /\ MaxSeen >= 1
  BY GossipAssumption
<1>1. PICK e : e = [id |-> m, time |-> t]
  OBVIOUS
<1>2. PICK u : u = IF Len(s) >= MaxSeen THEN Tail(s) ELSE s
  OBVIOUS
<1>3. PICK r : r = Append(u, e)
  OBVIOUS
<1>4. /\ u \in Seq(S) /\ Len(u) \in Nat /\ Len(u) + 1 <= MaxSeen
      /\ \A i \in 1..Len(u) : \E j \in 1..Len(s) : u[i] = s[j]
      /\ \A j \in 1..Len(s) : (Len(s) >= MaxSeen /\ s[j] = Head(s)) \/ \E i \in 1..Len(u) : u[i] = s[j]
  <2>1. CASE Len(s) >= MaxSeen
    <3>1. s # <<>> /\ u = Tail(s)
      BY <1>0, <1>2, <2>1
    <3>2. u \in Seq(S) /\ Len(u) = Len(s) - 1 /\ \A i \in 1..Len(u) : u[i] = s[i + 1]
      BY <3>1
    <3>3. \A i \in 1..Len(u) : \E j \in 1..Len(s) : u[i] = s[j]
      BY <1>0, <3>2
    <3>4. ASSUME NEW j \in 1..Len(s), j # 1 PROVE \E i \in 1..Len(u) : u[i] = s[j]
      <4>1. j - 1 \in 1..Len(u) /\ u[j - 1] = s[j]
        BY <1>0, <3>2, <3>4
      <4> QED BY <4>1
    <3>5. s[1] = Head(s)
      BY <3>1
    <3> QED BY <1>0, <2>1, <3>2, <3>3, <3>4, <3>5
  <2>2. CASE ~(Len(s) >= MaxSeen)
    BY <1>0, <1>2, <2>2
  <2> QED BY <2>1, <2>2
<1>5. /\ r \in Seq(S) /\ Len(r) = Len(u) + 1 /\ r[Len(u) + 1] = e
      /\ \A i \in 1..Len(u) : r[i] = u[i]
  BY <1>1, <1>3, <1>4
<1>6. ASSUME NEW i \in 1..Len(r), r[i] # e PROVE \E j \in 1..Len(s) : r[i] = s[j]
  <2>1. i \in 1..Len(u) /\ r[i] = u[i]
    BY <1>4, <1>5, <1>6
  <2> QED BY <1>4, <2>1
<1>7. ASSUME NEW j \in 1..Len(s), ~(Len(s) >= MaxSeen /\ s[j] = Head(s))
      PROVE  \E i \in 1..Len(r) : r[i] = s[j]
  <2>1. PICK i \in 1..Len(u) : u[i] = s[j]
    BY <1>4, <1>7
  <2>2. i \in 1..Len(r) /\ r[i] = s[j]
    BY <1>4, <1>5, <2>1
  <2> QED BY <2>2
<1>8. mark_as_seen(s, m, t) = r
  BY <1>1, <1>2, <1>3 DEF mark_as_seen
<1>9. Len(r) \in 1..MaxSeen /\ r[Len(r)] = e
  BY <1>0, <1>4, <1>5
<1>10. Marked(r, S, s, e)
  BY <1>5, <1>6, <1>7, <1>9 DEF Marked
<1> QED BY <1>1, <1>8, <1>10

Entry(t) == [id : Msg, time : 0..t]

\* The cache of n follows what n handled, and no entry is older than its message.
CacheGood(n) ==
    /\ \A i \in 1..Len(seen[n]) : born[seen[n][i].id] \in Nat /\ born[seen[n][i].id] <= seen[n][i].time
    /\ \A m \in handled[n] :
          /\ born[m] \in Nat
          /\ (\E i \in 1..Len(seen[n]) : seen[n][i].id = m) \/ clock[n] - born[m] > MaxAge

GossipInv == DedupSound /\ \A n \in Node : CacheGood(n)

LEMMA EntryGrows ==
    ASSUME NEW t \in Nat, NEW u \in Nat, t <= u, NEW s \in Seq(Entry(t))
    PROVE  s \in Seq(Entry(u))
<1>1. Entry(t) \subseteq Entry(u)
  BY DEF Entry
<1> QED BY <1>1

LEMMA CacheTypes ==
    ASSUME GossipInv, NEW n \in Node
    PROVE  /\ clock[n] \in Nat /\ seen[n] \in Seq(Entry(clock[n])) /\ Len(seen[n]) <= MaxSeen
           /\ \A i \in 1..Len(seen[n]) : seen[n][i].id \in Msg /\ seen[n][i].time \in Nat
<1>1. clock[n] \in 0..MaxTime
  BY DEF GossipInv, DedupSound, TypeOK
<1>2. clock[n] \in Nat
  BY <1>1, GossipAssumption
<1>3. seen[n] \in Seq(Entry(clock[n])) /\ Len(seen[n]) <= MaxSeen
  BY DEF GossipInv, DedupSound, TypeOK, Entry
<1>4. ASSUME NEW i \in 1..Len(seen[n]) PROVE seen[n][i].id \in Msg /\ seen[n][i].time \in Nat
  <2>1. seen[n][i] \in Entry(clock[n])
    BY <1>3
  <2> QED BY <1>2, <2>1 DEF Entry
<1> QED BY <1>2, <1>3, <1>4

LEMMA RandomPeers ==
    ASSUME NEW n \in Node, peers[n] \subseteq Node, NEW S \in get_random_peers(n)
    PROVE  S \subseteq Node
BY DEF get_random_peers, kSubset

\* What holds when n marks m as seen, created or received: r is the new cache, h
\* the new set of handled messages.
MarkedFor(r, h, n, m) ==
    /\ r \in Seq(Entry(clock[n])) /\ Len(r) <= MaxSeen
    /\ \A i \in 1..Len(r) : (r[i].id = m /\ r[i].time = clock[n]) \/ \E j \in 1..Len(seen[n]) : r[i] = seen[n][j]
    /\ \A x \in h : \/ \E i \in 1..Len(r) : r[i].id = x
                    \/ x \in handled[n] /\ clock[n] - born[x] > MaxAge

LEMMA MarkStep ==
    ASSUME GossipInv, NEW n \in Node, NEW m \in Msg,
           NEW h, h = handled[n] \ Evicted(n) \/ h = (handled[n] \ Evicted(n)) \cup {m},
           NEW r, r = mark_as_seen(seen[n], m, clock[n])
    PROVE  MarkedFor(r, h, n, m)
<1>1. seen[n] \in Seq(Entry(clock[n])) /\ Len(seen[n]) <= MaxSeen /\ clock[n] \in Nat
  BY CacheTypes
<1>2. [id |-> m, time |-> clock[n]] \in Entry(clock[n])
  BY <1>1 DEF Entry
<1>30. Marked(r, Entry(clock[n]), seen[n], [id |-> m, time |-> clock[n]])
  BY <1>1, <1>2, MarkFacts
<1>3. /\ r \in Seq(Entry(clock[n])) /\ Len(r) \in 1..MaxSeen
      /\ r[Len(r)] = [id |-> m, time |-> clock[n]]
      /\ \A i \in 1..Len(r) : r[i] = [id |-> m, time |-> clock[n]] \/ \E j \in 1..Len(seen[n]) : r[i] = seen[n][j]
      /\ \A j \in 1..Len(seen[n]) : \/ Len(seen[n]) >= MaxSeen /\ seen[n][j] = Head(seen[n])
                                    \/ \E i \in 1..Len(r) : r[i] = seen[n][j]
  BY <1>30 DEF Marked
<1>4. ASSUME NEW x \in h, ~ \E i \in 1..Len(r) : r[i].id = x
      PROVE  x \in handled[n] /\ clock[n] - born[x] > MaxAge
  <2>1. x # m
    <3>1. Len(r) \in 1..Len(r) /\ r[Len(r)].id = m
      BY <1>3
    <3> QED BY <1>4, <3>1
  <2>2. x \in handled[n] /\ x \notin Evicted(n)
    BY <1>4, <2>1
  <2>3. ASSUME NEW j \in 1..Len(seen[n]), seen[n][j].id = x PROVE FALSE
    <3>1. CASE Len(seen[n]) >= MaxSeen /\ seen[n][j] = Head(seen[n])
      BY <2>2, <2>3, <3>1 DEF Evicted
    <3>2. CASE \E i \in 1..Len(r) : r[i] = seen[n][j]
      BY <1>4, <2>3, <3>2
    <3> QED BY <1>3, <3>1, <3>2
  <2> QED BY <2>2, <2>3 DEF GossipInv, CacheGood
<1>5. Len(r) <= MaxSeen
  BY <1>3, GossipAssumption
<1>6. \A i \in 1..Len(r) : (r[i].id = m /\ r[i].time = clock[n]) \/ \E j \in 1..Len(seen[n]) : r[i] = seen[n][j]
  BY <1>3
<1> QED BY <1>3, <1>4, <1>5, <1>6 DEF MarkedFor

LEMMA BroadcastStep ==
    ASSUME GossipInv, NEW n \in Node, NEW m \in Msg, broadcast_message(n, m) PROVE GossipInv'
<1>0. /\ clock \in [Node -> 0..MaxTime] /\ peers \in [Node -> SUBSET Node] /\ clock[n] \in Nat
      /\ born \in [Msg -> Nat \cup {NotSent}] /\ handled \in [Node -> SUBSET Msg]
      /\ DOMAIN seen = Node /\ MaxHops \in Nat
  BY GossipAssumption DEF GossipInv, DedupSound, TypeOK
<1>1. PICK r : r = mark_as_seen(seen[n], m, clock[n])
  OBVIOUS
<1>2. PICK h : h = handled[n] \ Evicted(n)
  OBVIOUS
<1>3. /\ seen' = [seen EXCEPT ![n] = r] /\ handled' = [handled EXCEPT ![n] = h]
      /\ born[m] = NotSent /\ born' = [born EXCEPT ![m] = clock[n]]
      /\ clock' = clock /\ peers' = peers /\ repeated' = repeated
  BY <1>1, <1>2 DEF broadcast_message
<1>4. /\ r \in Seq(Entry(clock[n])) /\ Len(r) <= MaxSeen
      /\ \A i \in 1..Len(r) : (r[i].id = m /\ r[i].time = clock[n]) \/ \E j \in 1..Len(seen[n]) : r[i] = seen[n][j]
      /\ \A x \in h : \/ \E i \in 1..Len(r) : r[i].id = x
                      \/ x \in handled[n] /\ clock[n] - born[x] > MaxAge
  <2>1. MarkedFor(r, h, n, m)
    BY <1>1, <1>2, MarkStep
  <2> QED BY <2>1 DEF MarkedFor
<1>5. /\ born'[m] = clock[n] /\ \A x \in Msg : x # m => born'[x] = born[x]
      /\ born' \in [Msg -> Nat \cup {NotSent}] /\ m \notin h
  <2>1. m \notin handled[n]
    BY <1>3, GossipAssumption DEF GossipInv, CacheGood
  <2> QED BY <1>0, <1>2, <1>3, <2>1
<1>6. /\ seen'[n] = r /\ handled'[n] = h /\ DOMAIN seen' = Node
      /\ \A x \in Node : x # n => seen'[x] = seen[x] /\ handled'[x] = handled[x]
      /\ handled' \in [Node -> SUBSET Msg]
  BY <1>0, <1>2, <1>3
<1>7. ASSUME NEW pkt \in wire'
      PROVE  /\ pkt.from \in Node /\ pkt.to \in Node /\ pkt.id \in Msg
             /\ pkt.hop_count \in 0..MaxHops /\ born'[pkt.id] # NotSent
  <2>1. PICK S \in get_random_peers(n) : wire' = wire \cup {Packet(n, p, m, 0) : p \in S}
    BY DEF broadcast_message
  <2>2. S \subseteq Node
    BY <1>0, RandomPeers
  <2>3. CASE pkt \in wire
    BY <1>3, <1>5, <2>3 DEF GossipInv, DedupSound, TypeOK
  <2>4. CASE \E p \in S : pkt = Packet(n, p, m, 0)
    BY <1>0, <1>5, <2>2, <2>4, GossipAssumption DEF Packet
  <2> QED BY <2>1, <2>3, <2>4
<1>8. \A x \in Node : seen'[x] \in Seq(Entry(clock'[x])) /\ Len(seen'[x]) <= MaxSeen
  BY <1>3, <1>4, <1>6 DEF GossipInv, DedupSound, TypeOK, Entry
<1>9. DedupSound'
  BY <1>0, <1>3, <1>5, <1>6, <1>7, <1>8
     DEF GossipInv, DedupSound, TypeOK, HandledOnceUnlessEvicted, Entry
<1>10. ASSUME NEW x \in Node PROVE CacheGood(x)'
  <2>1. ASSUME NEW i \in 1..Len(seen'[x])
        PROVE  born'[seen'[x][i].id] \in Nat /\ born'[seen'[x][i].id] <= seen'[x][i].time
    <3>1. ASSUME NEW y \in Node, NEW j \in 1..Len(seen[y])
          PROVE  born'[seen[y][j].id] \in Nat /\ born'[seen[y][j].id] <= seen[y][j].time
      <4>1. born[seen[y][j].id] \in Nat /\ born[seen[y][j].id] <= seen[y][j].time
        BY DEF GossipInv, CacheGood
      <4>2. seen[y][j].id \in Msg
        BY CacheTypes
      <4> QED BY <1>3, <1>5, <4>1, <4>2, GossipAssumption
    <3>2. CASE x = n
      <4>1. CASE r[i].id = m /\ r[i].time = clock[n]
        BY <1>0, <1>5, <1>6, <3>2, <4>1
      <4>2. CASE \E j \in 1..Len(seen[n]) : r[i] = seen[n][j]
        BY <1>6, <3>1, <3>2, <4>2
      <4> QED BY <1>4, <1>6, <2>1, <3>2, <4>1, <4>2
    <3> QED BY <1>6, <2>1, <3>1, <3>2
  <2>2. ASSUME NEW y \in handled'[x]
        PROVE  /\ born'[y] \in Nat
               /\ (\E i \in 1..Len(seen'[x]) : seen'[x][i].id = y) \/ clock'[x] - born'[y] > MaxAge
    <3>1. y \in handled[x] /\ y \in Msg
      BY <1>0, <1>2, <1>6
    <3>2. /\ born[y] \in Nat
          /\ (\E i \in 1..Len(seen[x]) : seen[x][i].id = y) \/ clock[x] - born[y] > MaxAge
      BY <3>1 DEF GossipInv, CacheGood
    <3>3. born'[y] = born[y]
      BY <1>3, <1>5, <3>1, <3>2, GossipAssumption
    <3> QED BY <1>3, <1>4, <1>6, <3>2, <3>3
  <2> QED BY <2>1, <2>2 DEF CacheGood
<1> QED BY <1>9, <1>10 DEF GossipInv

LEMMA AcceptStep ==
    ASSUME GossipInv, NEW pkt \in wire, Accept(pkt) PROVE GossipInv'
<1> DEFINE n == pkt.to
           m == pkt.id
<1>0. /\ clock \in [Node -> 0..MaxTime] /\ peers \in [Node -> SUBSET Node] /\ clock[n] \in Nat
      /\ born \in [Msg -> Nat \cup {NotSent}] /\ handled \in [Node -> SUBSET Msg]
      /\ DOMAIN seen = Node /\ MaxHops \in Nat /\ repeated \in [Node -> SUBSET Msg]
      /\ n \in Node /\ m \in Msg /\ pkt.hop_count \in 0..MaxHops /\ born[m] \in Nat
  BY GossipAssumption DEF GossipInv, DedupSound, TypeOK
<1>1. PICK r : r = mark_as_seen(seen[n], m, clock[n])
  OBVIOUS
<1>2. PICK h : h = (handled[n] \ Evicted(n)) \cup {m}
  OBVIOUS
<1>3. /\ seen' = [seen EXCEPT ![n] = r] /\ handled' = [handled EXCEPT ![n] = h]
      /\ clock' = clock /\ peers' = peers /\ born' = born
      /\ repeated' = [repeated EXCEPT ![n] = @ \cup (handled[n] \cap {m})]
  BY <1>1, <1>2 DEF Accept
<1>4. /\ born[m] <= clock[n] /\ clock[n] - born[m] <= MaxAge /\ pkt.hop_count < MaxHops
      /\ ~ \E i \in 1..Len(seen[n]) : seen[n][i].id = m
  <2>1. DOMAIN seen[n] = 1..Len(seen[n])
    <3>1. seen[n] \in Seq(Entry(clock[n]))
      BY <1>0, CacheTypes
    <3> QED BY <3>1
  <2>2. ~has_seen_message(n, m) /\ ~is_too_old(n, m) /\ ~has_exceeded_hops(pkt)
    BY DEF Accept, should_propagate
  <2>3. ~ \E i \in 1..Len(seen[n]) : seen[n][i].id = m
    BY <2>1, <2>2 DEF has_seen_message
  <2> HIDE DEF n, m
  <2> QED BY <1>0, <2>2, <2>3, GossipAssumption DEF is_too_old, has_exceeded_hops
<1>5. m \notin handled[n]
  <2>1. CacheGood(n) /\ MaxAge \in Nat
    BY <1>0, GossipAssumption DEF GossipInv
  <2> HIDE DEF n, m
  <2> QED BY <1>0, <1>4, <2>1 DEF CacheGood
<1>6. repeated' = repeated
  <2>1. handled[n] \cap {m} = {}
    BY <1>5
  <2> QED BY <1>0, <1>3, <2>1
<1>7. /\ r \in Seq(Entry(clock[n])) /\ Len(r) <= MaxSeen
      /\ \A i \in 1..Len(r) : (r[i].id = m /\ r[i].time = clock[n]) \/ \E j \in 1..Len(seen[n]) : r[i] = seen[n][j]
      /\ \A x \in h : \/ \E i \in 1..Len(r) : r[i].id = x
                      \/ x \in handled[n] /\ clock[n] - born[x] > MaxAge
  <2>1. n \in Node /\ m \in Msg
    BY <1>0
  <2> HIDE DEF n, m
  <2>2. MarkedFor(r, h, n, m)
    BY <1>1, <1>2, <2>1, MarkStep
  <2> QED BY <2>2 DEF MarkedFor
<1>8. /\ seen'[n] = r /\ handled'[n] = h /\ DOMAIN seen' = Node
      /\ \A x \in Node : x # n => seen'[x] = seen[x] /\ handled'[x] = handled[x]
      /\ handled' \in [Node -> SUBSET Msg]
  BY <1>0, <1>2, <1>3
<1>9. ASSUME NEW k \in wire'
      PROVE  /\ k.from \in Node /\ k.to \in Node /\ k.id \in Msg
             /\ k.hop_count \in 0..MaxHops /\ born[k.id] # NotSent
  <2>1. PICK S \in get_random_peers(n) : wire' = (wire \ {pkt}) \cup {Packet(n, p, m, pkt.hop_count + 1) : p \in S}
    BY DEF Accept
  <2>2. S \subseteq Node
    BY <1>0, RandomPeers
  <2>3. CASE k \in wire
    BY <2>3 DEF GossipInv, DedupSound, TypeOK
  <2>4. CASE \E p \in S : k = Packet(n, p, m, pkt.hop_count + 1)
    <3>1. pkt.hop_count + 1 \in 0..MaxHops
      BY <1>0, <1>4
    <3> QED BY <1>0, <2>2, <2>4, <3>1, GossipAssumption DEF Packet
  <2> QED BY <2>1, <2>3, <2>4
<1> HIDE DEF n, m
<1>10. \A x \in Node : seen'[x] \in Seq(Entry(clock'[x])) /\ Len(seen'[x]) <= MaxSeen
  BY <1>3, <1>7, <1>8 DEF GossipInv, DedupSound, TypeOK, Entry
<1>11. DedupSound'
  BY <1>0, <1>3, <1>6, <1>8, <1>9, <1>10
     DEF GossipInv, DedupSound, TypeOK, HandledOnceUnlessEvicted, Entry
<1>12. ASSUME NEW x \in Node PROVE CacheGood(x)'
  <2>1. CASE x # n
    BY <1>3, <1>8, <2>1 DEF GossipInv, CacheGood
  <2>2. CASE x = n
    <3>1. ASSUME NEW i \in 1..Len(r) PROVE born[r[i].id] \in Nat /\ born[r[i].id] <= r[i].time
      BY <1>0, <1>4, <1>7 DEF GossipInv, CacheGood
    <3>2. ASSUME NEW y \in h
          PROVE  /\ born[y] \in Nat
                 /\ (\E i \in 1..Len(r) : r[i].id = y) \/ clock[n] - born[y] > MaxAge
      BY <1>0, <1>2, <1>7 DEF GossipInv, CacheGood
    <3> QED BY <1>3, <1>8, <2>2, <3>1, <3>2 DEF CacheGood
  <2> QED BY <2>1, <2>2
<1> QED BY <1>11, <1>12 DEF GossipInv

LEMMA CleanupStep ==
    ASSUME GossipInv, NEW n \in Node, cleanup_old_seen_messages(n) PROVE GossipInv'
<1>0. /\ clock \in [Node -> 0..MaxTime] /\ clock[n] \in Nat /\ born \in [Msg -> Nat \cup {NotSent}]
      /\ DOMAIN seen = Node /\ seen[n] \in Seq(Entry(clock[n])) /\ Len(seen[n]) <= MaxSeen
      /\ MaxAge \in Nat /\ SeenTTL \in Nat /\ MaxAge <= SeenTTL /\ MaxSeen \in Nat
  BY GossipAssumption DEF GossipInv, DedupSound, TypeOK, Entry
<1>1. PICK r : r = Kept(seen[n], clock[n], SeenTTL)
  OBVIOUS
<1>2. PICK In : In = {i \in 1..Len(seen[n]) : ~(clock[n] - seen[n][i].time > SeenTTL)}
  OBVIOUS
<1>3. /\ seen' = [seen EXCEPT ![n] = r]
      /\ UNCHANGED <<clock, peers, born, wire, handled, repeated>>
  BY <1>1 DEF cleanup_old_seen_messages
<1>4. r \in Seq(Entry(clock[n])) /\ Len(r) <= Len(seen[n]) /\ Selected(r, seen[n], In)
  BY <1>0, <1>1, <1>2, KeptSelects
<1>5. PICK place : IsSelection(place, r, seen[n], In)
  BY <1>4 DEF Selected
<1>6. \A a \in 1..Len(r) : place[a] \in 1..Len(seen[n]) /\ r[a] = seen[n][place[a]]
  BY <1>2, <1>5 DEF IsSelection
<1>7. seen'[n] = r /\ DOMAIN seen' = Node /\ \A x \in Node : x # n => seen'[x] = seen[x]
  BY <1>0, <1>3
<1>8. Len(r) <= MaxSeen
  BY <1>0, <1>4
<1>9. \A x \in Node : seen'[x] \in Seq(Entry(clock'[x])) /\ Len(seen'[x]) <= MaxSeen
  BY <1>3, <1>4, <1>7, <1>8 DEF GossipInv, DedupSound, TypeOK, Entry
<1>10. DedupSound'
  BY <1>3, <1>7, <1>9 DEF GossipInv, DedupSound, TypeOK, HandledOnceUnlessEvicted, Entry
<1>11. ASSUME NEW x \in Node PROVE CacheGood(x)'
  <2>1. CASE x # n
    BY <1>3, <1>7, <2>1 DEF GossipInv, CacheGood
  <2>2. CASE x = n
    <3>1. ASSUME NEW i \in 1..Len(r) PROVE born[r[i].id] \in Nat /\ born[r[i].id] <= r[i].time
      BY <1>6 DEF GossipInv, CacheGood
    <3>2. ASSUME NEW y \in handled[n], ~(clock[n] - born[y] > MaxAge)
          PROVE  \E i \in 1..Len(r) : r[i].id = y
      <4>1. PICK j \in 1..Len(seen[n]) : seen[n][j].id = y
        BY <3>2 DEF GossipInv, CacheGood
      <4>2. born[y] \in Nat /\ born[y] <= seen[n][j].time /\ seen[n][j].time \in Nat
        BY <4>1, CacheTypes DEF GossipInv, CacheGood
      <4>3. j \in In
        BY <1>0, <1>2, <3>2, <4>2
      <4>4. PICK a \in 1..Len(r) : place[a] = j
        BY <1>5, <4>3 DEF IsSelection
      <4> QED BY <1>6, <4>1, <4>4
    <3>3. \A y \in handled[n] : born[y] \in Nat
      BY DEF GossipInv, CacheGood
    <3> QED BY <1>3, <1>7, <2>2, <3>1, <3>2, <3>3 DEF CacheGood
  <2> QED BY <2>1, <2>2
<1> QED BY <1>10, <1>11 DEF GossipInv

LEMMA GossipTick ==
    ASSUME GossipInv, NEW n \in Node, Tick(n) PROVE GossipInv'
<1>0. /\ clock \in [Node -> 0..MaxTime] /\ MaxTime \in Nat /\ clock[n] \in 0..MaxTime /\ clock[n] < MaxTime
      /\ clock' = [clock EXCEPT ![n] = clock[n] + 1]
      /\ UNCHANGED <<peers, seen, born, wire, handled, repeated>> /\ MaxAge \in Nat
  BY GossipAssumption DEF GossipInv, DedupSound, TypeOK, Tick
<1>1. /\ clock' \in [Node -> 0..MaxTime] /\ clock'[n] = clock[n] + 1
      /\ \A x \in Node : clock[x] \in Nat /\ clock'[x] \in Nat /\ clock[x] <= clock'[x]
  BY <1>0
<1>2. ASSUME NEW x \in Node PROVE seen[x] \in Seq(Entry(clock'[x]))
  <2>1. seen[x] \in Seq(Entry(clock[x]))
    BY DEF GossipInv, DedupSound, TypeOK, Entry
  <2> QED BY <1>1, <2>1, EntryGrows
<1>3. DedupSound'
  BY <1>0, <1>1, <1>2 DEF GossipInv, DedupSound, TypeOK, HandledOnceUnlessEvicted, Entry
<1>4. ASSUME NEW x \in Node PROVE CacheGood(x)'
  <2>1. ASSUME NEW y \in handled[x]
        PROVE  /\ born[y] \in Nat
               /\ (\E i \in 1..Len(seen[x]) : seen[x][i].id = y) \/ clock'[x] - born[y] > MaxAge
    BY <1>0, <1>1 DEF GossipInv, CacheGood
  <2> QED BY <1>0, <2>1 DEF GossipInv, CacheGood
<1> QED BY <1>3, <1>4 DEF GossipInv

LEMMA GossipStep == GossipInv /\ [Next]_vars => GossipInv'
<1> SUFFICES ASSUME GossipInv, [Next]_vars PROVE GossipInv' OBVIOUS
<1>1. CASE \E n \in Node, m \in Msg : broadcast_message(n, m)
  BY <1>1, BroadcastStep
<1>2. ASSUME NEW pkt \in wire, Receive(pkt) \/ Lose(pkt) PROVE GossipInv'
  <2>1. CASE Accept(pkt)
    BY <2>1, AcceptStep
  <2>2. CASE Discard(pkt) \/ Lose(pkt)
    <3>1. wire' = wire \ {pkt} /\ UNCHANGED <<clock, peers, seen, born, handled, repeated>>
      BY <2>2 DEF Discard, Lose
    <3>2. wire' \subseteq wire
      BY <3>1
    <3> QED BY <3>1, <3>2 DEF GossipInv, DedupSound, TypeOK, HandledOnceUnlessEvicted, CacheGood
  <2> QED BY <1>2, <2>1, <2>2 DEF Receive
<1>3. CASE \E n \in Node : cleanup_old_seen_messages(n) \/ Tick(n)
  BY <1>3, CleanupStep, GossipTick
<1>4. ASSUME NEW n \in Node, NEW p \in Node \ {n}, remove_peer(n, p) \/ add_peer(n, p) PROVE GossipInv'
  <2>1. UNCHANGED <<clock, seen, born, wire, handled, repeated>>
    BY <1>4 DEF remove_peer, add_peer
  <2>2. peers' \in [Node -> SUBSET Node]
    BY <1>4 DEF remove_peer, add_peer, GossipInv, DedupSound, TypeOK
  <2> QED BY <2>1, <2>2 DEF GossipInv, DedupSound, TypeOK, HandledOnceUnlessEvicted, CacheGood
<1>5. CASE UNCHANGED vars
  BY <1>5 DEF vars, GossipInv, DedupSound, TypeOK, HandledOnceUnlessEvicted, CacheGood
<1> QED BY <1>1, <1>2, <1>3, <1>4, <1>5 DEF Next

\* A node handles a message again only if a full cache pushed it out, and the
\* cache stays within its limit (receive_message, cleanup_old_seen_messages):
\* for any nodes, messages, fanout and limits with an age limit that is not
\* above the life of an entry, however far the clocks are apart.
THEOREM DedupSoundHolds == OverlaySpec => []DedupSound
<1>1. OverlayInit => GossipInv
  <2> SUFFICES ASSUME Init PROVE GossipInv BY DEF OverlayInit
  <2>1. clock \in [Node -> 0..MaxTime]
    BY GossipAssumption DEF Init
  <2>2. \A n \in Node : seen[n] = <<>> /\ Len(seen[n]) = 0 /\ handled[n] = {} /\ repeated[n] = {}
    BY DEF Init
  <2>3. \A n \in Node : seen[n] \in Seq([id : Msg, time : 0..clock[n]]) /\ Len(seen[n]) <= MaxSeen
    <3>1. ASSUME NEW n \in Node PROVE <<>> \in Seq([id : Msg, time : 0..clock[n]])
      OBVIOUS
    <3>2. 0 <= MaxSeen
      BY GossipAssumption
    <3> QED BY <2>2, <3>1, <3>2, Zenon
  <2>4. DedupSound
    BY <2>1, <2>2, <2>3 DEF Init, DedupSound, TypeOK, HandledOnceUnlessEvicted
  <2> QED BY <2>2, <2>4 DEF GossipInv, CacheGood
<1>2. GossipInv /\ [OverlayNext]_all_vars => GossipInv'
  BY GossipStep DEF OverlayNext, all_vars, vars
<1>3. GossipInv => DedupSound
  BY DEF GossipInv
<1> QED BY <1>1, <1>2, <1>3, PTL DEF OverlaySpec

(* Replication.  Pending jobs stand in the order of their priorities, whatever
   stands between them, and every slot has somebody who will free it. *)

Job == [target : Target, priority : Priority, status : J!Status,
        retry_count : 0..MaxRetries, completed : 0..ReplicationMaxTime \cup {None}]

InOrder(s) ==
    \A i, j \in 1..Len(s) :
        i < j /\ s[i].status = "PENDING" /\ s[j].status = "PENDING" => s[i].priority >= s[j].priority

InProgress(s, t) == {i \in 1..Len(s) : s[i].target = t /\ s[i].status = "IN_PROGRESS"}

LEMMA JobCardinality == \A S : J!Cardinality(S) = Cardinality(S)
BY DEF J!Cardinality, Cardinality

LEMMA InProgressFinite ==
    ASSUME NEW S, NEW s \in Seq(S), NEW t
    PROVE  IsFiniteSet(InProgress(s, t)) /\ Cardinality(InProgress(s, t)) \in Nat
<1>1. Len(s) \in Nat
  OBVIOUS
<1>2. IsFiniteSet(1..Len(s))
  BY <1>1, FS_Interval
<1>3. InProgress(s, t) \in SUBSET (1..Len(s))
  BY DEF InProgress
<1> QED BY <1>2, <1>3, FS_Subset, FS_CardinalityType

\* Where each job of q is a job of s, and no two are the same one, q has no
\* more in progress than s.
LEMMA NoMoreInProgress ==
    ASSUME NEW S, NEW s \in Seq(S), NEW q \in Seq(S), NEW t, NEW place \in [1..Len(q) -> 1..Len(s)],
           \A a, b \in 1..Len(q) : place[a] = place[b] => a = b,
           \A a \in 1..Len(q) : /\ q[a].target = s[place[a]].target
                                /\ q[a].status = "IN_PROGRESS" => s[place[a]].status = "IN_PROGRESS"
    PROVE  Cardinality(InProgress(q, t)) <= Cardinality(InProgress(s, t))
<1>1. PICK f : f = [a \in InProgress(q, t) |-> place[a]]
  OBVIOUS
<1>2. f \in [InProgress(q, t) -> InProgress(s, t)]
  BY <1>1 DEF InProgress
<1>3. \A a, b \in InProgress(q, t) : f[a] = f[b] => a = b
  BY <1>1 DEF InProgress
<1>4. f \in Injection(InProgress(q, t), InProgress(s, t))
  BY <1>2, <1>3 DEF Injection, IsInjective
<1>5. IsFiniteSet(InProgress(s, t))
  BY InProgressFinite
<1> QED BY <1>4, <1>5, FS_Injection

(* prioritize_jobs *)

Precedes(s, i, j) == J!Before(s[i], s[j]) \/ (~J!Before(s[j], s[i]) /\ i < j)

Earlier(s, i) == {j \in 1..Len(s) : Precedes(s, j, i)}

LEMMA PrecedesOrders ==
    ASSUME NEW s \in Seq(Job), NEW i \in 1..Len(s), NEW j \in 1..Len(s), NEW k \in 1..Len(s)
    PROVE  /\ ~Precedes(s, i, i)
           /\ i # j => Precedes(s, i, j) \/ Precedes(s, j, i)
           /\ Precedes(s, i, j) /\ Precedes(s, j, k) => Precedes(s, i, k)
<1>1. s[i] \in Job /\ s[j] \in Job /\ s[k] \in Job /\ Len(s) \in Nat
  OBVIOUS
<1>2. s[i].priority \in Int /\ s[j].priority \in Int /\ s[k].priority \in Int
  BY <1>1, ReplicationAssumption DEF Job
<1>3. PICK a, b, c : a = s[i].priority /\ b = s[j].priority /\ c = s[k].priority
  OBVIOUS
<1>4. PICK x \in BOOLEAN, y \in BOOLEAN, z \in BOOLEAN :
         /\ x <=> s[i].status = "PENDING"
         /\ y <=> s[j].status = "PENDING"
         /\ z <=> s[k].status = "PENDING"
  OBVIOUS
<1> QED BY <1>2, <1>3, <1>4 DEF Precedes, J!Before

LEMMA EarlierGrows ==
    ASSUME NEW s \in Seq(Job), NEW i \in 1..Len(s)
    PROVE  /\ IsFiniteSet(Earlier(s, i))
           /\ Cardinality(Earlier(s, i)) \in 0..(Len(s) - 1)
           /\ \A j \in 1..Len(s) : Precedes(s, j, i) => Cardinality(Earlier(s, j)) < Cardinality(Earlier(s, i))
<1>0. Len(s) \in Nat
  OBVIOUS
<1>1. IsFiniteSet(1..Len(s)) /\ Cardinality(1..Len(s)) = Len(s)
  BY <1>0, FS_Interval
<1>2. IsFiniteSet((1..Len(s)) \ {i}) /\ Cardinality((1..Len(s)) \ {i}) = Len(s) - 1
  BY <1>1, FS_RemoveElement
<1>3. Earlier(s, i) \in SUBSET ((1..Len(s)) \ {i})
  BY PrecedesOrders DEF Earlier
<1>4. IsFiniteSet(Earlier(s, i)) /\ Cardinality(Earlier(s, i)) <= Len(s) - 1
  BY <1>2, <1>3, FS_Subset
<1>5. Cardinality(Earlier(s, i)) \in Nat
  BY <1>4, FS_CardinalityType
<1>6. ASSUME NEW j \in 1..Len(s), Precedes(s, j, i)
      PROVE  Cardinality(Earlier(s, j)) < Cardinality(Earlier(s, i))
  <2>1. Earlier(s, j) \in SUBSET Earlier(s, i)
    BY <1>6, PrecedesOrders DEF Earlier
  <2>2. j \in Earlier(s, i) /\ j \notin Earlier(s, j)
    BY <1>6, PrecedesOrders DEF Earlier
  <2>3. /\ IsFiniteSet(Earlier(s, j))
        /\ Cardinality(Earlier(s, j)) <= Cardinality(Earlier(s, i))
        /\ Cardinality(Earlier(s, i)) # Cardinality(Earlier(s, j))
    BY <1>4, <2>1, <2>2, FS_Subset
  <2>4. Cardinality(Earlier(s, j)) \in Nat
    BY <2>3, FS_CardinalityType
  <2> QED BY <1>5, <2>3, <2>4
<1> QED BY <1>0, <1>4, <1>5, <1>6

Rank(s, i) == 1 + Cardinality(Earlier(s, i))

LEMMA RankFacts ==
    ASSUME NEW s \in Seq(Job)
    PROVE  /\ \A i \in 1..Len(s) : Rank(s, i) \in 1..Len(s)
           /\ \A i, j \in 1..Len(s) : i # j => Rank(s, i) # Rank(s, j)
           /\ \A i, j \in 1..Len(s) : Rank(s, i) < Rank(s, j) => Precedes(s, i, j)
<1>0. Len(s) \in Nat
  OBVIOUS
<1>1. \A i \in 1..Len(s) : Rank(s, i) \in 1..Len(s)
  BY <1>0, EarlierGrows DEF Rank
<1>2. \A i, j \in 1..Len(s) : Precedes(s, i, j) => Rank(s, i) < Rank(s, j)
  BY <1>0, EarlierGrows DEF Rank
<1>3. \A i, j \in 1..Len(s) : i # j => Precedes(s, i, j) \/ Precedes(s, j, i)
  BY PrecedesOrders
<1> HIDE DEF Rank
<1>4. ASSUME NEW i \in 1..Len(s), NEW j \in 1..Len(s)
      PROVE  (i # j => Rank(s, i) # Rank(s, j)) /\ (Rank(s, i) < Rank(s, j) => Precedes(s, i, j))
  <2>1. Rank(s, i) \in Nat /\ Rank(s, j) \in Nat
    BY <1>0, <1>1
  <2> QED BY <1>2, <1>3, <2>1
<1> QED BY <1>1, <1>4

LEMMA RankOnto ==
    ASSUME NEW s \in Seq(Job), NEW k \in 1..Len(s)
    PROVE  \E i \in 1..Len(s) : Rank(s, i) = k
<1>0. Len(s) \in Nat
  OBVIOUS
<1>1. SUFFICES ASSUME \A i \in 1..Len(s) : Rank(s, i) # k PROVE FALSE
  OBVIOUS
<1>2. IsFiniteSet(1..Len(s)) /\ Cardinality(1..Len(s)) = Len(s)
  BY <1>0, FS_Interval
<1>3. IsFiniteSet((1..Len(s)) \ {k}) /\ Cardinality((1..Len(s)) \ {k}) = Len(s) - 1
  BY <1>2, FS_RemoveElement
<1>4. PICK f : f = [i \in 1..Len(s) |-> Rank(s, i)]
  OBVIOUS
<1>5. f \in [1..Len(s) -> (1..Len(s)) \ {k}]
  BY <1>1, <1>4, RankFacts
<1>6. Cardinality((1..Len(s)) \ {k}) < Cardinality(1..Len(s))
  BY <1>0, <1>2, <1>3
<1>7. PICK x, y \in 1..Len(s) : x # y /\ f[x] = f[y]
  BY <1>2, <1>3, <1>5, <1>6, FS_PigeonHole
<1> QED BY <1>4, <1>7, RankFacts

\* q has the jobs of s in the order of prioritize_jobs.
IsSorting(place, q, s) ==
    /\ place \in [1..Len(s) -> 1..Len(s)]
    /\ \A a, b \in 1..Len(s) : place[a] = place[b] => a = b
    /\ \A a \in 1..Len(s) : q[a] = s[place[a]]
    /\ \A a, b \in 1..Len(s) : a < b => Precedes(s, place[a], place[b])

LEMMA PrioritizeSorts ==
    ASSUME NEW s \in Seq(Job)
    PROVE  /\ J!prioritize_jobs(s) \in Seq(Job)
           /\ Len(J!prioritize_jobs(s)) = Len(s)
           /\ \E place : IsSorting(place, J!prioritize_jobs(s), s)
<1>0. Len(s) \in Nat /\ DOMAIN s = 1..Len(s) /\ \A i \in 1..Len(s) : s[i] \in Job
  OBVIOUS
<1> DEFINE Place(i) == 1 + J!Cardinality({j \in DOMAIN s : J!Before(s[j], s[i]) \/ (~J!Before(s[i], s[j]) /\ j < i)})
<1>1. PICK place : place = [k \in DOMAIN s |-> CHOOSE i \in DOMAIN s : Place(i) = k]
  OBVIOUS
<1>2. \A k \in 1..Len(s) : place[k] \in 1..Len(s) /\ Rank(s, place[k]) = k
  <2>1. \A i \in 1..Len(s) : {j \in DOMAIN s : J!Before(s[j], s[i]) \/ (~J!Before(s[i], s[j]) /\ j < i)} = Earlier(s, i)
    BY <1>0 DEF Earlier, Precedes
  <2>2. \A i \in 1..Len(s) : Place(i) = Rank(s, i)
    BY <2>1, JobCardinality DEF Rank
  <2> HIDE DEF Place, Rank
  <2>3. \A k \in 1..Len(s) : \E i \in 1..Len(s) : Place(i) = k
    BY <2>2, RankOnto
  <2>4. \A k \in 1..Len(s) : place[k] \in 1..Len(s) /\ Place(place[k]) = k
    BY <1>0, <1>1, <2>3
  <2> QED BY <2>2, <2>4
<1>3. PICK q : q = [k \in 1..Len(s) |-> s[place[k]]]
  OBVIOUS
<1>4. J!prioritize_jobs(s) = q
  <2>1. J!prioritize_jobs(s) = [k \in DOMAIN s |-> s[CHOOSE i \in DOMAIN s : Place(i) = k]]
    BY DEF J!prioritize_jobs
  <2> HIDE DEF Place
  <2> QED BY <1>0, <1>1, <1>3, <2>1
<1>5. q \in Seq(Job) /\ Len(q) = Len(s) /\ \A a \in 1..Len(s) : q[a] = s[place[a]]
  BY <1>0, <1>2, <1>3
<1>6. \A a, b \in 1..Len(s) : place[a] = place[b] => a = b
  BY <1>2
<1>7. \A a, b \in 1..Len(s) : a < b => Precedes(s, place[a], place[b])
  BY <1>2, RankFacts
<1>8. place \in [1..Len(s) -> 1..Len(s)]
  BY <1>0, <1>1, <1>2
<1>9. IsSorting(place, q, s)
  BY <1>5, <1>6, <1>7, <1>8 DEF IsSorting
<1> QED BY <1>4, <1>5, <1>9

LEMMA PrioritizeFacts ==
    ASSUME NEW s \in Seq(Job)
    PROVE  /\ J!prioritize_jobs(s) \in Seq(Job)
           /\ InOrder(J!prioritize_jobs(s))
           /\ \A t : Cardinality(InProgress(J!prioritize_jobs(s), t)) <= Cardinality(InProgress(s, t))
<1>1. PICK q : q = J!prioritize_jobs(s)
  OBVIOUS
<1>2. q \in Seq(Job) /\ Len(q) = Len(s) /\ \E place : IsSorting(place, q, s)
  BY <1>1, PrioritizeSorts
<1>3. PICK place : IsSorting(place, q, s)
  BY <1>2
<1>4. ASSUME NEW t PROVE Cardinality(InProgress(q, t)) <= Cardinality(InProgress(s, t))
  <2>1. /\ place \in [1..Len(q) -> 1..Len(s)]
        /\ \A a, b \in 1..Len(q) : place[a] = place[b] => a = b
        /\ \A a \in 1..Len(q) : q[a] = s[place[a]]
    BY <1>2, <1>3 DEF IsSorting
  <2>2. \A a \in 1..Len(q) : /\ q[a].target = s[place[a]].target
                             /\ q[a].status = "IN_PROGRESS" => s[place[a]].status = "IN_PROGRESS"
    BY <2>1
  <2> QED BY <1>2, <2>1, <2>2, NoMoreInProgress
<1>5. ASSUME NEW i \in 1..Len(q), NEW j \in 1..Len(q), i < j, q[i].status = "PENDING", q[j].status = "PENDING"
      PROVE  q[i].priority >= q[j].priority
  <2>1. Precedes(s, place[i], place[j]) /\ q[i] = s[place[i]] /\ q[j] = s[place[j]]
    BY <1>2, <1>3, <1>5 DEF IsSorting
  <2>2. J!Before(q[i], q[j]) \/ ~J!Before(q[j], q[i])
    BY <2>1 DEF Precedes
  <2>3. q[i] \in Job /\ q[j] \in Job
    BY <1>2
  <2>4. q[i].priority \in Int /\ q[j].priority \in Int
    BY <2>3, ReplicationAssumption DEF Job
  <2> QED BY <1>5, <2>2, <2>4 DEF J!Before
<1>6. InOrder(q)
  BY <1>5 DEF InOrder
<1> QED BY <1>1, <1>2, <1>4, <1>6

LEMMA NotOldSelects ==
    ASSUME NEW S, NEW s \in Seq(S)
    PROVE  /\ J!NotOld(s) \in Seq(S)
           /\ Selected(J!NotOld(s), s, {i \in 1..Len(s) : ~J!IsOld(s[i])})
<1> DEFINE In == {i \in 1..Len(s) : ~J!IsOld(s[i])}
           Is(f) == f = [i \in 0..Len(s) |->
                           IF i = 0 THEN <<>> ELSE IF J!IsOld(s[i]) THEN f[i - 1] ELSE Append(f[i - 1], s[i])]
           g == CHOOSE f : Is(f)
<1>0. Len(s) \in Nat
  OBVIOUS
<1>1. J!NotOld(s) = g[Len(s)]
  BY DEF J!NotOld
<1>2. ASSUME NEW f PROVE Is(f) <=> Filters(f, s, In, Len(s))
  <2>1. \A i \in 0..Len(s) : i # 0 => (i \in In <=> ~J!IsOld(s[i]))
    BY <1>0
  <2>2. \A i \in 0..Len(s) :
           (IF i = 0 THEN <<>> ELSE IF J!IsOld(s[i]) THEN f[i - 1] ELSE Append(f[i - 1], s[i]))
           = (IF i = 0 THEN <<>> ELSE IF i \in In THEN Append(f[i - 1], s[i]) ELSE f[i - 1])
    BY <2>1
  <2> HIDE DEF In
  <2> QED BY <2>2 DEF Filters
<1>3. PICK f : Filters(f, s, In, Len(s))
  BY FilterExists
<1>4. Is(g)
  <2>1. Is(f)
    BY <1>2, <1>3
  <2> HIDE DEF Is
  <2> QED BY <2>1
<1>5. Filters(g, s, In, Len(s))
  BY <1>2, <1>4
<1>6. In \cap 1..Len(s) = In
  OBVIOUS
<1> HIDE DEF g, In
<1> QED BY <1>1, <1>5, <1>6, FilterSelects DEF In

LEMMA FirstIsLeast ==
    ASSUME NEW S \in SUBSET Nat, S # {}
    PROVE  J!First(S) \in S /\ \A j \in S : J!First(S) <= j
<1>1. \E i \in S : \A j \in S : i <= j
  BY LeastNumber
<1> QED BY <1>1 DEF J!First

WorkerState == {J!Idle} \cup [phase : {"fetched", "running"}, target : Target]

RunningIn(f, t) == {w \in Worker : f[w] = [phase |-> "running", target |-> t]}

LEMMA RunningFinite ==
    ASSUME NEW f, NEW t
    PROVE  IsFiniteSet(RunningIn(f, t)) /\ Cardinality(RunningIn(f, t)) \in Nat
<1>1. RunningIn(f, t) \in SUBSET Worker /\ IsFiniteSet(Worker)
  BY ReplicationAssumption DEF RunningIn
<1> QED BY <1>1, FS_Subset, FS_CardinalityType

QueueInv ==
    /\ jobs \in Seq(Job) /\ worker \in [Worker -> WorkerState]
    /\ job_clock \in 0..ReplicationMaxTime /\ requested \in 0..MaxRequests
    /\ lost \in [Target -> 0..MaxLost]
    /\ InOrder(jobs)
    /\ \A t \in Target : Cardinality(InProgress(jobs, t)) <= Cardinality(RunningIn(worker, t)) + lost[t]

LEMMA MatchingInProgress ==
    ASSUME jobs \in Seq(Job), NEW t
    PROVE  J!Matching(t, {"IN_PROGRESS"}) = InProgress(jobs, t)
<1>1. DOMAIN jobs = 1..Len(jobs)
  OBVIOUS
<1> QED BY <1>1 DEF J!Matching, InProgress

LEMMA QueueInvGives == QueueInv => J!QueueSound
<1> SUFFICES ASSUME QueueInv PROVE J!QueueSound OBVIOUS
<1>1. jobs \in Seq(Job) /\ DOMAIN jobs = 1..Len(jobs) /\ Len(jobs) \in Nat
  BY DEF QueueInv
<1>2. J!TypeOK
  <2>1. WorkerState \subseteq [phase : {"idle", "fetched", "running"}, target : Target \cup {None}]
    BY DEF WorkerState, J!Idle
  <2>2. worker \in [Worker -> [phase : {"idle", "fetched", "running"}, target : Target \cup {None}]]
    BY <2>1 DEF QueueInv
  <2> QED BY <1>1, <2>2 DEF J!TypeOK, QueueInv, Job
<1>3. ASSUME NEW i \in J!With(jobs, "PENDING")
      PROVE  jobs[J!First(J!With(jobs, "PENDING"))].priority >= jobs[i].priority
  <2>1. PICK S : S = J!With(jobs, "PENDING")
    OBVIOUS
  <2>2. S \in SUBSET Nat /\ S # {} /\ \A j \in S : j \in 1..Len(jobs) /\ jobs[j].status = "PENDING"
    BY <1>1, <1>3, <2>1 DEF J!With
  <2>3. J!First(S) \in S /\ J!First(S) <= i
    BY <1>3, <2>1, <2>2, FirstIsLeast
  <2>4. CASE J!First(S) = i
    <3>1. jobs[i] \in Job
      BY <1>1, <1>3, <2>1, <2>2
    <3>2. jobs[i].priority \in Int
      BY <3>1, ReplicationAssumption DEF Job
    <3> QED BY <2>1, <2>4, <3>2
  <2>5. CASE J!First(S) # i
    <3>1. J!First(S) < i
      BY <1>3, <2>1, <2>2, <2>3, <2>5
    <3> QED BY <1>3, <2>1, <2>2, <2>3, <3>1 DEF QueueInv, InOrder
  <2> QED BY <2>4, <2>5
<1>4. ASSUME NEW t \in Target
      PROVE  J!Cardinality(J!Matching(t, {"IN_PROGRESS"})) <= J!Cardinality(J!Running(t)) + lost[t]
  <2>1. J!Running(t) = RunningIn(worker, t)
    BY DEF J!Running, RunningIn
  <2> QED BY <1>1, <2>1, MatchingInProgress, JobCardinality DEF QueueInv
<1> QED BY <1>2, <1>3, <1>4 DEF J!QueueSound, J!NextIsMostUrgent, J!SlotsAccounted

\* What holds of a list that takes the place of jobs.
LEMMA ListStep ==
    ASSUME QueueInv, NEW q, jobs' = q, q \in Seq(Job), InOrder(q),
           \A t \in Target : Cardinality(InProgress(q, t)) <= Cardinality(InProgress(jobs, t)),
           worker' = worker, lost' = lost,
           job_clock' \in 0..ReplicationMaxTime, requested' \in 0..MaxRequests
    PROVE  QueueInv'
<1>1. ASSUME NEW t \in Target
      PROVE  Cardinality(InProgress(q, t)) <= Cardinality(RunningIn(worker, t)) + lost[t]
  <2>1. Cardinality(InProgress(q, t)) \in Nat /\ Cardinality(InProgress(jobs, t)) \in Nat
    BY InProgressFinite DEF QueueInv
  <2>2. Cardinality(RunningIn(worker, t)) \in Nat /\ lost[t] \in 0..MaxLost
    BY RunningFinite DEF QueueInv
  <2> QED BY <2>1, <2>2 DEF QueueInv
<1> QED BY <1>1 DEF QueueInv

LEMMA RequestStep ==
    ASSUME QueueInv, NEW t \in Target, NEW p \in Priority, J!request_replication(t, p) PROVE QueueInv'
<1>0. /\ requested' \in 0..MaxRequests /\ job_clock' \in 0..ReplicationMaxTime
      /\ worker' = worker /\ lost' = lost
  BY ReplicationAssumption DEF J!request_replication, QueueInv
<1>1. CASE jobs' = jobs
  <2>1. \A u \in Target : Cardinality(InProgress(jobs, u)) \in Nat
    BY InProgressFinite DEF QueueInv
  <2> QED BY <1>0, <1>1, <2>1, ListStep DEF QueueInv
<1>2. CASE jobs' # jobs
  <2>1. PICK e : e = [target |-> t, priority |-> p, status |-> "PENDING", retry_count |-> 0, completed |-> None]
    OBVIOUS
  <2>2. e \in Job /\ e.status = "PENDING"
    BY <2>1, ReplicationAssumption DEF Job, J!Status, J!Active
  <2>3. PICK s : s = Append(jobs, e)
    OBVIOUS
  <2>4. jobs' = J!prioritize_jobs(s)
    BY <1>2, <2>1, <2>3 DEF J!request_replication
  <2>5. /\ s \in Seq(Job) /\ Len(s) = Len(jobs) + 1 /\ Len(jobs) \in Nat /\ s[Len(jobs) + 1] = e
        /\ \A i \in 1..Len(jobs) : s[i] = jobs[i]
    BY <2>2, <2>3 DEF QueueInv
  <2>6. ASSUME NEW u PROVE InProgress(s, u) = InProgress(jobs, u)
    <3>1. \A i \in 1..Len(s) : i \in 1..Len(jobs) \/ s[i] = e
      BY <2>5
    <3> QED BY <2>2, <2>5, <3>1 DEF InProgress
  <2>7. PICK q : q = J!prioritize_jobs(s)
    OBVIOUS
  <2>8. /\ q \in Seq(Job) /\ InOrder(q)
        /\ \A u : Cardinality(InProgress(q, u)) <= Cardinality(InProgress(s, u))
    BY <2>5, <2>7, PrioritizeFacts
  <2>9. \A u \in Target : Cardinality(InProgress(q, u)) <= Cardinality(InProgress(jobs, u))
    BY <2>6, <2>8
  <2> QED BY <1>0, <2>4, <2>7, <2>8, <2>9, ListStep
<1> QED BY <1>1, <1>2

LEMMA CancelStep ==
    ASSUME QueueInv, NEW t \in Target, J!cancel_replication(t) PROVE QueueInv'
<1>0. /\ requested' \in 0..MaxRequests /\ job_clock' \in 0..ReplicationMaxTime
      /\ worker' = worker /\ lost' = lost
      /\ jobs \in Seq(Job) /\ DOMAIN jobs = 1..Len(jobs) /\ Len(jobs) \in Nat
      /\ \A i \in 1..Len(jobs) : jobs[i] \in Job
  BY DEF J!cancel_replication, QueueInv
<1>1. PICK q : q = [i \in 1..Len(jobs) |->
                      IF i \in J!Matching(t, J!Active) THEN [jobs[i] EXCEPT !.status = "CANCELLED"] ELSE jobs[i]]
  OBVIOUS
<1>2. jobs' = q
  BY <1>0, <1>1 DEF J!cancel_replication
<1>3. ASSUME NEW i \in 1..Len(jobs)
      PROVE  /\ q[i] \in Job /\ q[i].target = jobs[i].target /\ q[i].priority = jobs[i].priority
             /\ q[i].status = "CANCELLED" \/ q[i] = jobs[i]
  <2>1. CASE i \in J!Matching(t, J!Active)
    <3>1. q[i] = [jobs[i] EXCEPT !.status = "CANCELLED"]
      BY <1>1, <2>1
    <3> QED BY <1>0, <3>1 DEF Job, J!Status
  <2>2. CASE i \notin J!Matching(t, J!Active)
    BY <1>0, <1>1, <2>2
  <2> QED BY <2>1, <2>2
<1>4. q \in Seq(Job) /\ Len(q) = Len(jobs)
  BY <1>0, <1>1, <1>3
<1>5. InOrder(q)
  BY <1>3, <1>4 DEF InOrder, QueueInv
<1>6. ASSUME NEW u \in Target PROVE Cardinality(InProgress(q, u)) <= Cardinality(InProgress(jobs, u))
  <2>1. InProgress(q, u) \in SUBSET InProgress(jobs, u)
    BY <1>3, <1>4 DEF InProgress
  <2>2. IsFiniteSet(InProgress(jobs, u))
    BY <1>0, InProgressFinite
  <2> QED BY <2>1, <2>2, FS_Subset
<1> QED BY <1>0, <1>2, <1>4, <1>5, <1>6, ListStep

LEMMA RetryStep ==
    ASSUME QueueInv, J!retry_failed_jobs PROVE QueueInv'
<1>0. /\ requested' \in 0..MaxRequests /\ job_clock' \in 0..ReplicationMaxTime
      /\ worker' = worker /\ lost' = lost
      /\ jobs \in Seq(Job) /\ DOMAIN jobs = 1..Len(jobs) /\ Len(jobs) \in Nat
      /\ \A i \in 1..Len(jobs) : jobs[i] \in Job
  <2>1. UNCHANGED <<worker, job_clock, requested, lost>>
    BY DEF J!retry_failed_jobs
  <2> QED BY <2>1 DEF QueueInv
<1>1. PICK s : s = [i \in 1..Len(jobs) |->
                      IF jobs[i].status = "FAILED" /\ jobs[i].retry_count < MaxRetries
                      THEN [jobs[i] EXCEPT !.status = "PENDING", !.retry_count = @ + 1] ELSE jobs[i]]
  OBVIOUS
<1>2. jobs' = J!prioritize_jobs(s)
  BY <1>0, <1>1 DEF J!retry_failed_jobs
<1>3. ASSUME NEW i \in 1..Len(jobs)
      PROVE  s[i] \in Job /\ s[i].target = jobs[i].target /\ (s[i].status = "PENDING" \/ s[i] = jobs[i])
  <2>1. CASE jobs[i].status = "FAILED" /\ jobs[i].retry_count < MaxRetries
    <3>1. s[i] = [jobs[i] EXCEPT !.status = "PENDING", !.retry_count = jobs[i].retry_count + 1]
      BY <1>1, <2>1
    <3>2. jobs[i].retry_count + 1 \in 0..MaxRetries
      BY <1>0, <2>1, ReplicationAssumption DEF Job
    <3> QED BY <1>0, <3>1, <3>2 DEF Job, J!Status, J!Active
  <2>2. CASE ~(jobs[i].status = "FAILED" /\ jobs[i].retry_count < MaxRetries)
    BY <1>0, <1>1, <2>2
  <2> QED BY <2>1, <2>2
<1>4. s \in Seq(Job) /\ Len(s) = Len(jobs)
  <2>1. DOMAIN s = 1..Len(jobs) /\ s \in [1..Len(jobs) -> Job]
    BY <1>1, <1>3
  <2> QED BY <1>0, <2>1
<1>5. PICK q : q = J!prioritize_jobs(s)
  OBVIOUS
<1>6. /\ q \in Seq(Job) /\ InOrder(q)
      /\ \A u : Cardinality(InProgress(q, u)) <= Cardinality(InProgress(s, u))
  BY <1>4, <1>5, PrioritizeFacts
<1>7. ASSUME NEW u \in Target PROVE Cardinality(InProgress(q, u)) <= Cardinality(InProgress(jobs, u))
  <2>1. InProgress(s, u) \in SUBSET InProgress(jobs, u)
    BY <1>3, <1>4 DEF InProgress
  <2>2. IsFiniteSet(InProgress(jobs, u)) /\ Cardinality(InProgress(jobs, u)) \in Nat
    BY <1>0, InProgressFinite
  <2>3. Cardinality(InProgress(s, u)) <= Cardinality(InProgress(jobs, u))
    BY <2>1, <2>2, FS_Subset
  <2>4. Cardinality(InProgress(s, u)) \in Nat /\ Cardinality(InProgress(q, u)) \in Nat
    BY <1>4, <1>6, InProgressFinite
  <2> QED BY <1>6, <2>2, <2>3, <2>4
<1> QED BY <1>0, <1>2, <1>5, <1>6, <1>7, ListStep

LEMMA CleanupJobsStep ==
    ASSUME QueueInv, J!cleanup_old_jobs PROVE QueueInv'
<1>0. /\ requested' \in 0..MaxRequests /\ job_clock' \in 0..ReplicationMaxTime
      /\ worker' = worker /\ lost' = lost
      /\ jobs \in Seq(Job) /\ Len(jobs) \in Nat
  BY DEF J!cleanup_old_jobs, QueueInv
<1>1. PICK q : q = J!NotOld(jobs)
  OBVIOUS
<1>2. PICK In : In = {i \in 1..Len(jobs) : ~J!IsOld(jobs[i])}
  OBVIOUS
<1>3. jobs' = q
  BY <1>1 DEF J!cleanup_old_jobs
<1>4. q \in Seq(Job) /\ Selected(q, jobs, In)
  BY <1>0, <1>1, <1>2, NotOldSelects
<1>5. PICK place : IsSelection(place, q, jobs, In)
  BY <1>4 DEF Selected
<1>6. /\ place \in [1..Len(q) -> 1..Len(jobs)] /\ Len(q) \in Nat
      /\ \A a \in 1..Len(q) : q[a] = jobs[place[a]]
      /\ \A a, b \in 1..Len(q) : a < b => place[a] < place[b]
  BY <1>2, <1>4, <1>5 DEF IsSelection
<1>7. \A a, b \in 1..Len(q) : place[a] = place[b] => a = b
  <2>1. ASSUME NEW a \in 1..Len(q), NEW b \in 1..Len(q), place[a] = place[b], a # b PROVE FALSE
    <3>1. place[a] \in 1..Len(jobs) /\ (a < b \/ b < a)
      BY <1>6, <2>1
    <3> QED BY <1>6, <2>1, <3>1
  <2> QED BY <2>1
<1>8. ASSUME NEW a \in 1..Len(q), NEW b \in 1..Len(q), a < b, q[a].status = "PENDING", q[b].status = "PENDING"
      PROVE  q[a].priority >= q[b].priority
  <2>1. /\ place[a] \in 1..Len(jobs) /\ place[b] \in 1..Len(jobs) /\ place[a] < place[b]
        /\ q[a] = jobs[place[a]] /\ q[b] = jobs[place[b]]
    BY <1>6, <1>8
  <2> QED BY <1>8, <2>1 DEF InOrder, QueueInv
<1>9. ASSUME NEW u \in Target PROVE Cardinality(InProgress(q, u)) <= Cardinality(InProgress(jobs, u))
  <2>1. \A a \in 1..Len(q) : /\ q[a].target = jobs[place[a]].target
                             /\ q[a].status = "IN_PROGRESS" => jobs[place[a]].status = "IN_PROGRESS"
    BY <1>6
  <2> QED BY <1>0, <1>4, <1>6, <1>7, <2>1, NoMoreInProgress
<1>10. InOrder(q)
  BY <1>8 DEF InOrder
<1> QED BY <1>0, <1>3, <1>4, <1>9, <1>10, ListStep

LEMMA WorkerCases ==
    ASSUME QueueInv, NEW w \in Worker
    PROVE  \/ worker[w] = J!Idle /\ worker[w].phase = "idle"
           \/ /\ worker[w].phase \in {"fetched", "running"} /\ worker[w].target \in Target
              /\ worker[w] = [phase |-> worker[w].phase, target |-> worker[w].target]
              /\ worker[w] # J!Idle
<1>1. worker[w] \in WorkerState
  BY DEF QueueInv
<1>2. CASE worker[w] = J!Idle
  BY <1>2 DEF J!Idle
<1>3. CASE worker[w] \in [phase : {"fetched", "running"}, target : Target]
  BY <1>3 DEF J!Idle
<1> QED BY <1>1, <1>2, <1>3 DEF WorkerState

LEMMA FetchStep ==
    ASSUME QueueInv, NEW w \in Worker, J!get_next_job(w) PROVE QueueInv'
<1>1. PICK t : t = jobs[J!First(J!With(jobs, "PENDING"))].target
  OBVIOUS
<1>2. /\ worker[w] = J!Idle /\ worker' = [worker EXCEPT ![w] = [phase |-> "fetched", target |-> t]]
      /\ UNCHANGED <<jobs, job_clock, requested, lost>> /\ J!With(jobs, "PENDING") # {}
  BY <1>1 DEF J!get_next_job
<1>3. t \in Target
  <2>0. jobs \in Seq(Job) /\ DOMAIN jobs = 1..Len(jobs) /\ Len(jobs) \in Nat
    BY DEF QueueInv
  <2>1. J!With(jobs, "PENDING") \in SUBSET Nat /\ J!With(jobs, "PENDING") \subseteq 1..Len(jobs)
    BY <2>0 DEF J!With
  <2>2. J!First(J!With(jobs, "PENDING")) \in 1..Len(jobs)
    BY <1>2, <2>1, FirstIsLeast
  <2>3. jobs[J!First(J!With(jobs, "PENDING"))] \in Job
    BY <2>0, <2>2
  <2> QED BY <1>1, <2>3 DEF Job
<1>4. worker' \in [Worker -> WorkerState]
  BY <1>2, <1>3 DEF QueueInv, WorkerState
<1>5. ASSUME NEW u PROVE RunningIn(worker', u) = RunningIn(worker, u)
  <2>1. /\ [phase |-> "fetched", target |-> t] # [phase |-> "running", target |-> u]
        /\ J!Idle # [phase |-> "running", target |-> u]
    BY DEF J!Idle
  <2> QED BY <1>2, <2>1 DEF RunningIn, QueueInv
<1> QED BY <1>2, <1>4, <1>5 DEF QueueInv

\* q is the list of jobs with e in the place of its k-th.
Changed(q, k, e) ==
    /\ q \in Seq(Job) /\ InOrder(q)
    /\ \A u : InProgress(q, u) =
          IF e.target = u
          THEN IF e.status = "IN_PROGRESS" THEN InProgress(jobs, u) \cup {k} ELSE InProgress(jobs, u) \ {k}
          ELSE InProgress(jobs, u)

LEMMA EntryChanges ==
    ASSUME QueueInv, NEW k \in 1..Len(jobs), NEW e \in Job,
           e.target = jobs[k].target, e.status # "PENDING"
    PROVE  Changed([jobs EXCEPT ![k] = e], k, e)
<1> DEFINE q == [jobs EXCEPT ![k] = e]
<1>0. jobs \in Seq(Job) /\ Len(jobs) \in Nat /\ DOMAIN jobs = 1..Len(jobs)
  BY DEF QueueInv
<1>1. q \in Seq(Job) /\ Len(q) = Len(jobs) /\ q[k] = e /\ \A i \in 1..Len(jobs) : i # k => q[i] = jobs[i]
  BY <1>0
<1>2. InOrder(q)
  BY <1>1 DEF InOrder, QueueInv
<1>3. ASSUME NEW u
      PROVE  InProgress(q, u) =
                IF e.target = u
                THEN IF e.status = "IN_PROGRESS" THEN InProgress(jobs, u) \cup {k} ELSE InProgress(jobs, u) \ {k}
                ELSE InProgress(jobs, u)
  <2>1. CASE e.target = u /\ e.status = "IN_PROGRESS"
    BY <1>1, <2>1 DEF InProgress
  <2>2. CASE e.target = u /\ e.status # "IN_PROGRESS"
    BY <1>1, <2>2 DEF InProgress
  <2>3. CASE e.target # u
    BY <1>1, <2>3 DEF InProgress
  <2> QED BY <2>1, <2>2, <2>3
<1> HIDE DEF q
<1>4. Changed(q, k, e)
  BY <1>1, <1>2, <1>3 DEF Changed
<1> QED BY <1>4 DEF q

LEMMA StartStep ==
    ASSUME QueueInv, NEW w \in Worker, J!mark_job_started(w) PROVE QueueInv'
<1>1. PICK t : t = worker[w].target
  OBVIOUS
<1>2. PICK found : found = J!Matching(t, {"PENDING"})
  OBVIOUS
<1>3. /\ worker[w].phase = "fetched" /\ worker' = [worker EXCEPT ![w].phase = "running"]
      /\ jobs' = IF found = {} THEN jobs ELSE [jobs EXCEPT ![J!First(found)].status = "IN_PROGRESS"]
      /\ UNCHANGED <<job_clock, requested, lost>>
  BY <1>1, <1>2 DEF J!mark_job_started
<1>4. /\ t \in Target /\ worker[w] = [phase |-> "fetched", target |-> t] /\ worker \in [Worker -> WorkerState]
      /\ jobs \in Seq(Job) /\ Len(jobs) \in Nat /\ DOMAIN jobs = 1..Len(jobs) /\ lost \in [Target -> 0..MaxLost]
  BY <1>1, <1>3, WorkerCases DEF QueueInv
<1>5. PICK e2 : e2 = [phase |-> "running", target |-> t]
  OBVIOUS
<1>6. worker' = [worker EXCEPT ![w] = e2]
  <2>1. [worker[w] EXCEPT !.phase = "running"] = e2
    BY <1>4, <1>5
  <2> QED BY <1>3, <2>1
<1>7. /\ worker'[w] = e2 /\ \A v \in Worker : v # w => worker'[v] = worker[v]
      /\ e2 \in WorkerState /\ worker' \in [Worker -> WorkerState]
  <2>1. e2 \in WorkerState
    BY <1>4, <1>5 DEF WorkerState
  <2> QED BY <1>4, <1>6, <2>1
<1>8. ASSUME NEW u \in Target
      PROVE  Cardinality(RunningIn(worker', u)) = Cardinality(RunningIn(worker, u)) + (IF u = t THEN 1 ELSE 0)
  <2>0. IsFiniteSet(RunningIn(worker, u)) /\ Cardinality(RunningIn(worker, u)) \in Nat
    BY RunningFinite
  <2>1. CASE u = t
    <3>1. worker[w] # [phase |-> "running", target |-> u]
      BY <1>4
    <3>2. RunningIn(worker', u) = RunningIn(worker, u) \cup {w} /\ w \notin RunningIn(worker, u)
      BY <1>5, <1>7, <2>1, <3>1 DEF RunningIn
    <3> QED BY <2>0, <2>1, <3>2, FS_AddElement
  <2>2. CASE u # t
    <3>1. worker[w] # [phase |-> "running", target |-> u] /\ worker'[w] # [phase |-> "running", target |-> u]
      BY <1>4, <1>5, <1>7, <2>2
    <3>2. RunningIn(worker', u) = RunningIn(worker, u)
      BY <1>7, <3>1 DEF RunningIn
    <3> QED BY <2>0, <2>2, <3>2
  <2> QED BY <2>1, <2>2
<1>9. PICK q : q = jobs'
  OBVIOUS
<1>10. /\ q \in Seq(Job) /\ InOrder(q)
       /\ \A u \in Target : Cardinality(InProgress(q, u)) <= Cardinality(InProgress(jobs, u)) + (IF u = t THEN 1 ELSE 0)
  <2>0. \A u : IsFiniteSet(InProgress(jobs, u)) /\ Cardinality(InProgress(jobs, u)) \in Nat
    BY <1>4, InProgressFinite
  <2>1. CASE found = {}
    <3>1. q = jobs
      BY <1>3, <1>9, <2>1
    <3> QED BY <2>0, <3>1 DEF QueueInv
  <2>2. CASE found # {}
    <3>1. PICK k : k = J!First(found)
      OBVIOUS
    <3>2. found \in SUBSET Nat /\ found \subseteq 1..Len(jobs) /\ \A i \in found : jobs[i].target = t
      BY <1>2, <1>4 DEF J!Matching
    <3>30. k \in found
      BY <2>2, <3>1, <3>2, FirstIsLeast
    <3>3. k \in 1..Len(jobs) /\ jobs[k].target = t /\ jobs[k] \in Job
      BY <1>4, <3>2, <3>30
    <3>4. PICK e : e = [jobs[k] EXCEPT !.status = "IN_PROGRESS"]
      OBVIOUS
    <3>5. e \in Job /\ e.target = jobs[k].target /\ e.status = "IN_PROGRESS"
      BY <3>3, <3>4 DEF Job, J!Status, J!Active
    <3>6. q = [jobs EXCEPT ![k] = e]
      BY <1>3, <1>9, <2>2, <3>1, <3>4
    <3>7. /\ q \in Seq(Job) /\ InOrder(q)
          /\ \A u : InProgress(q, u) = IF e.target = u THEN InProgress(jobs, u) \cup {k} ELSE InProgress(jobs, u)
      <4>1. e.status # "PENDING"
        BY <3>5
      <4>2. Changed(q, k, e)
        BY <3>3, <3>5, <3>6, <4>1, EntryChanges
      <4> QED BY <3>5, <4>2 DEF Changed
    <3>8. ASSUME NEW u \in Target
          PROVE  Cardinality(InProgress(q, u)) <= Cardinality(InProgress(jobs, u)) + (IF u = t THEN 1 ELSE 0)
      <4>1. CASE u = t
        <5>1. InProgress(q, u) = InProgress(jobs, u) \cup {k}
          BY <3>3, <3>5, <3>7, <4>1
        <5> QED BY <2>0, <4>1, <5>1, FS_AddElement
      <4>2. CASE u # t
        <5>1. InProgress(q, u) = InProgress(jobs, u)
          BY <3>3, <3>5, <3>7, <4>2
        <5> QED BY <2>0, <4>2, <5>1
      <4> QED BY <4>1, <4>2
    <3> QED BY <3>7, <3>8
  <2> QED BY <2>1, <2>2
<1>11. ASSUME NEW u \in Target
       PROVE  Cardinality(InProgress(q, u)) <= Cardinality(RunningIn(worker', u)) + lost[u]
  <2>1. Cardinality(InProgress(q, u)) \in Nat /\ Cardinality(InProgress(jobs, u)) \in Nat /\ lost[u] \in Nat
    BY <1>4, <1>10, InProgressFinite, ReplicationAssumption
  <2>2. Cardinality(RunningIn(worker, u)) \in Nat
    BY RunningFinite
  <2>3. Cardinality(InProgress(jobs, u)) <= Cardinality(RunningIn(worker, u)) + lost[u]
    BY DEF QueueInv
  <2> QED BY <1>8, <1>10, <2>1, <2>2, <2>3
<1> QED BY <1>3, <1>7, <1>9, <1>10, <1>11 DEF QueueInv

\* f are the workers once w, that had been running for t or was on its way, is
\* idle again.
Left(f, w, t) ==
    /\ f \in [Worker -> WorkerState]
    /\ \A u \in Target : u # t => RunningIn(f, u) = RunningIn(worker, u)
    /\ RunningIn(f, t) = RunningIn(worker, t) \ {w}
    /\ worker[w].phase = "running" => w \in RunningIn(worker, t)

LEMMA WorkerLeaves ==
    ASSUME QueueInv, NEW w \in Worker, NEW t \in Target, worker[w].target = t, worker[w] # J!Idle
    PROVE  Left([worker EXCEPT ![w] = J!Idle], w, t)
<1> DEFINE f == [worker EXCEPT ![w] = J!Idle]
<1>0. worker \in [Worker -> WorkerState] /\ worker[w] = [phase |-> worker[w].phase, target |-> t]
  BY WorkerCases DEF QueueInv
<1>1. f \in [Worker -> WorkerState] /\ f[w] = J!Idle /\ \A v \in Worker : v # w => f[v] = worker[v]
  BY <1>0 DEF WorkerState
<1>2. \A u : J!Idle # [phase |-> "running", target |-> u]
  BY DEF J!Idle
<1>3. ASSUME NEW u \in Target, u # t PROVE RunningIn(f, u) = RunningIn(worker, u)
  <2>1. worker[w] # [phase |-> "running", target |-> u]
    BY <1>0, <1>3
  <2> QED BY <1>1, <1>2, <2>1 DEF RunningIn
<1>4. RunningIn(f, t) = RunningIn(worker, t) \ {w}
  BY <1>1, <1>2 DEF RunningIn
<1>5. ASSUME worker[w].phase = "running" PROVE w \in RunningIn(worker, t)
  BY <1>0, <1>5 DEF RunningIn
<1> HIDE DEF f
<1>6. Left(f, w, t)
  BY <1>1, <1>3, <1>4, <1>5 DEF Left
<1> QED BY <1>6 DEF f

LEMMA CompleteStep ==
    ASSUME QueueInv, NEW w \in Worker, NEW outcome \in {"COMPLETED", "FAILED"}, J!mark_job_completed(w, outcome)
    PROVE  QueueInv'
<1>1. PICK t : t = worker[w].target
  OBVIOUS
<1>2. PICK found : found = InProgress(jobs, t)
  OBVIOUS
<1>3. /\ jobs \in Seq(Job) /\ Len(jobs) \in Nat /\ DOMAIN jobs = 1..Len(jobs) /\ lost \in [Target -> 0..MaxLost]
      /\ job_clock \in 0..ReplicationMaxTime
  BY DEF QueueInv
<1>4. /\ worker[w].phase = "running" /\ worker' = [worker EXCEPT ![w] = J!Idle]
      /\ jobs' = IF found = {} THEN jobs
                 ELSE [jobs EXCEPT ![J!First(found)].status = outcome, ![J!First(found)].completed = job_clock]
      /\ UNCHANGED <<job_clock, requested, lost>>
  <2>1. J!Matching(worker[w].target, {"IN_PROGRESS"}) = found
    BY <1>1, <1>2, <1>3, MatchingInProgress
  <2> QED BY <2>1 DEF J!mark_job_completed
<1>5. t \in Target /\ worker[w] # J!Idle
  BY <1>1, <1>4, WorkerCases
<1>6. /\ worker' \in [Worker -> WorkerState]
      /\ \A u \in Target : u # t => RunningIn(worker', u) = RunningIn(worker, u)
      /\ RunningIn(worker', t) = RunningIn(worker, t) \ {w} /\ w \in RunningIn(worker, t)
  <2>1. PICK f : f = [worker EXCEPT ![w] = J!Idle]
    OBVIOUS
  <2>2. Left(f, w, t)
    BY <1>1, <1>5, <2>1, WorkerLeaves
  <2> QED BY <1>4, <2>1, <2>2 DEF Left
<1>7. Cardinality(RunningIn(worker', t)) = Cardinality(RunningIn(worker, t)) - 1
  BY <1>6, RunningFinite, FS_RemoveElement
<1>8. PICK q : q = jobs'
  OBVIOUS
<1>9. \A u \in Target : Cardinality(InProgress(jobs, u)) <= Cardinality(RunningIn(worker, u)) + lost[u]
  BY DEF QueueInv
<1>10. \A u \in Target : /\ Cardinality(RunningIn(worker, u)) \in Nat /\ Cardinality(RunningIn(worker', u)) \in Nat
                         /\ lost[u] \in Nat /\ IsFiniteSet(InProgress(jobs, u))
  BY <1>3, RunningFinite, InProgressFinite, ReplicationAssumption
<1>11. CASE found = {}
  <2>1. q = jobs
    BY <1>4, <1>8, <1>11
  <2>2. Cardinality(InProgress(q, t)) = 0
    BY <1>2, <1>11, <2>1, FS_EmptySet
  <2>3. \A u \in Target : Cardinality(InProgress(q, u)) <= Cardinality(RunningIn(worker', u)) + lost[u]
    BY <1>5, <1>6, <1>9, <1>10, <2>1, <2>2
  <2> QED BY <1>4, <1>6, <1>8, <2>1, <2>3 DEF QueueInv
<1>12. CASE found # {}
  <2>1. PICK k : k = J!First(found)
    OBVIOUS
  <2>2. found \in SUBSET Nat /\ found \subseteq 1..Len(jobs) /\ \A i \in found : jobs[i].target = t
    BY <1>2, <1>3 DEF InProgress
  <2>30. k \in found
    BY <1>12, <2>1, <2>2, FirstIsLeast
  <2>3. k \in found /\ k \in 1..Len(jobs) /\ jobs[k].target = t /\ jobs[k] \in Job
    BY <1>3, <2>2, <2>30
  <2>4. PICK e : e = [jobs[k] EXCEPT !.status = outcome, !.completed = job_clock]
    OBVIOUS
  <2>5. e \in Job /\ e.target = t /\ e.status # "IN_PROGRESS" /\ e.status # "PENDING"
    BY <1>3, <2>3, <2>4 DEF Job, J!Status, J!Active
  <2>6. q = [jobs EXCEPT ![k] = e]
    <3>1. q = [jobs EXCEPT ![k].status = outcome, ![k].completed = job_clock]
      BY <1>4, <1>8, <1>12, <2>1
    <3> QED BY <1>3, <2>3, <2>4, <3>1
  <2>7. /\ q \in Seq(Job) /\ InOrder(q)
        /\ \A u : InProgress(q, u) = IF e.target = u THEN InProgress(jobs, u) \ {k} ELSE InProgress(jobs, u)
    <3>1. Changed(q, k, e)
      BY <2>3, <2>5, <2>6, EntryChanges
    <3> QED BY <2>5, <3>1 DEF Changed
  <2>8. ASSUME NEW u \in Target PROVE Cardinality(InProgress(q, u)) <= Cardinality(RunningIn(worker', u)) + lost[u]
    <3>1. CASE u = t
      <4>1. InProgress(q, u) = InProgress(jobs, u) \ {k} /\ k \in InProgress(jobs, u)
        BY <1>2, <2>3, <2>5, <2>7, <3>1
      <4>2. Cardinality(InProgress(q, u)) = Cardinality(InProgress(jobs, u)) - 1
        BY <1>10, <4>1, FS_RemoveElement
      <4>3. Cardinality(InProgress(jobs, u)) \in Nat
        BY <1>10, FS_CardinalityType
      <4> QED BY <1>7, <1>9, <1>10, <3>1, <4>2, <4>3
    <3>2. CASE u # t
      BY <1>6, <1>9, <2>5, <2>7, <3>2
    <3> QED BY <3>1, <3>2
  <2> QED BY <1>4, <1>6, <1>8, <2>7, <2>8 DEF QueueInv
<1> QED BY <1>11, <1>12

LEMMA StopStep ==
    ASSUME QueueInv, NEW w \in Worker, J!WorkerStops(w) PROVE QueueInv'
<1>1. PICK t : t = worker[w].target
  OBVIOUS
<1>2. /\ worker[w] # J!Idle /\ lost[t] < MaxLost /\ lost' = [lost EXCEPT ![t] = lost[t] + 1]
      /\ worker' = [worker EXCEPT ![w] = J!Idle]
      /\ UNCHANGED <<jobs, job_clock, requested>>
  BY <1>1 DEF J!WorkerStops
<1>3. t \in Target /\ lost \in [Target -> 0..MaxLost] /\ MaxLost \in Nat /\ jobs \in Seq(Job)
  BY <1>1, <1>2, WorkerCases, ReplicationAssumption DEF QueueInv
<1>4. /\ worker' \in [Worker -> WorkerState]
      /\ \A u \in Target : u # t => RunningIn(worker', u) = RunningIn(worker, u)
      /\ RunningIn(worker', t) = RunningIn(worker, t) \ {w}
  <2>1. PICK f : f = [worker EXCEPT ![w] = J!Idle]
    OBVIOUS
  <2>2. Left(f, w, t)
    BY <1>1, <1>2, <1>3, <2>1, WorkerLeaves
  <2> QED BY <1>2, <2>1, <2>2 DEF Left
<1>5. /\ lost' \in [Target -> 0..MaxLost] /\ lost'[t] = lost[t] + 1
      /\ \A u \in Target : u # t => lost'[u] = lost[u]
  BY <1>2, <1>3
<1>6. Cardinality(RunningIn(worker', t)) >= Cardinality(RunningIn(worker, t)) - 1
  <2>1. IsFiniteSet(RunningIn(worker, t)) /\ Cardinality(RunningIn(worker, t)) \in Nat
    BY RunningFinite
  <2>2. Cardinality(RunningIn(worker, t) \ {w}) =
           IF w \in RunningIn(worker, t) THEN Cardinality(RunningIn(worker, t)) - 1 ELSE Cardinality(RunningIn(worker, t))
    BY <2>1, FS_RemoveElement
  <2> QED BY <1>4, <2>1, <2>2
<1>7. ASSUME NEW u \in Target PROVE Cardinality(InProgress(jobs, u)) <= Cardinality(RunningIn(worker', u)) + lost'[u]
  <2>1. /\ Cardinality(RunningIn(worker, u)) \in Nat /\ Cardinality(RunningIn(worker', u)) \in Nat
        /\ lost[u] \in Nat /\ Cardinality(InProgress(jobs, u)) \in Nat
        /\ Cardinality(InProgress(jobs, u)) <= Cardinality(RunningIn(worker, u)) + lost[u]
    BY <1>3, RunningFinite, InProgressFinite DEF QueueInv
  <2> QED BY <1>4, <1>5, <1>6, <2>1
<1> QED BY <1>2, <1>4, <1>5, <1>7 DEF QueueInv

LEMMA QueueStep == QueueInv /\ [J!Next]_J_vars => QueueInv'
<1> SUFFICES ASSUME QueueInv, [J!Next]_J_vars PROVE QueueInv' OBVIOUS
<1>1. CASE \E t \in Target, p \in Priority : J!request_replication(t, p)
  BY <1>1, RequestStep
<1>2. CASE \E t \in Target : J!cancel_replication(t)
  BY <1>2, CancelStep
<1>3. ASSUME NEW w \in Worker, J!Work(w) \/ J!WorkerStops(w) PROVE QueueInv'
  BY <1>3, FetchStep, StartStep, CompleteStep, StopStep DEF J!Work
<1>4. CASE J!retry_failed_jobs
  BY <1>4, RetryStep
<1>5. CASE J!cleanup_old_jobs
  BY <1>5, CleanupJobsStep
<1>6. CASE J!Tick
  <2>1. job_clock' \in 0..ReplicationMaxTime /\ UNCHANGED <<jobs, worker, requested, lost>>
    BY <1>6, ReplicationAssumption DEF J!Tick, QueueInv
  <2> QED BY <2>1 DEF QueueInv
<1>7. CASE UNCHANGED J_vars
  BY <1>7 DEF J_vars, QueueInv
<1> QED BY <1>1, <1>2, <1>3, <1>4, <1>5, <1>6, <1>7 DEF J!Next

\* get_next_job always finds the most urgent pending job first, and no slot is
\* taken without a worker that will free it or that stopped (Replication): for
\* any targets, priorities and number of workers, through cancellations, late
\* reports, retries and clean-ups.
THEOREM QueueSoundHolds == OverlaySpec => []QueueSound
<1>1. OverlayInit => QueueInv
  <2> SUFFICES ASSUME J!Init PROVE QueueInv BY DEF OverlayInit
  <2>1. jobs = <<>> /\ jobs \in Seq(Job) /\ Len(jobs) = 0
    BY DEF J!Init
  <2>2. InOrder(jobs) /\ \A t : InProgress(jobs, t) = {}
    BY <2>1 DEF InOrder, InProgress
  <2>3. worker \in [Worker -> WorkerState] /\ lost \in [Target -> 0..MaxLost] /\ \A t \in Target : lost[t] = 0
    BY ReplicationAssumption DEF J!Init, WorkerState
  <2>4. job_clock \in 0..ReplicationMaxTime /\ requested \in 0..MaxRequests
    BY ReplicationAssumption DEF J!Init
  <2>5. \A t \in Target : Cardinality(InProgress(jobs, t)) <= Cardinality(RunningIn(worker, t)) + lost[t]
    BY <2>2, <2>3, RunningFinite, FS_EmptySet
  <2> QED BY <2>1, <2>2, <2>3, <2>4, <2>5 DEF QueueInv
<1>2. QueueInv /\ [OverlayNext]_all_vars => QueueInv'
  BY QueueStep DEF OverlayNext, all_vars, J_vars
<1>3. QueueInv => QueueSound
  BY QueueInvGives DEF QueueSound
<1> QED BY <1>1, <1>2, <1>3, PTL DEF OverlaySpec

=============================================================================
