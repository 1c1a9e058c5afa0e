---------------------------- MODULE LedgerProofs ----------------------------
(***************************************************************************)
(* Theorems about the ledgers of module Ledger, for any set of nodes and   *)
(* payloads, any clocks and any bounds.                                    *)
(*                                                                         *)
(* Every step changes one ledger: it starts over, stays or grows by one    *)
(* event (StepCases).  That each ledger is Good is all that is carried     *)
(* from step to step, with the types, the clocks and the index by node;    *)
(* PrefixAgreement follows because Good ledgers are linked.                *)
(***************************************************************************)
EXTENDS MCLedger, LedgerOpsProofs

-----------------------------------------------------------------------------
(* All ledgers *)

AllGood == \A n \in Node : Good(ledger[n])

\* The inductive invariant.
IInv == TypeOK /\ AllGood /\ IndexFaithful /\ NoFutureEvents

\* What a step does to the one ledger it touches: e is appended after the tip.
GrowsBy(n, e) ==
    /\ Events(n)' = Append(Events(n), e)
    /\ e.previous_hash = IF Events(n) = <<>> THEN ZeroHash ELSE compute_hash(Tip(ledger[n]))
    /\ e.timestamp <= clock'[n] + MaxFutureSkew
    /\ published' = published \cup {e}
    /\ IndexAfter(ledger'[n], ledger[n], e, published')

\* The ledger keeps its events and its index.
Stays(n) ==
    /\ Events(n)' = Events(n) /\ published' = published
    /\ \A m : get_events_by_node(ledger'[n], m) = get_events_by_node(ledger[n], m)

StepOf(n) ==
    /\ \A m \in Node \ {n} : ledger'[m] = ledger[m]
    /\ Good(ledger'[n])
    /\ ledger'[n].event_counter \in 0..MaxCounter
    /\ \/ Stays(n)
       \/ ledger'[n] = EmptyLedger /\ published' = published
       \/ \E e \in published' : GrowsBy(n, e)

\* What a step does to the rest of the state.
Frame ==
    /\ DOMAIN ledger' = Node
    /\ clock' \in [Node -> 0..MaxTime]
    /\ \A m \in Node : clock[m] <= clock'[m]
    /\ published \subseteq published'
    /\ \A e \in published' : WellTyped(e)

\* create_event gives an event that has its fields in range.
LEMMA CreatedTyped ==
    ASSUME NEW l, NEW n \in Node, NEW now \in 0..MaxTime, NEW later \in 0..MaxTime,
           NEW p \in Payload
    PROVE  /\ WellTyped(create_event(l, n, now, later, p))
           /\ create_event(l, n, now, later, p).timestamp = now
BY EpochAssumption, BoundAssumption DEF WellTyped, create_event, current_epoch

LEMMA StepCases ==
    ASSUME TypeOK, AllGood, Next
    PROVE  Frame /\ \E n \in Node : StepOf(n)
<1> USE BoundAssumption
<1>1. ASSUME NEW n \in Node, NEW p \in Payload, NEW later \in {clock[n], clock[n] + 1},
             Record(n, p, later)
      PROVE  Frame /\ StepOf(n)
  <2> DEFINE b == [ledger[n] EXCEPT !.event_counter = @ + 1]
             e == create_event(ledger[n], n, clock[n], later, p)
             S == published \cup {e}
  <2>1. /\ Good(b)
        /\ b.events = Events(n)
        /\ b.event_counter = ledger[n].event_counter + 1
        /\ Tip(b) = Tip(ledger[n])
        /\ \A m : get_events_by_node(b, m) = get_events_by_node(ledger[n], m)
    BY BumpedGood DEF AllGood, Events, Tip
  <2>2. /\ clock[n] \in 0..MaxTime
        /\ later \in 0..MaxTime
        /\ clock[n] <= later
        /\ ledger[n].event_counter \in 0..MaxCounter
        /\ ledger[n].event_counter < MaxCounter
        /\ ledger'[n] = add_event(b, e, later)
        /\ clock' = [clock EXCEPT ![n] = later]
        /\ published' = IF verify_event(b, e, later) THEN S ELSE published
        /\ \A m \in Node \ {n} : ledger'[m] = ledger[m]
        /\ DOMAIN ledger' = Node
    BY <1>1 DEF Record, TypeOK
  <2>3. WellTyped(e) /\ e.timestamp = clock[n]
    BY <2>2, CreatedTyped
  <2>4. b.events \in Seq(S) /\ e \in S
    BY <2>1 DEF TypeOK
  <2>5. Frame
    BY <2>2, <2>3 DEF Frame, TypeOK
  <2> HIDE DEF b, e, S
  <2>6. /\ Good(ledger'[n])
        /\ ledger'[n].event_counter = b.event_counter
        /\ ~verify_event(b, e, later) => ledger'[n] = b
        /\ verify_event(b, e, later) =>
             /\ ledger'[n].events = Append(b.events, e)
             /\ e.previous_hash = IF b.events = <<>> THEN ZeroHash ELSE compute_hash(Tip(b))
             /\ IndexAfter(ledger'[n], b, e, S)
    <3>1. Good(b) /\ b.events \in Seq(S) /\ e \in S
      BY <2>1, <2>4
    <3>2. /\ Good(add_event(b, e, later))
          /\ add_event(b, e, later).event_counter = b.event_counter
          /\ ~verify_event(b, e, later) => add_event(b, e, later) = b
          /\ verify_event(b, e, later) =>
               /\ add_event(b, e, later).events = Append(b.events, e)
               /\ e.previous_hash = IF b.events = <<>> THEN ZeroHash ELSE compute_hash(Tip(b))
      <4> HIDE DEF Good
      <4> QED BY <3>1, AddEventCases
    <3>3. verify_event(b, e, later) => IndexAfter(add_event(b, e, later), b, e, S)
      BY <3>1, AddEventIndex, Zenon
    <3>4. ledger'[n] = add_event(b, e, later)
      BY <2>2
    <3> QED BY <3>2, <3>3, <3>4, Zenon
  <2>c. ledger'[n].event_counter \in 0..MaxCounter
    BY <2>1, <2>2, <2>6
  <2>7. CASE verify_event(b, e, later)
    <3>0. published' = published \cup {e} /\ S = published'
      BY <2>2, <2>7 DEF S
    <3>1. e \in published' /\ clock'[n] = later
      BY <2>2, <3>0 DEF TypeOK
    <3>2. e.timestamp <= clock'[n] + MaxFutureSkew
      BY <2>2, <2>3, <3>1, SkewAssumption
    <3>3. GrowsBy(n, e)
      BY <2>1, <2>6, <2>7, <3>0, <3>2 DEF GrowsBy, Events, IndexAfter
    <3> QED BY <2>2, <2>5, <2>6, <2>c, <3>1, <3>3 DEF StepOf
  <2>8. CASE ~verify_event(b, e, later)
    BY <2>1, <2>2, <2>5, <2>6, <2>c, <2>8 DEF StepOf, Stays, Events
  <2> QED BY <2>7, <2>8
<1>2. ASSUME NEW n \in Node, NEW e \in published, AddExternal(n, e)
      PROVE  Frame /\ StepOf(n)
  <2> DEFINE l == ledger[n]
  <2>1. /\ ledger'[n] = add_external_event(l, e, clock[n])
        /\ \A m \in Node \ {n} : ledger'[m] = ledger[m]
        /\ DOMAIN ledger' = Node
        /\ clock' = clock
        /\ published' = published
        /\ l.event_counter \in 0..MaxCounter
        /\ l.events \in Seq(published)
        /\ clock[n] \in Int
        /\ e.timestamp \in Int
    BY <1>2 DEF AddExternal, TypeOK, Events, WellTyped
  <2>2. Frame
    BY <2>1 DEF Frame, TypeOK
  <2>3. Good(l)
    BY DEF AllGood
  <2>4. CASE AcceptsExternal(l, e, clock[n]) /\ verify_event(l, e, clock[n])
    <3>1. ledger'[n] = add_event(l, e, clock[n])
      BY <2>1, <2>4 DEF add_external_event
    <3>2. /\ Good(ledger'[n])
          /\ ledger'[n].event_counter = l.event_counter
          /\ ledger'[n].events = Append(l.events, e)
          /\ e.previous_hash = IF l.events = <<>> THEN ZeroHash ELSE compute_hash(Tip(l))
          /\ ~(e.timestamp > clock[n] + MaxFutureSkew)
      BY <2>1, <2>3, <2>4, <3>1, AddEventCases
    <3>4. IndexAfter(ledger'[n], l, e, published)
      BY <2>1, <2>3, <2>4, <3>1, AddEventIndex, Zenon
    <3>3. GrowsBy(n, e)
      BY <2>1, <3>2, <3>4, SkewAssumption DEF GrowsBy, Events
    <3> QED BY <2>1, <2>2, <3>2, <3>3 DEF StepOf
  <2>5. CASE ~(AcceptsExternal(l, e, clock[n]) /\ verify_event(l, e, clock[n]))
    <3>1. ledger'[n] = l
      BY <2>1, <2>5 DEF add_external_event, add_event
    <3> QED BY <2>1, <2>2, <2>3, <3>1 DEF StepOf, Stays, Events
  <2> QED BY <2>4, <2>5
<1>3. ASSUME NEW n \in Node, Restart(n)
      PROVE  Frame /\ StepOf(n)
  <2>1. /\ ledger'[n] = EmptyLedger
        /\ \A m \in Node \ {n} : ledger'[m] = ledger[m]
        /\ DOMAIN ledger' = Node
        /\ clock' = clock
        /\ published' = published
    BY <1>3 DEF Restart, TypeOK
  <2>2. Frame
    BY <2>1 DEF Frame, TypeOK
  <2>3. EmptyLedger.event_counter \in 0..MaxCounter
    BY DEF EmptyLedger
  <2> QED BY <2>1, <2>2, <2>3, EmptyGood DEF StepOf
<1>4. ASSUME NEW n \in Node, Tick(n)
      PROVE  Frame /\ StepOf(n)
  <2>1. Frame
    BY <1>4 DEF Tick, Frame, TypeOK
  <2> QED BY <1>4, <2>1 DEF Tick, StepOf, Stays, AllGood, TypeOK, Events
<1> QED BY <1>1, <1>2, <1>3, <1>4 DEF Next

\* A list of s is a list of s for every set that has the same members of s.
LEMMA ListSame ==
    ASSUME NEW s, NEW t, NEW A, NEW B, ListsInOrder(t, s, A),
           \A i \in 1..Len(s) : s[i] \in B <=> s[i] \in A
    PROVE  ListsInOrder(t, s, B)
BY DEF ListsInOrder

\* A step keeps the index by node in agreement with the events.
LEMMA IndexStep ==
    ASSUME IInv, Frame, NEW n \in Node, StepOf(n)
    PROVE  IndexFaithful'
<1> DEFINE By(m) == {e \in published : e.source_node = m}
           By2(m) == {e \in published' : e.source_node = m}
<1> SUFFICES ASSUME NEW c \in Node, NEW m \in Node
             PROVE  ListsInOrder(get_events_by_node(ledger'[c], m), Events(c)', By2(m))
  BY DEF IndexFaithful
<1>1. ListsInOrder(get_events_by_node(ledger[c], m), Events(c), By(m))
  BY DEF IInv, IndexFaithful
<1>2. Events(c) \in Seq(published) /\ published \subseteq published'
  BY DEF IInv, TypeOK, Frame
<1>3. \A i \in 1..Len(Events(c)) : Events(c)[i] \in By2(m) <=> Events(c)[i] \in By(m)
  BY <1>2
<1> HIDE DEF By, By2
<1>4. CASE Events(c)' = Events(c) /\ get_events_by_node(ledger'[c], m) = get_events_by_node(ledger[c], m)
  BY <1>1, <1>3, <1>4, ListSame
<1>5. CASE ledger'[c] = EmptyLedger
  <2>1. Events(c)' = <<>> /\ get_events_by_node(ledger'[c], m) = <<>>
    BY <1>5 DEF Events, EmptyLedger, get_events_by_node
  <2> QED BY <2>1 DEF ListsInOrder
<1>6. ASSUME NEW e \in published', GrowsBy(c, e)
      PROVE  ListsInOrder(get_events_by_node(ledger'[c], m), Events(c)', By2(m))
  <2> DEFINE g == get_events_by_node(ledger[c], m)
             s == Events(c)
  <2>1. /\ g \in Seq(published') /\ s \in Seq(published')
        /\ get_events_by_node(ledger'[c], m) = IF e.source_node = m THEN Append(g, e) ELSE g
        /\ Events(c)' = Append(s, e)
    BY <1>2, <1>6 DEF GrowsBy, IndexAfter
  <2>2. e \in By2(m) <=> e.source_node = m
    BY DEF By2
  <2>3. ListsInOrder(g, s, By(m)) /\ \A i \in 1..Len(s) : s[i] \in By2(m) <=> s[i] \in By(m)
    BY <1>1, <1>3
  <2> HIDE DEF g, s
  <2>4. /\ e \in By2(m) => ListsInOrder(Append(g, e), Append(s, e), By2(m))
        /\ e \notin By2(m) => ListsInOrder(g, Append(s, e), By2(m))
    BY <2>1, <2>3, ListGrows
  <2> QED BY <2>1, <2>2, <2>4
<1>7. c # n => ledger'[c] = ledger[c]
  BY DEF StepOf
<1> QED BY <1>4, <1>5, <1>6, <1>7 DEF StepOf, Stays, Events

\* A step keeps the invariant.
LEMMA IInvStep == IInv /\ [Next]_vars => IInv'
<1> SUFFICES ASSUME IInv, [Next]_vars PROVE IInv'
  OBVIOUS
<1>1. CASE UNCHANGED vars
  BY <1>1 DEF vars, IInv, TypeOK, AllGood, IndexFaithful, NoFutureEvents, Events
<1>2. CASE Next
  <2>1. PICK n \in Node : Frame /\ StepOf(n)
    BY <1>2, StepCases DEF IInv
  <2>2. AllGood'
    BY <2>1 DEF StepOf, AllGood, IInv
  <2>3. \A m \in Node : Events(m) \in Seq(published) /\ published \subseteq published'
    BY <2>1 DEF IInv, TypeOK, Frame
  <2>4. /\ \A m \in Node : Events(m)' \in Seq(published')
        /\ \A m \in Node : \A i \in 1..Len(Events(m)') :
              Events(m)'[i].timestamp <= clock'[m] + MaxFutureSkew
    <3>0. /\ \A m \in Node : clock[m] \in Int /\ clock'[m] \in Int /\ clock[m] <= clock'[m]
          /\ MaxFutureSkew \in Int
          /\ \A e \in published : e.timestamp \in Int
      BY <2>1, SkewAssumption, BoundAssumption DEF Frame, IInv, TypeOK, WellTyped
    <3>1. ASSUME NEW m \in Node, Events(m)' = Events(m)
          PROVE  /\ Events(m)' \in Seq(published')
                 /\ \A i \in 1..Len(Events(m)') :
                       Events(m)'[i].timestamp <= clock'[m] + MaxFutureSkew
      <4>1. Events(m)' \in Seq(published')
        BY <2>3, <3>1
      <4>2. ASSUME NEW i \in 1..Len(Events(m))
            PROVE  Events(m)[i].timestamp <= clock'[m] + MaxFutureSkew
        <5>1. Events(m)[i] \in published
          BY <2>3
        <5>2. Events(m)[i].timestamp <= clock[m] + MaxFutureSkew
          BY DEF IInv, NoFutureEvents
        <5> QED BY <3>0, <5>1, <5>2
      <4> QED BY <3>1, <4>1, <4>2
    <3>2. CASE ledger'[n] = EmptyLedger
      <4>1. Events(n)' = <<>>
        BY <3>2 DEF Events, EmptyLedger
      <4>2. /\ Events(n)' \in Seq(published')
            /\ 1..Len(Events(n)') = {}
        BY <4>1
      <4> QED BY <2>1, <3>1, <4>2 DEF StepOf, Events
    <3>3. ASSUME NEW e \in published', GrowsBy(n, e)
          PROVE  /\ Events(n)' \in Seq(published')
                 /\ \A i \in 1..Len(Events(n)') :
                       Events(n)'[i].timestamp <= clock'[n] + MaxFutureSkew
      <4>1. /\ Events(n) \in Seq(published')
            /\ Events(n)' = Append(Events(n), e)
            /\ e.timestamp <= clock'[n] + MaxFutureSkew
        BY <2>3, <3>3 DEF GrowsBy
      <4>2. \A i \in 1..Len(Events(n)) :
               /\ Events(n)[i] \in published
               /\ Events(n)[i].timestamp <= clock[n] + MaxFutureSkew
        BY <2>3 DEF IInv, NoFutureEvents
      <4>3. \A i \in 1..Len(Events(n)) :
               Events(n)[i].timestamp <= clock'[n] + MaxFutureSkew
        BY <3>0, <4>2
      <4>4. /\ Events(n)' \in Seq(published')
            /\ Len(Events(n)) \in Nat
            /\ Len(Events(n)') = Len(Events(n)) + 1
            /\ Events(n)'[Len(Events(n)) + 1] = e
            /\ \A i \in 1..Len(Events(n)) : Events(n)'[i] = Events(n)[i]
        BY <4>1, AppendFacts
      <4> QED BY <4>1, <4>3, <4>4
    <3> QED BY <2>1, <3>1, <3>2, <3>3 DEF StepOf, Stays, Events
  <2>5. TypeOK'
    BY <2>1, <2>4 DEF TypeOK, Frame, StepOf, WellTyped, IInv
  <2>6. IndexFaithful'
    BY <2>1, IndexStep
  <2> QED BY <2>2, <2>4, <2>5, <2>6 DEF IInv, NoFutureEvents
<1> QED BY <1>1, <1>2

\* The initial states satisfy the invariant.
LEMMA IInvInit == Init => IInv
<1> SUFFICES ASSUME Init PROVE IInv
  OBVIOUS
<1>1. \A n \in Node : ledger[n] = EmptyLedger
  BY DEF Init
<1>2. \A n \in Node : Events(n) = <<>> /\ ledger[n].event_counter = 0
  BY <1>1 DEF Events, EmptyLedger
<1>3. TypeOK
  <2>1. <<>> \in Seq(published) /\ 0 \in 0..MaxCounter /\ 0 \in 0..MaxTime
    BY BoundAssumption
  <2>2. published = {} /\ DOMAIN ledger = Node /\ clock \in [Node -> 0..MaxTime]
    BY <2>1 DEF Init
  <2> QED BY <1>2, <2>1, <2>2 DEF TypeOK
<1>4. AllGood
  BY <1>1, EmptyGood DEF AllGood
<1>5. IndexFaithful
  <2>1. \A n, m \in Node : get_events_by_node(ledger[n], m) = <<>>
    BY <1>1 DEF EmptyLedger, get_events_by_node
  <2> QED BY <1>2, <2>1 DEF IndexFaithful, ListsInOrder
<1> QED BY <1>2, <1>3, <1>4, <1>5 DEF IInv, NoFutureEvents

\* IInv holds in every reachable state.
THEOREM Invariance == Spec => []IInv
BY IInvInit, IInvStep, PTL DEF Spec

\* Every ledger holds only published, well-typed events.
THEOREM TypeCorrect == Spec => []TypeOK
BY Invariance, PTL DEF IInv

\* Ledgers fork but never meet again: the events two ledgers share are a
\* common prefix, whatever was lost, repeated, reordered or restarted.
THEOREM PrefixAgreementHolds == Spec => []PrefixAgreement
<1>1. IInv => PrefixAgreement
  <2> SUFFICES ASSUME IInv, NEW a \in Node, NEW b \in Node PROVE Agree(Events(a), Events(b))
    BY DEF PrefixAgreement, Agree
  <2>1. \A c \in Node : LinkedSeq(Events(c)) /\ Events(c) \in Seq(published)
    BY DEF IInv, AllGood, Good, Linked, LinkedSeq, TypeOK, Events
  <2> QED BY <2>1, LinkedAgree
<1> QED BY <1>1, Invariance, PTL

\* No ledger runs further ahead of its node's clock than the skew allows.
THEOREM NoFutureEventsHolds == Spec => []NoFutureEvents
BY Invariance, PTL DEF IInv

\* create_event always links to the tip.
THEOREM TipTrackedHolds == Spec => []TipTracked
<1>1. IInv => TipTracked
  BY DEF IInv, AllGood, Good, TipHash, TipTracked, Events
<1> QED BY <1>1, Invariance, PTL

\* get_event finds exactly the events of the ledger.
THEOREM LookupFaithfulHolds == Spec => []LookupFaithful
<1>1. IInv => LookupFaithful
  <2> SUFFICES ASSUME IInv, NEW n \in Node
               PROVE  LET l == ledger[n] IN
                      /\ DOMAIN l.event_lookup = {l.events[i].event_id : i \in 1..Len(l.events)}
                      /\ \A i \in 1..Len(l.events) :
                            get_event(l, l.events[i].event_id) = l.events[i]
    BY DEF LookupFaithful
  <2>1. Lookup(ledger[n])
    BY DEF IInv, AllGood, Good
  <2> QED BY <2>1 DEF Lookup, get_event
<1> QED BY <1>1, Invariance, PTL

\* latest_hash_, event_lookup_ and the index by node, the copies that
\* record_event and add_external_event keep beside events_, say what events_ says, for any
\* number of nodes and events.
THEOREM CopiesFaithfulHolds == Spec => []CopiesFaithful
BY Invariance, LookupFaithfulHolds, TipTrackedHolds, PTL DEF IInv, CopiesFaithful

\* validate_chain and detect_conflicts never find anything wrong.
THEOREM ChainIntactHolds == Spec => []ChainIntact
<1>1. IInv => ChainIntact
  <2> SUFFICES ASSUME IInv, NEW n \in Node
               PROVE  /\ validate_chain(ledger[n])
                      /\ detect_conflicts(ledger[n]) = {}
                      /\ Events(n) # <<>> => Events(n)[1].previous_hash = ZeroHash
    BY DEF ChainIntact
  <2> DEFINE l == ledger[n]
  <2>1. /\ Linked(l)
        /\ Lookup(l)
        /\ l.events \in Seq(published)
    BY DEF IInv, AllGood, Good, TypeOK, Events
  <2>2. /\ Len(l.events) \in Nat
        /\ DOMAIN l.events = 1..Len(l.events)
        /\ l.events = <<>> <=> Len(l.events) = 0
    BY <2>1
  <2> HIDE DEF l
  <2>3. \A i \in 2..Len(l.events) :
           l.events[i].previous_hash = compute_hash(l.events[i - 1])
    BY <2>1, <2>2 DEF Linked
  <2>4. validate_chain(l)
    BY <2>3 DEF validate_chain
  <2>5. \A i, j \in 1..Len(l.events) : l.events[i].event_id = l.events[j].event_id => i = j
    BY <2>1 DEF Lookup
  <2>6. detect_conflicts(l) = {}
    BY <2>2, <2>3, <2>5 DEF detect_conflicts
  <2>7. l.events # <<>> => l.events[1].previous_hash = ZeroHash
    BY <2>1, <2>2 DEF Linked
  <2> QED BY <2>4, <2>6, <2>7 DEF l, Events
<1> QED BY <1>1, Invariance, PTL

\* Nothing is ever replaced or dropped, except by a restart.
THEOREM AppendOnlyHolds == Spec => AppendOnly
<1> DEFINE Grown == \A n \in Node :
                       \/ Events(n)' = Events(n)
                       \/ \E e \in published' : Events(n)' = Append(Events(n), e)
                       \/ ledger[n]' = EmptyLedger
<1>1. IInv /\ [Next]_vars => [Grown]_vars
  <2> SUFFICES ASSUME IInv, Next PROVE Grown
    OBVIOUS
  <2>1. PICK n \in Node : Frame /\ StepOf(n)
    BY StepCases DEF IInv
  <2> QED BY <2>1 DEF StepOf, Stays, GrowsBy, Events
<1> QED BY <1>1, Invariance, PTL DEF Spec, AppendOnly

-----------------------------------------------------------------------------
(* Refinement *)

\* An event that grows a ledger names the end of that ledger as its
\* predecessor, which is its place in the tree.
LEMMA PlaceOfAppended ==
    ASSUME NEW n \in Node, NEW e, GrowsBy(n, e)
    PROVE  Predecessor(e) = Log!End(Events(n))
<1>1. CASE Events(n) = <<>>
  BY <1>1 DEF GrowsBy, Predecessor, Log!End
<1>2. CASE Events(n) # <<>>
  <2>1. e.previous_hash = compute_hash(Tip(ledger[n])) /\ e.previous_hash # ZeroHash
    BY <1>2, HashFacts DEF GrowsBy
  <2>2. compute_hash(Tip(ledger[n]))[2] = Tip(ledger[n])
    BY DEF compute_hash, Blake3
  <2> QED BY <1>2, <2>1, <2>2 DEF Predecessor, Log!End, Tip, Events
<1> QED BY <1>1, <1>2

\* A step that appends e to the ledger of n writes e in the abstract log.
LEMMA AppendWrites ==
    ASSUME NEW n \in Node, NEW e, GrowsBy(n, e),
           \A m \in Node \ {n} : ledger'[m] = ledger[m]
    PROVE  Log!Write(n, e)
<1> DEFINE place == [f \in published |-> Predecessor(f)]
           path == [m \in Node |-> Events(m)]
<1>1. Predecessor(e) = Log!End(Events(n))
  BY PlaceOfAppended
<1>2. path[n] = Events(n) /\ published' = published \cup {e}
  BY DEF GrowsBy
<1>3. e \in DOMAIN place => place[e] = Log!End(path[n])
  BY <1>1, <1>2
<1>4. [f \in published' |-> Predecessor(f)]
          = [f \in DOMAIN place \cup {e} |-> IF f = e THEN Log!End(path[n]) ELSE place[f]]
  BY <1>1, <1>2
<1>5. [m \in Node |-> Events(m)'] = [path EXCEPT ![n] = Append(@, e)]
  BY DEF GrowsBy, Events
<1> QED BY <1>3, <1>4, <1>5 DEF Log!Write

\* Every step of the ledgers is a step of the replicated log or leaves it
\* alone.
LEMMA StepRefines ==
    ASSUME IInv, [Next]_vars
    PROVE  [Log!Next]_(Log!logVars)
<1>1. CASE UNCHANGED vars
  BY <1>1 DEF vars, Log!logVars, Events
<1>2. CASE Next
  <2>1. PICK n \in Node : Frame /\ StepOf(n)
    BY <1>2, StepCases DEF IInv
  <2>2. CASE Stays(n)
    <3>1. [m \in Node |-> Events(m)'] = [m \in Node |-> Events(m)]
      BY <2>1, <2>2 DEF StepOf, Stays, Events
    <3> QED BY <2>2, <3>1 DEF Stays, Log!logVars
  <2>3. CASE ledger'[n] = EmptyLedger /\ published' = published
    <3>0. /\ Events(n)' = <<>>
          /\ \A m \in Node \ {n} : Events(m)' = Events(m)
      BY <2>1, <2>3 DEF StepOf, Events, EmptyLedger
    <3>1. [m \in Node |-> Events(m)'] = [[m \in Node |-> Events(m)] EXCEPT ![n] = <<>>]
      BY <3>0
    <3>2. Log!StartOver(n)
      BY <2>3, <3>1 DEF Log!StartOver
    <3> QED BY <3>2 DEF Log!Next
  <2>4. ASSUME NEW e \in published', GrowsBy(n, e)
        PROVE  Log!Next
    <3>1. Log!Write(n, e)
      BY <2>1, <2>4, AppendWrites DEF StepOf
    <3> QED BY <3>1 DEF Log!Next, Log!Growth
  <2> QED BY <2>1, <2>2, <2>3, <2>4 DEF StepOf
<1> QED BY <1>1, <1>2

\* The ledgers implement the replicated log, for any nodes, payloads and
\* clocks: all published events form one tree and each ledger is a path of it.
THEOREM ImplementsReplicatedLogHolds == Spec => ImplementsReplicatedLog
<1>1. Init => Log!Init
  BY DEF Init, Log!Init, Events, EmptyLedger
<1>2. IInv /\ [Next]_vars => [Log!Next]_(Log!logVars)
  BY StepRefines
<1> QED BY <1>1, <1>2, Invariance, PTL DEF Spec, Log!Spec, ImplementsReplicatedLog


-----------------------------------------------------------------------------
(* The content files and the renderer *)

\* What every state satisfies of the content files.  A file that is there and
\* that no writer has been cut short on holds its first part, or the writer
\* that last emptied it is still linked to it and about to write it; the same
\* for the second part; and its metadata is whole, or some writer is at it.
FileGood(h) ==
    (file[h].there /\ h \notin cut) =>
        /\ 1 \in file[h].parts \/ \E w \in Writer :
              writer[w].hash = h /\ writer[w].linked /\ writer[w].at = "opened"
        /\ 2 \in file[h].parts \/ \E w \in Writer :
              writer[w].hash = h /\ writer[w].linked /\ writer[w].at \in {"opened", "half"}
        /\ meta[h] = "whole" \/ \E w \in Writer :
              writer[w].hash = h /\ writer[w].at # "idle"

StoreTyped ==
    /\ file \in [Hash -> [there : BOOLEAN, parts : SUBSET {1, 2}]]
    /\ meta \in [Hash -> {"absent", "empty", "whole"}]
    /\ writer \in [Writer -> [hash : Hash \cup {NoHash}, linked : BOOLEAN,
                              at : {"idle", "opened", "half", "stored", "meta"}]]

StoreInv == StoreTyped /\ \A h \in Hash : FileGood(h)

\* The files of a node that has stored nothing.
LEMMA StoreInit == C!S!Init => StoreInv
<1> SUFFICES ASSUME C!S!Init PROVE StoreInv
  OBVIOUS
<1>1. StoreTyped
  BY DEF C!S!Init, C!S!Resting, StoreTyped
<1>2. ASSUME NEW h \in Hash PROVE FileGood(h)
  BY DEF C!S!Init, FileGood
<1> QED BY <1>1, <1>2 DEF StoreInv

\* put_content empties the file and makes its writer the one that owes both
\* parts and the metadata.
LEMMA PutKeeps == ASSUME StoreInv, NEW w \in Writer, NEW k \in Hash, C!S!put_content(w, k)
                  PROVE  StoreInv'
<1> USE DEF C!S!put_content
<1>1. StoreTyped'
  BY DEF StoreInv, StoreTyped
<1>2. ASSUME NEW h \in Hash PROVE FileGood(h)'
  <2>1. FileGood(h)
    BY DEF StoreInv
  <2>2. CASE h = k
    BY <2>2 DEF FileGood, StoreInv, StoreTyped
  <2>3. CASE h # k
    <3>1. /\ file'[h] = file[h] /\ meta' = meta /\ cut' = cut
          /\ \A v \in Writer : writer[v].at # "idle" => writer'[v] = writer[v]
      BY <2>3 DEF StoreInv, StoreTyped
    <3> QED BY <2>1, <3>1 DEF FileGood
  <2> QED BY <2>2, <2>3
<1> QED BY <1>1, <1>2 DEF StoreInv

\* A linked writer puts its part into the file it owes it to.
LEMMA WriteKeeps == ASSUME StoreInv, NEW w \in Writer, C!S!write_part(w)
                    PROVE  StoreInv'
<1>0. /\ writer[w].at \in {"opened", "half"}
      /\ meta' = meta /\ cut' = cut
      /\ writer' = [writer EXCEPT ![w].at = IF writer[w].at = "opened" THEN "half" ELSE "stored"]
  BY DEF C!S!write_part
<1> DEFINE part_no == IF writer[w].at = "opened" THEN 1 ELSE 2
<1>f. file' = IF writer[w].linked THEN [file EXCEPT ![writer[w].hash].parts = @ \cup {part_no}] ELSE file
  BY DEF C!S!write_part
<1>1. StoreTyped'
  <2>1. part_no \in {1, 2} /\ StoreTyped
    BY DEF StoreInv
  <2>2. file' \in [Hash -> [there : BOOLEAN, parts : SUBSET {1, 2}]]
    <3> HIDE DEF part_no
    <3>1. ASSUME NEW h \in Hash
          PROVE  [file[h] EXCEPT !.parts = @ \cup {part_no}] \in [there : BOOLEAN, parts : SUBSET {1, 2}]
      BY <2>1 DEF StoreTyped
    <3> QED BY <2>1, <3>1, <1>f DEF StoreTyped
  <2>3. writer' \in [Writer -> [hash : Hash \cup {NoHash}, linked : BOOLEAN,
                                at : {"idle", "opened", "half", "stored", "meta"}]]
    BY <2>1, <1>0 DEF StoreTyped
  <2> QED BY <2>1, <2>2, <2>3, <1>0 DEF StoreTyped
<1>2. ASSUME NEW h \in Hash PROVE FileGood(h)'
  <2>1. FileGood(h)
    BY DEF StoreInv
  <2>2. /\ file'[h].there = file[h].there
        /\ file[h].parts \subseteq file'[h].parts
        /\ (writer[w].linked /\ writer[w].hash = h) => part_no \in file'[h].parts
    BY <1>f DEF StoreInv, StoreTyped
  <2>3. /\ \A v \in Writer : writer'[v].hash = writer[v].hash /\ writer'[v].linked = writer[v].linked
        /\ \A v \in Writer \ {w} : writer'[v].at = writer[v].at
        /\ writer[w].at = "opened" => writer'[w].at = "half"
        /\ writer'[w].at # "idle"
    BY <1>0 DEF StoreInv, StoreTyped
  <2> QED BY <1>0, <2>1, <2>2, <2>3 DEF FileGood
<1> QED BY <1>1, <1>2 DEF StoreInv

\* The metadata is emptied and written by one writer, which is at it meanwhile.
LEMMA MetadataKeeps == ASSUME StoreInv, NEW w \in Writer, C!S!put_metadata(w)
                       PROVE  StoreInv'
<1> USE DEF C!S!put_metadata
<1>1. StoreTyped'
  <2>1. StoreTyped /\ file' = file
    BY DEF StoreInv
  <2>2. CASE writer[w].at = "stored"
    BY <2>1, <2>2 DEF StoreTyped
  <2>3. CASE writer[w].at = "meta"
    <3>1. C!S!Resting \in [hash : Hash \cup {NoHash}, linked : BOOLEAN,
                           at : {"idle", "opened", "half", "stored", "meta"}]
      BY DEF C!S!Resting
    <3>2. meta' = [meta EXCEPT ![writer[w].hash] = "whole"] /\ writer' = [writer EXCEPT ![w] = C!S!Resting]
      BY <2>3
    <3> QED BY <2>1, <3>1, <3>2 DEF StoreTyped
  <2> QED BY <2>2, <2>3
<1>2. ASSUME NEW h \in Hash PROVE FileGood(h)'
  <2>1. FileGood(h) /\ file' = file /\ cut' = cut
    BY DEF StoreInv
  <2>2. /\ \A v \in Writer \ {w} : writer'[v] = writer[v]
        /\ writer[w].at \in {"stored", "meta"}
    BY DEF StoreInv, StoreTyped
  <2>3. CASE writer[w].hash # h
    <3>1. meta'[h] = meta[h]
      BY <2>3 DEF StoreInv, StoreTyped
    <3> QED BY <2>1, <2>2, <2>3, <3>1 DEF FileGood
  <2>4. CASE writer[w].hash = h
    <3>1. meta'[h] = "whole" \/ (writer'[w].hash = h /\ writer'[w].at # "idle")
      BY <2>4 DEF StoreInv, StoreTyped
    <3> QED BY <2>1, <2>2, <2>4, <3>1 DEF FileGood
  <2> QED BY <2>3, <2>4
<1> QED BY <1>1, <1>2 DEF StoreInv

\* A writer that gives up owes nothing any more: its content counts as cut.
LEMMA GiveUpKeeps == ASSUME StoreInv, NEW w \in Writer, C!S!give_up(w)
                     PROVE  StoreInv'
<1> USE DEF C!S!give_up
<1>1. StoreTyped'
  BY DEF StoreInv, StoreTyped, C!S!Resting
<1>2. ASSUME NEW h \in Hash PROVE FileGood(h)'
  <2>1. FileGood(h) /\ file' = file /\ meta' = meta /\ cut' = cut \cup {writer[w].hash}
    BY DEF StoreInv
  <2>2. \A v \in Writer \ {w} : writer'[v] = writer[v]
    BY DEF StoreInv, StoreTyped
  <2> QED BY <2>1, <2>2 DEF FileGood
<1> QED BY <1>1, <1>2 DEF StoreInv

\* Deleting a content unlinks its writers; no other file is theirs.
LEMMA DeleteKeeps == ASSUME StoreInv, NEW k \in Hash, C!S!delete_content(k)
                     PROVE  StoreInv'
<1> USE DEF C!S!delete_content
<1>1. StoreTyped'
  BY DEF StoreInv, StoreTyped
<1>2. ASSUME NEW h \in Hash PROVE FileGood(h)'
  <2>1. FileGood(h) /\ meta' = meta /\ cut' = cut
    BY DEF StoreInv
  <2>2. CASE h = k
    BY <2>2 DEF FileGood, StoreInv, StoreTyped
  <2>3. CASE h # k
    <3>1. file'[h] = file[h] /\ \A v \in Writer : writer[v].hash = h => writer'[v] = writer[v]
      BY <2>3 DEF StoreInv, StoreTyped
    <3> QED BY <2>1, <3>1 DEF FileGood
  <2> QED BY <2>2, <2>3
<1> QED BY <1>1, <1>2 DEF StoreInv

\* Files nobody touches stay as they are.
LEMMA StoreStays == StoreInv /\ UNCHANGED C!store => StoreInv'
BY DEF C!store, StoreInv, StoreTyped, FileGood

LEMMA StoreStep == ASSUME StoreInv, C!S!Next PROVE StoreInv'
BY PutKeeps, WriteKeeps, MetadataKeeps, GiveUpKeeps, DeleteKeeps DEF C!S!Next

\* Where nobody owes a part any more, the file loads.
LEMMA StoreWhole == StoreInv => C!S!WholeUnlessCut
<1> SUFFICES ASSUME StoreInv, NEW h \in Hash, C!S!has_content(h), h \notin cut,
                    \A w \in Writer : writer[w].hash # h
             PROVE  C!S!load(h)
  BY DEF C!S!WholeUnlessCut
<1>1. FileGood(h) /\ file[h].there
  BY DEF StoreInv, C!S!has_content
<1>2. 1 \in file[h].parts /\ 2 \in file[h].parts /\ meta[h] = "whole"
  BY <1>1 DEF FileGood
<1>3. file[h].parts = {1, 2}
  BY <1>2 DEF StoreInv, StoreTyped
<1> QED BY <1>1, <1>2, <1>3 DEF C!S!load, C!S!get_content, C!S!Part

\* One step of the renderer or of the files.  What is served grows only in
\* handle_thing_content, after the gateway has looked at the bytes again.
LEMMA ContentStep == ASSUME StoreInv, C!ServedGenuine, C!Next
                     PROVE  StoreInv' /\ C!ServedGenuine'
<1>1. CASE C!S!Next /\ UNCHANGED C!renderer
  BY <1>1, StoreStep DEF C!renderer, C!ServedGenuine
<1>2. CASE UNCHANGED C!store /\ UNCHANGED served
  BY <1>2, StoreStays DEF C!ServedGenuine
<1>3. ASSUME NEW c \in Caller, C!handle_thing_content(c), UNCHANGED C!store
      PROVE  StoreInv' /\ C!ServedGenuine'
  <2>1. StoreInv'
    BY <1>3, StoreStays
  <2>2. \A s \in served' : s \in served \/ s[2] = "true"
    BY <1>3 DEF C!handle_thing_content, C!verify_content
  <2> QED BY <2>1, <2>2 DEF C!ServedGenuine
<1>4. \/ C!S!Next /\ UNCHANGED C!renderer
      \/ UNCHANGED C!store /\ UNCHANGED served
      \/ \E c \in Caller : C!handle_thing_content(c) /\ UNCHANGED C!store
  BY DEF C!Next, C!fetch_callback, C!fetch_from_network, C!render_content, C!prefetch,
         C!add_to_cache, C!stream_content, C!invalidate_cache, C!invalidate_all, C!restart
<1> QED BY <1>1, <1>2, <1>3, <1>4

\* The gateway answers 200 only with the bytes that were asked for, and writers
\* that come to their end leave files that load, for any number of contents,
\* callers and writers and any size of the cache (render_content,
\* handle_thing_content, Storage::put_content, Thing::save).
THEOREM ContentSoundHolds == LedgerSpec => []ContentSound
<1> DEFINE Serving == StoreInv /\ C!ServedGenuine
<1>1. LedgerInit => Serving
  BY StoreInit DEF LedgerInit, C!Init, C!ServedGenuine
<1>2. Serving /\ [LedgerNext]_all_vars => Serving'
  <2> SUFFICES ASSUME Serving, [LedgerNext]_all_vars PROVE Serving'
    OBVIOUS
  <2>1. CASE C!Next
    BY <2>1, ContentStep
  <2>2. CASE UNCHANGED C_vars
    BY <2>2, StoreStays DEF C_vars, C!store, C!ServedGenuine
  <2> QED BY <2>1, <2>2 DEF LedgerNext, all_vars
<1>3. Serving => ContentSound
  BY StoreWhole DEF ContentSound, C!ContentSound
<1> QED BY <1>1, <1>2, <1>3, PTL DEF LedgerSpec


-----------------------------------------------------------------------------
(* The ledger and its file *)

\* The events of a sequence.  Events hold the hashes of earlier ones, so that
\* there is no set of all events to draw them from.
Span(s) == {s[i] : i \in 1..Len(s)}
IsSeq(s) == s \in Seq(Span(s))

\* An event that was recorded or is a damaged one, no later than now.
Heard(e, now) ==
    /\ e = [ event_id |-> e.event_id, source_node |-> e.source_node, timestamp |-> e.timestamp,
             epoch |-> e.epoch, previous_hash |-> e.previous_hash, payload |-> e.payload ]
    /\ e.payload \in Payload \cup {ZeroPayload, TornPayload}
    /\ e.timestamp \in 0..now

AllHeard(s, now) == \A i \in 1..Len(s) : Heard(s[i], now)

Chain(s) ==
    /\ IsSeq(s)
    /\ \A i \in 1..Len(s) :
          s[i].previous_hash = IF i = 1 THEN ZeroHash ELSE compute_hash(s[i - 1])
    /\ \A i, j \in 1..Len(s) : s[i].event_id = s[j].event_id => i = j

\* A ledger in memory.  latest_hash may be stale after a load of nothing; the
\* tests of add_event do not use it.
MemGood(l) ==
    /\ Shape(l)
    /\ Chain(l.events)
    /\ DOMAIN l.event_lookup = {l.events[i].event_id : i \in 1..Len(l.events)}

\* The file module has operations of its own that are those of LedgerOps.
LEMMA SameAddEvent ==
    ASSUME NEW l, NEW e, NEW now
    PROVE  /\ F!add_event(l, e, now) = add_event(l, e, now)
           /\ F!compute_hash(e) = compute_hash(e)
           /\ F!ZeroHash = ZeroHash
           /\ F!EmptyLedger = EmptyLedger
<1>1. /\ F!compute_hash(e) = compute_hash(e) /\ F!ZeroHash = ZeroHash
      /\ F!compute_hash(Tip(l)) = compute_hash(Tip(l))
  BY DEF F!compute_hash, compute_hash, F!Blake3, Blake3, F!ZeroHash, ZeroHash
<1>2. F!EmptyLedger = EmptyLedger
  BY <1>1 DEF F!EmptyLedger, EmptyLedger
<1>3. F!Appended(l, e) = Appended(l, e)
  BY <1>1 DEF F!Appended, Appended, F!IndexByNode, IndexByNode
<1>4. F!verify_event(l, e, now) <=> verify_event(l, e, now)
  BY <1>1 DEF F!verify_event, verify_event, F!verify_event_chain, verify_event_chain, F!Tip, Tip,
              F!TooFarAhead, TooFarAhead, F!IsKnown, IsKnown
<1> QED BY <1>1, <1>2, <1>3, <1>4 DEF F!add_event, add_event

LEMMA SpanFacts ==
    ASSUME NEW s
    PROVE  /\ IsSeq(s) => \A S : Span(s) \subseteq S => s \in Seq(S)
           /\ \A S : s \in Seq(S) => IsSeq(s) /\ Span(s) \subseteq S
<1>1. ASSUME IsSeq(s), NEW S, Span(s) \subseteq S PROVE s \in Seq(S)
  <2> HIDE DEF Span
  <2> QED BY <1>1 DEF IsSeq
<1>2. ASSUME NEW S, s \in Seq(S) PROVE IsSeq(s) /\ Span(s) \subseteq S
  <2>1. Len(s) \in Nat /\ s = [i \in 1..Len(s) |-> s[i]] /\ \A i \in 1..Len(s) : s[i] \in S
    BY <1>2
  <2>2. s \in [1..Len(s) -> Span(s)]
    BY <2>1 DEF Span
  <2>3. s \in Seq(Span(s))
    <3> HIDE DEF Span
    <3> QED BY <2>1, <2>2
  <2> QED BY <2>1, <2>3 DEF IsSeq, Span
<1> QED BY <1>1, <1>2

\* A sequence of any events, one longer.
LEMMA SpanAppend ==
    ASSUME NEW s, IsSeq(s), NEW e
    PROVE  /\ Len(s) \in Nat
           /\ IsSeq(Append(s, e))
           /\ Len(Append(s, e)) = Len(s) + 1
           /\ Append(s, e)[Len(s) + 1] = e
           /\ \A i \in 1..Len(s) : Append(s, e)[i] = s[i]
           /\ Append(s, e) # <<>>
           /\ s = <<>> <=> Len(s) = 0
<1> DEFINE S == Span(s) \cup {e}
<1>1. s \in Seq(S) /\ e \in S
  BY SpanFacts
<1> HIDE DEF S
<1>2. Append(s, e) \in Seq(S)
  BY <1>1, AppendFacts
<1>3. IsSeq(Append(s, e))
  BY <1>2, SpanFacts
<1> QED BY <1>1, <1>3, AppendFacts

\* add_event refuses the event or appends one that keeps the chain.
LEMMA AddKeepsChain ==
    ASSUME NEW l, MemGood(l), NEW e, NEW now
    PROVE  /\ MemGood(add_event(l, e, now))
           /\ add_event(l, e, now).event_counter = l.event_counter
           /\ \/ add_event(l, e, now) = l
              \/ /\ add_event(l, e, now).events = Append(l.events, e)
                 /\ e.previous_hash = IF l.events = <<>> THEN ZeroHash ELSE compute_hash(Tip(l))
<1> DEFINE a == Appended(l, e)
           s == l.events
           N == Len(s)
<1>1. CASE ~verify_event(l, e, now)
  BY <1>1 DEF add_event
<1>2. CASE verify_event(l, e, now)
  <2>0. add_event(l, e, now) = a /\ IsSeq(s)
    BY <1>2 DEF add_event, MemGood, Chain
  <2>1. /\ a.events = Append(s, e) /\ a.event_counter = l.event_counter /\ Shape(a)
        /\ DOMAIN a.event_lookup = DOMAIN l.event_lookup \cup {e.event_id}
    BY DEF Appended, Shape
  <2>2. /\ N \in Nat /\ IsSeq(a.events) /\ Len(a.events) = N + 1 /\ a.events[N + 1] = e
        /\ \A i \in 1..N : a.events[i] = s[i]
        /\ s = <<>> <=> N = 0
    BY <2>0, <2>1, SpanAppend
  <2>3. /\ e.previous_hash = IF s = <<>> THEN ZeroHash ELSE compute_hash(Tip(l))
        /\ e.event_id \notin DOMAIN l.event_lookup
    BY <1>2 DEF verify_event, verify_event_chain, IsKnown
  <2>4. Tip(l) = s[N]
    BY DEF Tip
  <2>5. /\ \A i \in 1..N : s[i].previous_hash = IF i = 1 THEN ZeroHash ELSE compute_hash(s[i - 1])
        /\ \A i, j \in 1..N : s[i].event_id = s[j].event_id => i = j
        /\ DOMAIN l.event_lookup = {s[i].event_id : i \in 1..N}
    BY DEF MemGood, Chain
  <2> HIDE DEF a, s, N
  <2>6. ASSUME NEW i \in 1..(N + 1)
        PROVE  a.events[i].previous_hash = IF i = 1 THEN ZeroHash ELSE compute_hash(a.events[i - 1])
    <3>1. CASE i = N + 1
      BY <2>2, <2>3, <2>4, <3>1
    <3>2. CASE i # N + 1
      <4>1. i \in 1..N /\ (i = 1 \/ i - 1 \in 1..N)
        BY <2>2, <3>2
      <4> QED BY <2>2, <2>5, <4>1
    <3> QED BY <3>1, <3>2
  <2>7. \A i, j \in 1..(N + 1) : a.events[i].event_id = a.events[j].event_id => i = j
    <3>1. \A i \in 1..N : s[i].event_id # e.event_id
      BY <2>3, <2>5
    <3>2. \A i \in 1..(N + 1) : i = N + 1 \/ i \in 1..N
      BY <2>2
    <3>3. \A i \in 1..N : a.events[i].event_id = s[i].event_id /\ a.events[i].event_id # e.event_id
      BY <2>2, <3>1
    <3>4. a.events[N + 1].event_id = e.event_id
      BY <2>2
    <3>5. \A i, j \in 1..N : a.events[i].event_id = a.events[j].event_id => i = j
      BY <2>5, <3>3
    <3> QED BY <3>2, <3>3, <3>4, <3>5
  <2>8. DOMAIN a.event_lookup = {a.events[i].event_id : i \in 1..(N + 1)}
    <3>0. /\ N + 1 \in 1..(N + 1)
          /\ \A i \in 1..(N + 1) : i = N + 1 \/ i \in 1..N
          /\ \A i \in 1..N : i \in 1..(N + 1)
      BY <2>2
    <3>1. ASSUME NEW x \in DOMAIN a.event_lookup PROVE \E i \in 1..(N + 1) : x = a.events[i].event_id
      <4>1. CASE x = e.event_id
        BY <2>2, <3>0, <4>1
      <4>2. CASE x \in DOMAIN l.event_lookup
        <5>1. PICK i \in 1..N : x = s[i].event_id
          BY <2>5, <4>2
        <5> QED BY <2>2, <3>0, <5>1
      <4> QED BY <2>1, <4>1, <4>2
    <3>2. ASSUME NEW i \in 1..(N + 1) PROVE a.events[i].event_id \in DOMAIN a.event_lookup
      <4>1. CASE i = N + 1
        BY <2>1, <2>2, <4>1
      <4>2. CASE i \in 1..N
        BY <2>1, <2>2, <2>5, <4>2
      <4> QED BY <3>0, <4>1, <4>2
    <3> QED BY <3>1, <3>2
  <2>9. MemGood(a)
    BY <2>1, <2>2, <2>6, <2>7, <2>8 DEF MemGood, Chain
  <2> QED BY <2>0, <2>1, <2>3, <2>9 DEF s
<1> QED BY <1>1, <1>2

\* add_event takes an event that is linked, new and not ahead of its time.
LEMMA AddTakes ==
    ASSUME NEW l, MemGood(l), NEW e, NEW now \in Nat,
           e.timestamp \in 0..now,
           \A i \in 1..Len(l.events) : l.events[i].event_id # e.event_id,
           e.previous_hash = IF l.events = <<>> THEN ZeroHash ELSE compute_hash(Tip(l))
    PROVE  add_event(l, e, now).events = Append(l.events, e)
<1>1. ~IsKnown(l, e.event_id)
  BY DEF IsKnown, MemGood
<1>2. ~TooFarAhead(e, now)
  BY SkewAssumption DEF TooFarAhead
<1>3. verify_event(l, e, now)
  BY <1>1, <1>2 DEF verify_event, verify_event_chain
<1> QED BY <1>3 DEF add_event, Appended

ReplayRun(f, l, s, now, k) ==
    f = [i \in 0..k |-> IF i = 0 THEN l ELSE F!add_event(f[i - 1], s[i], now)]

\* The function Replay defines by recursion exists.
LEMMA ReplayRunExists ==
    ASSUME NEW l, NEW s, Len(s) \in Nat, NEW now
    PROVE  \E f : ReplayRun(f, l, s, now, Len(s))
<1> DEFINE T == {k \in 0..Len(s) : ~ \E f : ReplayRun(f, l, s, now, k)}
<1>1. SUFFICES ASSUME T # {} PROVE FALSE
  OBVIOUS
<1>2. T \in SUBSET Nat
  OBVIOUS
<1>3. PICK k \in T : \A j \in T : k <= j
  <2> HIDE DEF T
  <2> QED BY <1>1, <1>2, LeastNumber
<1>4. k # 0
  <2>1. ReplayRun([i \in 0..0 |-> l], l, s, now, 0)
    BY DEF ReplayRun
  <2> QED BY <2>1
<1>5. k - 1 \in 0..Len(s) /\ k \in 1..Len(s)
  BY <1>4
<1>6. PICK f : ReplayRun(f, l, s, now, k - 1)
  BY <1>3, <1>5
<1>7. f = [i \in 0..(k - 1) |-> IF i = 0 THEN l ELSE F!add_event(f[i - 1], s[i], now)]
  BY <1>6 DEF ReplayRun
<1> DEFINE new == F!add_event(f[k - 1], s[k], now)
           g == [i \in 0..k |-> IF i = k THEN new ELSE f[i]]
<1>8. ASSUME NEW i \in 0..k
      PROVE  g[i] = IF i = 0 THEN l ELSE F!add_event(g[i - 1], s[i], now)
  <2>1. CASE i = k
    <3>1. g[k - 1] = f[k - 1] /\ g[k] = new
      BY <1>5
    <3> QED BY <1>4, <2>1, <3>1
  <2>2. CASE i # k
    <3>1. g[i] = f[i] /\ i \in 0..(k - 1) /\ (i # 0 => g[i - 1] = f[i - 1])
      BY <1>5, <2>2
    <3>2. f[i] = IF i = 0 THEN l ELSE F!add_event(f[i - 1], s[i], now)
      BY <1>7, <3>1
    <3> QED BY <3>1, <3>2
  <2> QED BY <2>1, <2>2
<1>9. g = [i \in 0..k |-> g[i]]
  OBVIOUS
<1> HIDE DEF g, new
<1>10. ReplayRun(g, l, s, now, k)
  BY <1>8, <1>9 DEF ReplayRun
<1> QED BY <1>10

\* What is in memory when k events of the file have been read: n of them are
\* whole frames, which all have been taken.
Reread(a, l, f, t, n, k) ==
    /\ MemGood(a)
    /\ a.event_counter = l.event_counter
    /\ Len(a.events) <= k
    /\ Len(a.events) >= IF k <= n THEN k ELSE n
    /\ \A i \in 1..n : i <= k => a.events[i] = f[i]
    /\ \A i \in 1..Len(a.events) : a.events[i] \in Span(f) \cup Span(t)

\* One more event of the file.
LEMMA ReadOne ==
    ASSUME NEW l, NEW f, NEW t, NEW n \in Nat, NEW k \in Nat, NEW now \in Nat,
           Chain(f), AllHeard(f, now), n = Len(f),
           NEW a, Reread(a, l, f, t, n, k), NEW e,
           IF k + 1 <= n THEN e = f[k + 1] ELSE e \in Span(t)
    PROVE  Reread(add_event(a, e, now), l, f, t, n, k + 1)
<1> DEFINE b == add_event(a, e, now)
           s == a.events
<1>1. /\ MemGood(a) /\ a.event_counter = l.event_counter
      /\ Len(s) <= k /\ Len(s) >= IF k <= n THEN k ELSE n
      /\ \A i \in 1..n : i <= k => s[i] = f[i]
      /\ \A i \in 1..Len(s) : s[i] \in Span(f) \cup Span(t)
  BY DEF Reread
<1>2. /\ MemGood(b) /\ b.event_counter = l.event_counter
      /\ b = a \/ b.events = Append(s, e)
  BY <1>1, AddKeepsChain
<1>3. IsSeq(s)
  BY <1>1 DEF MemGood, Chain
<1>4. /\ Len(s) \in Nat /\ Len(Append(s, e)) = Len(s) + 1 /\ Append(s, e)[Len(s) + 1] = e
      /\ \A i \in 1..Len(s) : Append(s, e)[i] = s[i]
      /\ s = <<>> <=> Len(s) = 0
  BY <1>3, SpanAppend
<1>5. e \in Span(f) \cup Span(t)
  <2>1. CASE k + 1 <= n
    <3>1. k + 1 \in 1..Len(f)
      BY <2>1
    <3> QED BY <2>1, <3>1 DEF Span
  <2> QED BY <2>1
<1>6. CASE k + 1 <= n
  <2>1. Len(s) = k /\ \A i \in 1..k : s[i] = f[i] /\ i \in 1..n
    BY <1>1, <1>4, <1>6
  <2>2. /\ k + 1 \in 1..n /\ e = f[k + 1]
        /\ e.timestamp \in 0..now
        /\ e.previous_hash = IF k + 1 = 1 THEN ZeroHash ELSE compute_hash(f[k])
        /\ \A i \in 1..n : f[i].event_id = e.event_id => i = k + 1
    <3>1. k + 1 \in 1..n /\ e = f[k + 1] /\ (k + 1) - 1 = k
      BY <1>6
    <3>2. Heard(f[k + 1], now)
      BY <3>1 DEF AllHeard
    <3>3. /\ f[k + 1].previous_hash = IF k + 1 = 1 THEN ZeroHash ELSE compute_hash(f[(k + 1) - 1])
          /\ \A i \in 1..n : f[i].event_id = f[k + 1].event_id => i = k + 1
      BY <3>1 DEF Chain
    <3> QED BY <3>1, <3>2, <3>3 DEF Heard
  <2>3. \A i \in 1..k : s[i].event_id # e.event_id
    BY <2>1, <2>2
  <2>4. e.previous_hash = IF s = <<>> THEN ZeroHash ELSE compute_hash(Tip(a))
    <3>1. k = 0 \/ k \in 1..k
      OBVIOUS
    <3> QED BY <1>4, <2>1, <2>2, <3>1 DEF Tip
  <2>5. b.events = Append(s, e)
    BY <1>1, <2>1, <2>2, <2>3, <2>4, AddTakes
  <2> HIDE DEF b, s
  <2>6. \A i \in 1..n : i <= k + 1 => Append(s, e)[i] = f[i]
    BY <1>4, <2>1, <2>2
  <2>7. \A i \in 1..(k + 1) : Append(s, e)[i] \in Span(f) \cup Span(t)
    BY <1>1, <1>4, <1>5, <2>1
  <2>8. Reread(b, l, f, t, n, k + 1)
    BY <1>2, <1>4, <1>6, <2>1, <2>5, <2>6, <2>7 DEF Reread
  <2> QED BY <2>8 DEF b
<1>7. CASE ~(k + 1 <= n)
  <2>1. n <= k /\ Len(s) >= n /\ \A i \in 1..n : s[i] = f[i] /\ i \in 1..Len(s)
    BY <1>1, <1>4, <1>7
  <2> HIDE DEF b, s
  <2>2. CASE b = a
    <3>1. /\ Len(b.events) \in Nat /\ Len(b.events) <= k + 1 /\ Len(b.events) >= n
          /\ \A i \in 1..n : b.events[i] = f[i]
          /\ \A i \in 1..Len(b.events) : b.events[i] \in Span(f) \cup Span(t)
      BY <1>1, <1>4, <2>1, <2>2 DEF s
    <3> QED BY <1>2, <1>7, <3>1 DEF Reread, b
  <2>3. CASE b.events = Append(s, e)
    <3>1. /\ Len(b.events) \in Nat /\ Len(b.events) <= k + 1 /\ Len(b.events) >= n
          /\ \A i \in 1..n : b.events[i] = f[i]
          /\ \A i \in 1..Len(b.events) : b.events[i] \in Span(f) \cup Span(t)
      BY <1>1, <1>4, <1>5, <2>1, <2>3
    <3> QED BY <1>2, <1>7, <3>1 DEF Reread, b
  <2> QED BY <1>2, <2>2, <2>3
<1> QED BY <1>6, <1>7

\* What load_from_file makes of the whole frames f and what it reads after them.
LEMMA ReplayRereads ==
    ASSUME NEW l, MemGood(l), l.events = <<>>, NEW now \in Nat,
           NEW f, Chain(f), AllHeard(f, now), NEW t, IsSeq(t)
    PROVE  LET r == F!Replay(l, f \o t, now) IN
           /\ Reread(r, l, f, t, Len(f), Len(f) + Len(t))
           /\ (Len(t) = 2 /\ t[2] = F!ZeroEvent) => Len(r.events) <= Len(f) + 1
<1> DEFINE s == f \o t
           n == Len(f)
           m == Len(t)
           h == CHOOSE g : ReplayRun(g, l, s, now, Len(s))
           T == {k \in 0..(n + m) : ~ Reread(h[k], l, f, t, n, k)}
<1>1. /\ n \in Nat /\ m \in Nat /\ Len(s) = n + m
      /\ \A i \in 1..n : s[i] = f[i]
      /\ \A i \in 1..m : s[n + i] = t[i]
  <2> DEFINE S == Span(f) \cup Span(t)
  <2>1. f \in Seq(S) /\ t \in Seq(S)
    BY SpanFacts DEF Chain
  <2> HIDE DEF S
  <2> QED BY <2>1
<1>2. ReplayRun(h, l, s, now, n + m)
  <2>1. Len(s) \in Nat
    BY <1>1
  <2>2. \E g : ReplayRun(g, l, s, now, Len(s))
    <3> HIDE DEF s
    <3> QED BY <2>1, ReplayRunExists
  <2> QED BY <1>1, <2>2
<1>3. F!Replay(l, s, now) = h[n + m]
  BY <1>1 DEF F!Replay, ReplayRun
<1> HIDE DEF h, s, n, m
<1>4. ASSUME NEW k \in 0..(n + m)
      PROVE  h[k] = IF k = 0 THEN l ELSE add_event(h[k - 1], s[k], now)
  BY <1>2, SameAddEvent DEF ReplayRun
<1>5. ASSUME T # {} PROVE FALSE
  <2>1. T \in SUBSET Nat
    BY <1>1
  <2>2. PICK k \in T : \A j \in T : k <= j
    <3> HIDE DEF T
    <3> QED BY <1>5, <2>1, LeastNumber
  <2>3. CASE k = 0
    <3>1. h[0] = l /\ Len(l.events) = 0
      BY <1>1, <1>4
    <3>2. Reread(l, l, f, t, n, 0)
      BY <1>1, <3>1 DEF Reread
    <3> QED BY <2>2, <2>3, <3>1, <3>2
  <2>4. CASE k # 0
    <3>1. k \in 1..(n + m) /\ k - 1 \in 0..(n + m) /\ k - 1 \in Nat /\ (k - 1) + 1 = k
      BY <1>1, <2>4
    <3>2. Reread(h[k - 1], l, f, t, n, k - 1) /\ h[k] = add_event(h[k - 1], s[k], now)
      BY <1>4, <2>2, <2>4, <3>1
    <3>3. IF (k - 1) + 1 <= n THEN s[k] = f[(k - 1) + 1] ELSE s[k] \in Span(t)
      <4>1. CASE k <= n
        BY <1>1, <3>1, <4>1
      <4>2. CASE ~(k <= n)
        <5>1. k - n \in 1..m /\ n + (k - n) = k
          BY <1>1, <3>1, <4>2
        <5> QED BY <1>1, <3>1, <4>2, <5>1 DEF Span, m
      <4> QED BY <4>1, <4>2
    <3>4. Reread(h[k], l, f, t, n, (k - 1) + 1)
      <4>1. n = Len(f) /\ n \in Nat /\ Chain(f) /\ AllHeard(f, now)
        BY <1>1 DEF n
      <4>2. PICK j \in Nat : j = k - 1
        BY <3>1
      <4>3. Reread(h[j], l, f, t, n, j) /\ IF j + 1 <= n THEN s[k] = f[j + 1] ELSE s[k] \in Span(t)
        BY <3>2, <3>3, <4>2
      <4>4. Reread(add_event(h[j], s[k], now), l, f, t, n, j + 1)
        BY <4>1, <4>3, ReadOne
      <4> QED BY <3>2, <4>2, <4>4
    <3> QED BY <2>2, <3>1, <3>4
  <2> QED BY <2>3, <2>4
<1>6. \A k \in 0..(n + m) : Reread(h[k], l, f, t, n, k)
  BY <1>5
<1>7. Reread(h[n + m], l, f, t, n, n + m)
  BY <1>1, <1>6
<1>8. ASSUME m = 2, t[2] = F!ZeroEvent PROVE Len(h[n + m].events) <= n + 1
  <2>1. /\ n + 1 \in 0..(n + m) /\ n + m \in 0..(n + m) /\ n + m # 0 /\ (n + m) - 1 = n + 1
        /\ s[n + m] = F!ZeroEvent
    BY <1>1, <1>8
  <2>2. PICK a : a = h[n + 1]
    OBVIOUS
  <2>3. MemGood(a) /\ Len(a.events) <= n + 1
    BY <1>6, <2>1, <2>2 DEF Reread
  <2>4. h[n + m] = add_event(a, F!ZeroEvent, now)
    BY <1>4, <2>1, <2>2
  <2>5. h[n + m] = a \/ a.events = <<>>
    <3>1. F!ZeroEvent.previous_hash = ZeroHash
      BY SameAddEvent DEF F!ZeroEvent
    <3> QED BY <2>3, <2>4, <3>1, AddKeepsChain, HashFacts
  <2>6. CASE h[n + m] = a
    BY <2>3, <2>6
  <2>7. CASE a.events = <<>>
    <3>1. IsSeq(a.events)
      BY <2>3 DEF MemGood, Chain
    <3>2. Len(a.events) = 0 /\ Len(Append(a.events, F!ZeroEvent)) = 1
      BY <2>7, <3>1, SpanAppend
    <3>3. h[n + m] = a \/ h[n + m].events = Append(a.events, F!ZeroEvent)
      BY <2>3, <2>4, AddKeepsChain
    <3> QED BY <1>1, <3>2, <3>3
  <2> QED BY <2>5, <2>6, <2>7
<1> QED BY <1>3, <1>7, <1>8 DEF s, n, m

\* The inductive invariant of one ledger and its file: both are chains, and so
\* much of the file as is lost was a chain's end.
FileInv ==
    /\ file_clock \in 0..FileMaxTime
    /\ MemGood(mem) /\ mem.event_counter \in 0..MaxCounter /\ AllHeard(mem.events, file_clock)
    /\ Chain(disk.frames) /\ AllHeard(disk.frames, file_clock)
    /\ IsSeq(disk.lost) /\ AllHeard(disk.lost, file_clock)

LEMMA EmptyChain == IsSeq(<<>>) /\ Chain(<<>>) /\ \A now : AllHeard(<<>>, now)
<1>1. <<>> \in Seq(Span(<<>>))
  OBVIOUS
<1> QED BY <1>1 DEF Chain, IsSeq, AllHeard

LEMMA EmptyMemGood ==
    ASSUME NEW l, Shape(l), l.events = <<>>, l.event_lookup = [id \in {} |-> 0]
    PROVE  MemGood(l)
BY EmptyChain DEF MemGood

\* A part of a chain, from its start or to its end.
LEMMA CutFacts ==
    ASSUME NEW s, Chain(s), NEW now, AllHeard(s, now), NEW j \in 1..(Len(s) + 1), NEW k \in -1..Len(s)
    PROVE  /\ Chain(SubSeq(s, 1, k)) /\ AllHeard(SubSeq(s, 1, k), now)
           /\ IsSeq(SubSeq(s, j, Len(s))) /\ AllHeard(SubSeq(s, j, Len(s)), now)
<1> DEFINE S == Span(s)
           n == Len(s)
           f == SubSeq(s, 1, k)
           t == SubSeq(s, j, n)
<1>1. s \in Seq(S) /\ n \in Nat
  BY DEF Chain, IsSeq
<1> HIDE DEF S
<1>2. /\ f \in Seq(S) /\ Len(f) = (IF k < 0 THEN 0 ELSE k)
      /\ \A i \in 1..Len(f) : f[i] = s[i] /\ i \in 1..n
  <2>1. CASE k <= 0
    <3>1. f = <<>>
      BY <1>1, <2>1
    <3> QED BY <2>1, <3>1
  <2>2. CASE k > 0
    BY <1>1, <2>2
  <2> QED BY <2>1, <2>2
<1>3. /\ t \in Seq(S) /\ Len(t) = n - j + 1
      /\ \A i \in 1..Len(t) : t[i] = s[i + j - 1] /\ i + j - 1 \in 1..n
  <2>1. CASE j = n + 1
    <3>1. t = <<>>
      BY <1>1, <2>1
    <3> QED BY <1>1, <2>1, <3>1
  <2>2. CASE j \in 1..n
    BY <1>1, <2>2
  <2> QED BY <1>1, <2>1, <2>2
<1>4. IsSeq(f) /\ IsSeq(t)
  BY <1>2, <1>3, SpanFacts
<1> HIDE DEF f, t
<1>5. AllHeard(f, now) /\ AllHeard(t, now)
  BY <1>2, <1>3 DEF AllHeard
<1>6. ASSUME NEW i \in 1..Len(f)
      PROVE  f[i].previous_hash = IF i = 1 THEN ZeroHash ELSE compute_hash(f[i - 1])
  <2>1. Len(f) \in Nat /\ i \in 1..n /\ (i = 1 \/ i - 1 \in 1..Len(f))
    BY <1>2
  <2>2. f[i] = s[i] /\ (i # 1 => f[i - 1] = s[i - 1])
    BY <1>2, <2>1
  <2>3. s[i].previous_hash = IF i = 1 THEN ZeroHash ELSE compute_hash(s[i - 1])
    BY <2>1 DEF Chain
  <2> QED BY <2>2, <2>3
<1>7. \A i, i2 \in 1..Len(f) : f[i].event_id = f[i2].event_id => i = i2
  BY <1>2 DEF Chain
<1> QED BY <1>4, <1>5, <1>6, <1>7 DEF Chain, f, t

\* Whatever load_from_file decodes of damaged bytes has a time of the past.
LEMMA TailFacts ==
    ASSUME FileInv, NEW t \in F!Tails(disk)
    PROVE  /\ IsSeq(t) /\ AllHeard(t, file_clock)
           /\ Len(t) \in 0..2 /\ (Len(t) = 2 => t[2] = F!ZeroEvent)
           /\ (~disk.headless /\ disk.lost = <<>>) => t = <<>>
<1> DEFINE now == file_clock
           Z == F!ZeroEvent
           Damaged(u) == IsSeq(u) /\ AllHeard(u, now) /\ Len(u) \in 0..2 /\ (Len(u) = 2 => u[2] = Z)
<1>0. now \in Nat
  BY FileAssumption DEF FileInv
<1>1. Heard(Z, now)
  BY <1>0 DEF F!ZeroEvent, Heard
<1>2. ASSUME NEW e, Heard(e, now), NEW x \in F!TornFrames(e) PROVE Heard(x, now)
  <2>1. CASE x = [e EXCEPT !.payload = TornPayload]
    BY <1>2, <2>1 DEF Heard
  <2>2. CASE x = [e EXCEPT !.previous_hash = F!ZeroHash, !.payload = ZeroPayload]
    BY <1>2, <2>2 DEF Heard
  <2> QED BY <1>1, <1>2, <2>1, <2>2 DEF F!TornFrames
<1> HIDE DEF Z, now, Damaged
<1>3. ASSUME NEW x, Heard(x, now)
      PROVE  Damaged(<<x>>) /\ Damaged(<<x, Z>>)
  <2>1. <<x>> \in Seq({x}) /\ <<x, Z>> \in Seq({x, Z})
    OBVIOUS
  <2>2. IsSeq(<<x>>) /\ IsSeq(<<x, Z>>)
    BY <2>1, SpanFacts
  <2>3. AllHeard(<<x>>, now) /\ AllHeard(<<x, Z>>, now)
    BY <1>1, <1>3 DEF AllHeard
  <2>4. /\ Len(<<x>>) \in 0..2 /\ Len(<<x>>) # 2
        /\ Len(<<x, Z>>) \in 0..2 /\ <<x, Z>>[2] = Z
    OBVIOUS
  <2> QED BY <2>2, <2>3, <2>4 DEF Damaged
<1>4. t = <<>> => Damaged(t)
  BY EmptyChain DEF Damaged
<1>5. t = <<Z>> => Damaged(t)
  BY <1>1, <1>3
<1>6. ASSUME disk.lost # <<>>, NEW x \in F!TornFrames(disk.lost[1]), t = <<x>> \/ t = <<x, Z>>
      PROVE  Damaged(t)
  <2>1. Heard(disk.lost[1], now)
    <3>1. Len(disk.lost) \in Nat /\ Len(disk.lost) # 0
      BY <1>6, SpanAppend DEF FileInv
    <3> QED BY <3>1 DEF FileInv, AllHeard, now
  <2>2. Heard(x, now)
    BY <1>2, <1>6, <2>1
  <2> QED BY <1>3, <1>6, <2>2
<1>7. \/ t = <<>>
      \/ disk.headless /\ t = <<Z>>
      \/ disk.lost # <<>> /\ \E x \in F!TornFrames(disk.lost[1]) : t = <<x>> \/ t = <<x, Z>>
  BY DEF F!Tails, Z
<1>8. (~disk.headless /\ disk.lost = <<>>) => t = <<>>
  BY DEF F!Tails
<1> QED BY <1>4, <1>5, <1>6, <1>7, <1>8 DEF now, Z, Damaged

\* What a load would leave in memory, from any state.
LEMMA LoadFacts ==
    ASSUME FileInv, NEW t \in F!Tails(disk)
    PROVE  LET r == F!Replay(F!Cleared(mem), disk.frames \o t, file_clock) IN
           /\ MemGood(r) /\ r.event_counter = mem.event_counter
           /\ AllHeard(r.events, file_clock)
           /\ Len(r.events) \in Len(disk.frames)..(Len(disk.frames) + 1)
           /\ \A i \in 1..Len(disk.frames) : r.events[i] = disk.frames[i]
           /\ t = <<>> => Len(r.events) = Len(disk.frames)
<1> DEFINE l == F!Cleared(mem)
           f == disk.frames
           r == F!Replay(l, f \o t, file_clock)
<1>1. /\ IsSeq(t) /\ AllHeard(t, file_clock)
      /\ Len(t) \in 0..2 /\ (Len(t) = 2 => t[2] = F!ZeroEvent)
      /\ t = <<>> => Len(t) = 0
  BY TailFacts
<1>2. MemGood(l) /\ l.events = <<>> /\ l.event_counter = mem.event_counter
  <2>1. l.events = <<>> /\ l.event_lookup = [id \in {} |-> 0] /\ Shape(l) /\ l.event_counter = mem.event_counter
    <3>1. PICK u, v : u = [id \in {} |-> 0] /\ v = [x \in {} |-> <<>>]
      OBVIOUS
    <3>2. F!EmptyLedger = [events |-> <<>>, event_lookup |-> u, events_by_node |-> v,
                           latest_hash |-> F!ZeroHash, event_counter |-> 0]
      BY <3>1 DEF F!EmptyLedger
    <3>3. l = [events |-> <<>>, event_lookup |-> u, events_by_node |-> v,
               latest_hash |-> mem.latest_hash, event_counter |-> mem.event_counter]
      <4>1. l = [F!EmptyLedger EXCEPT !.latest_hash = mem.latest_hash, !.event_counter = mem.event_counter]
        BY DEF F!Cleared
      <4> HIDE DEF l
      <4>2. PICK w : w = F!EmptyLedger
        OBVIOUS
      <4>3. w = [events |-> <<>>, event_lookup |-> u, events_by_node |-> v,
                 latest_hash |-> F!ZeroHash, event_counter |-> 0]
        BY <3>2, <4>2
      <4>4. l = [w EXCEPT !.latest_hash = mem.latest_hash, !.event_counter = mem.event_counter]
        BY <4>1, <4>2
      <4> QED BY <4>3, <4>4
    <3> HIDE DEF l
    <3> QED BY <3>1, <3>3 DEF Shape
  <2> QED BY <2>1, EmptyMemGood
<1>3. Chain(f) /\ AllHeard(f, file_clock) /\ file_clock \in Nat /\ Len(f) \in Nat
  <2>1. Chain(f) /\ AllHeard(f, file_clock) /\ file_clock \in Nat
    BY FileAssumption DEF FileInv
  <2> QED BY <2>1, SpanAppend DEF Chain
<1> HIDE DEF l, f
<1>4. /\ Reread(r, l, f, t, Len(f), Len(f) + Len(t))
      /\ (Len(t) = 2 /\ t[2] = F!ZeroEvent) => Len(r.events) <= Len(f) + 1
  BY <1>1, <1>2, <1>3, ReplayRereads
<1> HIDE DEF r
<1>5. /\ MemGood(r) /\ r.event_counter = mem.event_counter
      /\ Len(r.events) <= Len(f) + Len(t) /\ Len(r.events) >= Len(f)
      /\ \A i \in 1..Len(f) : r.events[i] = f[i]
      /\ \A i \in 1..Len(r.events) : r.events[i] \in Span(f) \cup Span(t)
  <2>1. Len(f) + Len(t) \in Nat /\ (Len(f) + Len(t) <= Len(f) => Len(f) + Len(t) = Len(f))
        /\ \A i \in 1..Len(f) : i <= Len(f) + Len(t)
    BY <1>1, <1>3
  <2> QED BY <1>2, <1>4, <2>1 DEF Reread
<1>6. Len(r.events) \in Nat
  BY <1>5, SpanAppend DEF MemGood, Chain
<1>7. Len(r.events) \in Len(f)..(Len(f) + 1) /\ (t = <<>> => Len(r.events) = Len(f))
  <2>1. CASE Len(t) = 0
    BY <1>3, <1>5, <1>6, <2>1
  <2>2. CASE Len(t) # 0
    <3>1. t # <<>> /\ Len(t) \in {1, 2}
      BY <1>1, <2>2
    <3>2. Len(r.events) <= Len(f) + 1
      BY <1>1, <1>3, <1>4, <1>5, <1>6, <3>1
    <3> QED BY <1>3, <1>5, <1>6, <3>1, <3>2
  <2> QED BY <2>1, <2>2
<1>8. AllHeard(r.events, file_clock)
  <2>1. \A e \in Span(f) \cup Span(t) : Heard(e, file_clock)
    BY <1>1, <1>3 DEF AllHeard, Span
  <2> QED BY <1>5, <2>1 DEF AllHeard
<1> QED BY <1>5, <1>7, <1>8 DEF r, l, f

\* Times of the past stay times of the past.
LEMMA HeardLater ==
    ASSUME NEW s, NEW now \in Nat, AllHeard(s, now)
    PROVE  AllHeard(s, now + 1)
BY DEF AllHeard, Heard

LEMMA RecordKeeps ==
    ASSUME FileInv, NEW p \in Payload, F!Record(p)
    PROVE  FileInv'
<1>0. PICK l, e : l = [mem EXCEPT !.event_counter = @ + 1]
                  /\ e = F!create_event(mem, Self, file_clock, file_clock, p)
  OBVIOUS
<1>1. /\ mem' = F!add_event(l, e, file_clock) /\ disk' = disk /\ file_clock' = file_clock
      /\ mem.event_counter < MaxCounter
  BY <1>0 DEF F!Record
<1>2. /\ MemGood(mem) /\ mem.event_counter \in 0..MaxCounter /\ AllHeard(mem.events, file_clock)
      /\ file_clock \in Nat /\ IsSeq(mem.events)
  BY FileAssumption DEF FileInv, MemGood, Chain
<1>3. MemGood(l) /\ l.event_counter = mem.event_counter + 1 /\ l.events = mem.events
  <2>1. Shape(mem)
    BY <1>2 DEF MemGood
  <2>2. Shape(l) /\ l.event_counter = mem.event_counter + 1 /\ l.events = mem.events
        /\ l.event_lookup = mem.event_lookup
    BY <1>0, <2>1 DEF Shape
  <2> QED BY <1>2, <2>2 DEF MemGood
<1>4. Heard(e, file_clock)
  BY <1>0, <1>2 DEF F!create_event, Heard
<1>5. mem' = add_event(l, e, file_clock)
  BY <1>1, SameAddEvent
<1>6. /\ MemGood(mem') /\ mem'.event_counter = mem.event_counter + 1
      /\ mem'.events = mem.events \/ mem'.events = Append(mem.events, e)
  BY <1>3, <1>5, AddKeepsChain
<1>7. AllHeard(mem'.events, file_clock)
  <2>1. AllHeard(Append(mem.events, e), file_clock)
    BY <1>2, <1>4, SpanAppend DEF AllHeard
  <2> QED BY <1>2, <1>6, <2>1
<1>8. mem'.event_counter \in 0..MaxCounter
  BY <1>1, <1>2, <1>6, BoundAssumption
<1>9. MemGood(mem)' /\ AllHeard(mem.events, file_clock)'
  BY <1>1, <1>6, <1>7
<1> QED BY <1>1, <1>8, <1>9 DEF FileInv

\* A file written from memory, to its end or not.
LEMMA WrittenGood ==
    ASSUME FileInv, NEW k \in -1..Len(mem.events), disk' = F!FileOf(mem.events, k)
    PROVE  /\ Chain(disk'.frames) /\ AllHeard(disk'.frames, file_clock)
           /\ IsSeq(disk'.lost) /\ AllHeard(disk'.lost, file_clock)
<1>1. Chain(mem.events) /\ AllHeard(mem.events, file_clock) /\ Len(mem.events) \in Nat
  BY SpanAppend DEF FileInv, MemGood, Chain
<1>2. PICK j : j = IF k < 0 THEN 1 ELSE k + 1
  OBVIOUS
<1>3. j \in 1..(Len(mem.events) + 1)
  BY <1>1, <1>2
<1>4. /\ disk'.frames = SubSeq(mem.events, 1, k)
      /\ disk'.lost = SubSeq(mem.events, j, Len(mem.events))
  BY <1>2 DEF F!FileOf
<1> QED BY <1>1, <1>3, <1>4, CutFacts

\* A step of the process, its crash or the clock.
LEMMA FileStep == ASSUME FileInv, F!Next PROVE FileInv'
<1>1. ASSUME NEW p \in Payload, F!Record(p) PROVE FileInv'
  BY <1>1, RecordKeeps
<1>0. /\ MemGood(EmptyLedger) /\ AllHeard(EmptyLedger.events, file_clock)
      /\ EmptyLedger.event_counter \in 0..MaxCounter
  <2>1. EmptyLedger.events = <<>> /\ EmptyLedger.event_lookup = [id \in {} |-> 0] /\ Shape(EmptyLedger)
        /\ EmptyLedger.event_counter = 0
    BY DEF EmptyLedger, Shape
  <2>2. MemGood(EmptyLedger)
    BY <2>1, EmptyMemGood
  <2> QED BY <2>1, <2>2, EmptyChain, BoundAssumption
<1>2. CASE F!save_to_file
  <2>1. mem' = mem /\ file_clock' = file_clock /\ disk' = F!FileOf(mem.events, Len(mem.events))
    BY <1>2 DEF F!save_to_file
  <2>2. Len(mem.events) \in -1..Len(mem.events)
    <3>1. Len(mem.events) \in Nat
      BY SpanAppend DEF FileInv, MemGood, Chain
    <3> QED BY <3>1
  <2>3. /\ Chain(disk'.frames) /\ AllHeard(disk'.frames, file_clock)
        /\ IsSeq(disk'.lost) /\ AllHeard(disk'.lost, file_clock)
    BY <2>1, <2>2, WrittenGood
  <2>4. MemGood(mem)' /\ AllHeard(mem.events, file_clock)' /\ mem'.event_counter \in 0..MaxCounter
    BY <2>1 DEF FileInv
  <2> QED BY <2>1, <2>3, <2>4 DEF FileInv
<1>3. ASSUME NEW k \in -1..Len(mem.events), F!SaveCrash(k) PROVE FileInv'
  <2>1. mem' = EmptyLedger /\ file_clock' = file_clock /\ disk' = F!FileOf(mem.events, k)
    BY <1>3, SameAddEvent DEF F!SaveCrash
  <2>3. /\ Chain(disk'.frames) /\ AllHeard(disk'.frames, file_clock)
        /\ IsSeq(disk'.lost) /\ AllHeard(disk'.lost, file_clock)
    BY <2>1, WrittenGood
  <2>4. MemGood(mem)' /\ AllHeard(mem.events, file_clock)' /\ mem'.event_counter \in 0..MaxCounter
    BY <1>0, <2>1
  <2> QED BY <2>1, <2>3, <2>4 DEF FileInv
<1>4. CASE F!Restart
  <2>1. mem' = EmptyLedger /\ file_clock' = file_clock /\ disk' = disk
    BY <1>4, SameAddEvent DEF F!Restart
  <2>4. MemGood(mem)' /\ AllHeard(mem.events, file_clock)' /\ mem'.event_counter \in 0..MaxCounter
    BY <1>0, <2>1
  <2> QED BY <2>1, <2>4 DEF FileInv
<1>5. ASSUME NEW t \in F!Tails(disk), F!load_from_file(t) PROVE FileInv'
  <2>1. /\ mem' = F!Replay(F!Cleared(mem), disk.frames \o t, file_clock)
        /\ file_clock' = file_clock /\ disk' = disk
    BY <1>5 DEF F!load_from_file
  <2>2. MemGood(mem') /\ AllHeard(mem'.events, file_clock) /\ mem'.event_counter = mem.event_counter
    BY <2>1, LoadFacts
  <2>4. MemGood(mem)' /\ AllHeard(mem.events, file_clock)' /\ mem'.event_counter \in 0..MaxCounter
    BY <2>1, <2>2 DEF FileInv
  <2> QED BY <2>1, <2>4 DEF FileInv
<1>6. CASE F!Tick
  <2>1. mem' = mem /\ disk' = disk /\ file_clock' = file_clock + 1 /\ file_clock < FileMaxTime
    BY <1>6 DEF F!Tick
  <2>2. file_clock \in Nat /\ file_clock' \in 0..FileMaxTime
    BY <2>1, FileAssumption DEF FileInv
  <2>3. /\ AllHeard(mem.events, file_clock + 1) /\ AllHeard(disk.frames, file_clock + 1)
        /\ AllHeard(disk.lost, file_clock + 1)
    BY <2>2, HeardLater DEF FileInv
  <2>4. /\ AllHeard(mem.events, file_clock)' /\ AllHeard(disk.frames, file_clock)'
        /\ AllHeard(disk.lost, file_clock)'
    BY <2>1, <2>3
  <2>5. MemGood(mem)' /\ Chain(disk.frames)' /\ IsSeq(disk.lost)' /\ mem'.event_counter \in 0..MaxCounter
    BY <2>1 DEF FileInv
  <2> QED BY <2>2, <2>4, <2>5 DEF FileInv
<1> QED BY <1>1, <1>2, <1>3, <1>4, <1>5, <1>6 DEF F!Next

\* The invariant says of memory what validate_chain and detect_conflicts test,
\* and of the file what a load needs.
LEMMA FileInvSound == FileInv => F!FileSound
<1> SUFFICES ASSUME FileInv PROVE F!FileSound
  OBVIOUS
<1> DEFINE s == mem.events
           N == Len(s)
           f == disk.frames
<1>1. N \in Nat /\ DOMAIN s = 1..N /\ Len(f) \in Nat /\ DOMAIN f = 1..Len(f) /\ IsSeq(f)
  <2>1. IsSeq(s) /\ IsSeq(f)
    BY DEF FileInv, MemGood, Chain
  <2>2. N \in Nat /\ DOMAIN s = 1..N
    <3>1. s \in Seq(Span(s))
      BY <2>1 DEF IsSeq
    <3> HIDE DEF s
    <3> QED BY <3>1
  <2>3. Len(f) \in Nat /\ DOMAIN f = 1..Len(f)
    <3>1. f \in Seq(Span(f))
      BY <2>1 DEF IsSeq
    <3> HIDE DEF f
    <3> QED BY <3>1
  <2> QED BY <2>1, <2>2, <2>3
<1>2. F!TypeOK
  <2>1. \A i \in 1..N : Heard(s[i], file_clock)
    BY DEF FileInv, AllHeard
  <2>2. \A i \in 1..Len(f) : Heard(f[i], file_clock)
    BY DEF FileInv, AllHeard
  <2> QED BY <1>1, <2>1, <2>2 DEF FileInv, Heard, F!TypeOK
<1>3. F!ChainIntact
  <2>1. /\ \A i \in 1..N : s[i].previous_hash = IF i = 1 THEN ZeroHash ELSE compute_hash(s[i - 1])
        /\ \A i, j \in 1..N : s[i].event_id = s[j].event_id => i = j
    BY DEF FileInv, MemGood, Chain
  <2>2. \A i \in 1..N : i # 1 => s[i].previous_hash = F!compute_hash(s[i - 1])
    BY <2>1, SameAddEvent
  <2>3. F!validate_chain(mem)
    <3>1. \A i \in 2..N : i \in 1..N /\ i # 1
      BY <1>1
    <3> QED BY <2>2, <3>1 DEF F!validate_chain
  <2>4. F!detect_conflicts(mem) = {}
    <3>1. {k \in DOMAIN s : \E j \in DOMAIN s \ {k} : s[j].event_id = s[k].event_id} = {}
      BY <1>1, <2>1
    <3>2. {k \in DOMAIN s \ {1} : s[k].previous_hash # F!compute_hash(s[k - 1])} = {}
      BY <1>1, <2>2
    <3> QED BY <3>1, <3>2 DEF F!detect_conflicts
  <2> QED BY <2>3, <2>4 DEF F!ChainIntact
<1>4. F!LoadRestoresFrames
  <2> SUFFICES ASSUME NEW t \in F!Tails(disk)
               PROVE  LET loaded == F!Replay(F!Cleared(mem), f \o t, file_clock).events IN
                      /\ Len(loaded) \in Len(f)..(Len(f) + 1)
                      /\ SubSeq(loaded, 1, Len(f)) = f
                      /\ (~disk.headless /\ disk.lost = <<>>) => loaded = f
    BY DEF F!LoadRestoresFrames
  <2>1. PICK r : r = F!Replay(F!Cleared(mem), f \o t, file_clock)
    OBVIOUS
  <2>2. /\ MemGood(r)
        /\ Len(r.events) \in Len(f)..(Len(f) + 1)
        /\ \A i \in 1..Len(f) : r.events[i] = f[i]
        /\ t = <<>> => Len(r.events) = Len(f)
    BY <2>1, LoadFacts
  <2>3. PICK loaded : loaded = r.events
    OBVIOUS
  <2>4. loaded \in Seq(Span(loaded)) /\ f \in Seq(Span(f))
    BY <1>1, <2>2, <2>3 DEF MemGood, Chain, IsSeq
  <2>5. (~disk.headless /\ disk.lost = <<>>) => t = <<>>
    BY TailFacts
  <2> HIDE DEF f
  <2>6. Len(SubSeq(loaded, 1, Len(f))) = Len(f) /\ \A i \in 1..Len(f) : SubSeq(loaded, 1, Len(f))[i] = f[i]
    BY <1>1, <2>2, <2>3, <2>4
  <2>7. SubSeq(loaded, 1, Len(f)) = f
    <3>1. SubSeq(loaded, 1, Len(f)) \in Seq(Span(loaded))
      BY <1>1, <2>2, <2>3, <2>4
    <3> QED BY <2>4, <2>6, <3>1
  <2>8. t = <<>> => loaded = f
    BY <2>2, <2>3, <2>4
  <2> QED BY <2>1, <2>2, <2>3, <2>5, <2>7, <2>8
<1> QED BY <1>2, <1>3, <1>4 DEF F!FileSound

\* A load brings back every whole frame and at most one damaged event, and the
\* ledger stays a chain, for any payloads, clocks and lengths and wherever
\* saves were cut (save_to_file, load_from_file, add_event).
THEOREM FileSoundHolds == LedgerSpec => []FileSound
<1>1. LedgerInit => FileInv
  <2> SUFFICES ASSUME F!Init PROVE FileInv
    BY DEF LedgerInit
  <2>1. mem = EmptyLedger /\ disk.frames = <<>> /\ disk.lost = <<>> /\ file_clock = 0
    BY SameAddEvent DEF F!Init, F!NoFile
  <2>2. EmptyLedger.events = <<>> /\ EmptyLedger.event_lookup = [id \in {} |-> 0] /\ Shape(EmptyLedger)
        /\ EmptyLedger.event_counter = 0
    BY DEF EmptyLedger, Shape
  <2>3. MemGood(EmptyLedger)
    BY <2>2, EmptyMemGood
  <2> QED BY <2>1, <2>2, <2>3, EmptyChain, FileAssumption, BoundAssumption DEF FileInv
<1>2. FileInv /\ [LedgerNext]_all_vars => FileInv'
  <2> SUFFICES ASSUME FileInv, [LedgerNext]_all_vars PROVE FileInv'
    OBVIOUS
  <2>1. CASE F!Next
    BY <2>1, FileStep
  <2>2. CASE UNCHANGED F_vars
    BY <2>2 DEF F_vars, FileInv
  <2> QED BY <2>1, <2>2 DEF LedgerNext, all_vars
<1>3. FileInv => FileSound
  BY FileInvSound DEF FileSound
<1> QED BY <1>1, <1>2, <1>3, PTL DEF LedgerSpec
=============================================================================
