--------------------------- MODULE EconomyProofs ----------------------------
(***************************************************************************)
(* Proofs about the parts of MCEconomy, for any nodes, key types, limits   *)
(* and bounds and any finite number of threads.                            *)
(***************************************************************************)
EXTENDS MCEconomy, Sequences, FiniteSetTheorems, NaturalsInduction, WellFoundedInduction, TLAPS

-----------------------------------------------------------------------------
(* Keys: the inductive invariant *)

KeyRecord == [nonce : Nat, owner : Node, type : KeyType]

Transfer == [kind : {"transfer"}, key : Nat, from : Node, to : Node, type : KeyType]

Vouch == [kind : {"vouch"}, from : Node, to : Node, type : KeyType, count : KeyCount]

ThreadState ==
    {Idle} \cup [at : {"remove", "add"}, paper : Transfer]
           \cup [at : {"vouch"}, paper : Vouch, left : Nat]

TypeInv ==
    /\ keys \subseteq KeyRecord
    /\ IsFiniteSet(keys)
    /\ key_index \in [Node -> SUBSET Nat]
    /\ nonce \in Nat
    /\ papers \subseteq Transfer \cup Vouch
    /\ vouch_counts \in [Node -> Nat]
    /\ pc \in [Thread -> ThreadState]
    /\ minted \in Nat
    /\ retired \in Nat

\* The next nonce is new, which is what keeps nonces apart.
NonceFresh == \A k \in keys : k.nonce < nonce

KeysInv == TypeInv /\ NonceFresh /\ IndexAgrees /\ KeysConserved

-----------------------------------------------------------------------------
(* Cardinalities *)

\* Only so many keys can be in transit as there are threads.
LEMMA InTransitFinite == IsFiniteSet(InTransit)
BY KeysAssumption, FS_Subset DEF InTransit

\* The two counts of KeysConserved are numbers.
LEMMA SizesAreNumbers ==
    ASSUME TypeInv
    PROVE  Cardinality(keys) \in Nat /\ Cardinality(InTransit) \in Nat
BY InTransitFinite, FS_CardinalityType DEF TypeInv

\* A key that is created adds one.
LEMMA CreatedCounts ==
    ASSUME TypeInv, NonceFresh, NEW type \in KeyType, NEW owner \in Node, Created(type, owner)
    PROVE  /\ keys' \subseteq KeyRecord
           /\ IsFiniteSet(keys')
           /\ Cardinality(keys') = Cardinality(keys) + 1
           /\ nonce' \in Nat
           /\ key_index' \in [Node -> SUBSET Nat]
           /\ NonceFresh'
<1> DEFINE k == [nonce |-> nonce, owner |-> owner, type |-> type]
<1>1. k \in KeyRecord BY DEF TypeInv, KeyRecord
<1>2. k \notin keys BY DEF NonceFresh, TypeInv
<1>3. keys' = keys \cup {k} BY DEF Created
<1>4. IsFiniteSet(keys') /\ Cardinality(keys') = Cardinality(keys) + 1
  BY <1>2, <1>3, FS_AddElement DEF TypeInv
<1>5. nonce' = nonce + 1 BY DEF Created
<1>6. key_index' \in [Node -> SUBSET Nat] BY DEF Created, TypeInv
<1>7. NonceFresh'
  BY <1>3, <1>5 DEF NonceFresh, TypeInv, KeyRecord
<1> QED BY <1>1, <1>3, <1>4, <1>5, <1>6, <1>7 DEF TypeInv

\* Its nonce is new, so the index still agrees.
LEMMA CreatedIndexed ==
    ASSUME TypeInv, NonceFresh, IndexAgrees, NEW type \in KeyType, NEW owner \in Node,
           Created(type, owner)
    PROVE  IndexAgrees'
<1> DEFINE k == [nonce |-> nonce, owner |-> owner, type |-> type]
<1>1. keys' = keys \cup {k} BY DEF Created
<1>2. \A l \in keys : l.nonce # nonce BY DEF NonceFresh, TypeInv, KeyRecord
<1>3. \A a, b \in keys' : a.nonce = b.nonce => a = b
  BY <1>1, <1>2 DEF IndexAgrees
<1>4. ASSUME NEW n \in Node
      PROVE  key_index'[n] = {a.nonce : a \in {l \in keys' : l.owner = n}}
  <2>1. key_index'[n] = IF n = owner THEN key_index[n] \cup {nonce} ELSE key_index[n]
    BY DEF Created, TypeInv
  <2>2. key_index[n] = {a.nonce : a \in {l \in keys : l.owner = n}} BY DEF IndexAgrees
  <2>3. k.owner = owner /\ k.nonce = nonce OBVIOUS
  <2> QED BY <1>1, <2>1, <2>2, <2>3
<1> QED BY <1>3, <1>4 DEF IndexAgrees

\* Removing a key that is there takes one away, and a key that is not, none.
LEMMA WithoutCounts ==
    ASSUME TypeInv, NonceFresh, IndexAgrees, NEW id \in Nat, Without(id)
    PROVE  /\ keys' \subseteq keys
           /\ IsFiniteSet(keys')
           /\ id \in Nonces => Cardinality(keys') = Cardinality(keys) - 1
           /\ id \notin Nonces => keys' = keys
<1>1. keys' \subseteq keys BY DEF Without
<1>2. IsFiniteSet(keys') BY <1>1, FS_Subset DEF TypeInv
<1>3. ASSUME id \in Nonces PROVE Cardinality(keys') = Cardinality(keys) - 1
  <2>1. PICK k \in keys : k.nonce = id BY <1>3 DEF Nonces
  <2>2. keys' = keys \ {k} BY <2>1 DEF Without, IndexAgrees
  <2> QED BY <2>1, <2>2, FS_RemoveElement DEF TypeInv
<1>4. ASSUME id \notin Nonces PROVE keys' = keys BY <1>4 DEF Without, Nonces
<1> QED BY <1>1, <1>2, <1>3, <1>4

\* remove_key takes the id out of the map and out of the index.
LEMMA WithoutIndexed ==
    ASSUME TypeInv, IndexAgrees, NEW id \in Nat, Without(id)
    PROVE  key_index' \in [Node -> SUBSET Nat] /\ IndexAgrees'
<1>1. key_index' \in [Node -> SUBSET Nat] BY DEF Without, TypeInv
<1>2. \A a, b \in keys' : a.nonce = b.nonce => a = b BY DEF Without, IndexAgrees
<1>3. ASSUME NEW n \in Node
      PROVE  key_index'[n] = {a.nonce : a \in {l \in keys' : l.owner = n}}
  <2>1. key_index'[n] = key_index[n] \ {id} BY DEF Without
  <2>2. key_index[n] = {a.nonce : a \in {l \in keys : l.owner = n}} BY DEF IndexAgrees
  <2>3. keys' = {l \in keys : l.nonce # id} BY DEF Without
  <2> QED BY <2>1, <2>2, <2>3
<1> QED BY <1>1, <1>2, <1>3 DEF IndexAgrees

-----------------------------------------------------------------------------
(* Threads *)

\* A thread that moves between states that hold no key in transit leaves the
\* count of keys in transit alone.
LEMMA TransitKept ==
    ASSUME TypeInv, NEW t \in Thread, NEW s \in ThreadState, s.at # "add", pc[t].at # "add",
           pc' = [pc EXCEPT ![t] = s]
    PROVE  pc' \in [Thread -> ThreadState] /\ InTransit' = InTransit
BY DEF TypeInv, InTransit

\* A thread inside execute_transfer holds a transfer.
LEMMA AtTransfer ==
    ASSUME TypeInv, NEW t \in Thread, pc[t].at \in {"remove", "add"}
    PROVE  pc[t] \in [at : {"remove", "add"}, paper : Transfer]
BY DEF TypeInv, ThreadState, Idle

\* A thread inside execute_vouch holds a vouch and a count of keys to add.
LEMMA AtVouch ==
    ASSUME TypeInv, NEW t \in Thread, pc[t].at = "vouch"
    PROVE  pc[t] \in [at : {"vouch"}, paper : Vouch, left : Nat]
BY DEF TypeInv, ThreadState, Idle

\* A thread outside of both calls holds nothing.
LEMMA IdleState == Idle \in ThreadState /\ Idle.at = "idle"
BY DEF Idle, ThreadState

-----------------------------------------------------------------------------
(* Each action *)

\* A new KeyManager is empty.
LEMMA InitKeys == Init => KeysInv
<1> SUFFICES ASSUME Init PROVE KeysInv OBVIOUS
<1>1. Cardinality({}) = 0 /\ IsFiniteSet({}) BY FS_EmptySet
<1>2. InTransit = {} BY IdleState DEF Init, InTransit
<1>3. TypeInv BY <1>1, IdleState DEF Init, TypeInv
<1>4. NonceFresh /\ IndexAgrees BY DEF Init, NonceFresh, IndexAgrees
<1>5. KeysConserved BY <1>1, <1>2 DEF Init, KeysConserved
<1> QED BY <1>3, <1>4, <1>5 DEF KeysInv

\* add_key: one key more, and one more issued.
LEMMA AddKeyStep ==
    ASSUME KeysInv, NEW n \in Node, NEW type \in KeyType, add_key(n, type)
    PROVE  KeysInv'
<1> USE DEF KeysInv
<1>1. Created(type, n) BY DEF add_key
<1>2. InTransit' = InTransit BY DEF add_key, InTransit
<1>3. TypeInv' BY <1>1, CreatedCounts DEF add_key, TypeInv
<1>4. KeysConserved' BY <1>1, <1>2, CreatedCounts, SizesAreNumbers DEF add_key, KeysConserved, TypeInv
<1> QED BY <1>1, <1>3, <1>4, CreatedCounts, CreatedIndexed

\* remove_key: one key less, and one more removed.
LEMMA RemoveKeyStep ==
    ASSUME KeysInv, NEW k \in keys, remove_key(k.nonce)
    PROVE  KeysInv'
<1> USE DEF KeysInv
<1>1. k.nonce \in Nat /\ k.nonce \in Nonces BY DEF TypeInv, KeyRecord, Nonces
<1>2. Without(k.nonce) BY DEF remove_key
<1>3. InTransit' = InTransit BY DEF remove_key, InTransit
<1>4. /\ keys' \subseteq keys /\ IsFiniteSet(keys')
      /\ Cardinality(keys') = Cardinality(keys) - 1
  BY <1>1, <1>2, WithoutCounts
<1>5. key_index' \in [Node -> SUBSET Nat] /\ IndexAgrees' BY <1>1, <1>2, WithoutIndexed
<1>6. TypeInv' BY <1>4, <1>5 DEF remove_key, TypeInv
<1>7. NonceFresh' BY <1>4 DEF remove_key, NonceFresh
<1>8. KeysConserved'
  BY <1>3, <1>4, SizesAreNumbers DEF remove_key, KeysConserved, TypeInv
<1> QED BY <1>5, <1>6, <1>7, <1>8

\* Steps that leave the keys alone and take no thread into or out of transit.
LEMMA QuietStep ==
    ASSUME KeysInv, TypeInv', UNCHANGED <<keys, key_index, nonce, minted, retired>>,
           InTransit' = InTransit
    PROVE  KeysInv'
BY DEF KeysInv, NonceFresh, IndexAgrees, KeysConserved

\* create_transfer and create_vouch only sign a paper.
LEMMA SignStep ==
    ASSUME KeysInv,
           NEW p \in Transfer \cup Vouch, papers' = papers \cup {p},
           UNCHANGED <<keys, key_index, nonce, vouch_counts, pc, minted, retired>>
    PROVE  KeysInv'
<1>1. TypeInv' BY DEF KeysInv, TypeInv
<1>2. InTransit' = InTransit BY DEF InTransit
<1> QED BY <1>1, <1>2, QuietStep

\* execute_transfer, ownership test: nothing changes yet.
LEMMA TransferCheckStep ==
    ASSUME KeysInv, NEW t \in Thread, NEW p \in papers, TransferCheck(t, p)
    PROVE  KeysInv'
<1> DEFINE s == [at |-> "remove", paper |-> p]
<1>1. TypeInv BY DEF KeysInv
<1>2. p \in Transfer BY <1>1 DEF TransferCheck, TypeInv, Vouch
<1>3. s \in ThreadState /\ s.at # "add" BY <1>2 DEF ThreadState
<1>4. pc[t].at # "add" BY IdleState DEF TransferCheck
<1>5. pc' = [pc EXCEPT ![t] = s] BY DEF TransferCheck
<1> HIDE DEF s
<1>6. pc' \in [Thread -> ThreadState] /\ InTransit' = InTransit
  BY <1>1, <1>3, <1>4, <1>5, TransitKept
<1>7. TypeInv' BY <1>1, <1>6 DEF TransferCheck, TypeInv
<1> QED BY <1>6, <1>7, QuietStep DEF TransferCheck

\* execute_transfer, removal: the key is in transit, or another thread had it.
LEMMA TransferRemoveStep ==
    ASSUME KeysInv, NEW t \in Thread, TransferRemove(t)
    PROVE  KeysInv'
<1> USE DEF KeysInv
<1> DEFINE id == pc[t].paper.key
<1>1. pc[t] \in [at : {"remove", "add"}, paper : Transfer] /\ pc[t].at = "remove"
  BY AtTransfer DEF TransferRemove
<1>2. id \in Nat BY <1>1 DEF Transfer
<1>3. Without(id) BY DEF TransferRemove
<1>4. /\ keys' \subseteq keys /\ IsFiniteSet(keys')
      /\ id \in Nonces => Cardinality(keys') = Cardinality(keys) - 1
      /\ id \notin Nonces => keys' = keys
  BY <1>2, <1>3, WithoutCounts
<1>5. key_index' \in [Node -> SUBSET Nat] /\ IndexAgrees' BY <1>2, <1>3, WithoutIndexed
<1>6. NonceFresh' BY <1>4 DEF TransferRemove, NonceFresh
<1>7. CASE id \in Nonces
  <2> DEFINE s == [pc[t] EXCEPT !.at = "add"]
  <2>1. pc' = [pc EXCEPT ![t] = s] BY <1>7 DEF TransferRemove, TypeInv
  <2>2. s \in ThreadState /\ s.at = "add" BY <1>1 DEF ThreadState
  <2>3. InTransit' = InTransit \cup {t} BY <2>1, <2>2 DEF InTransit, TypeInv
  <2>4. t \notin InTransit BY <1>1 DEF InTransit
  <2>5. Cardinality(InTransit') = Cardinality(InTransit) + 1
    BY <2>3, <2>4, InTransitFinite, FS_AddElement
  <2>6. TypeInv' BY <1>4, <1>5, <2>1, <2>2 DEF TransferRemove, TypeInv
  <2>7. KeysConserved'
    BY <1>4, <1>7, <2>5, SizesAreNumbers DEF TransferRemove, KeysConserved, TypeInv
  <2> QED BY <1>5, <1>6, <2>6, <2>7
<1>8. CASE id \notin Nonces
  <2>1. pc' = [pc EXCEPT ![t] = Idle] BY <1>8 DEF TransferRemove, TypeInv
  <2>2. pc' \in [Thread -> ThreadState] /\ InTransit' = InTransit
    BY <1>1, <2>1, IdleState, TransitKept
  <2>3. TypeInv' BY <1>4, <1>5, <2>2 DEF TransferRemove, TypeInv
  <2>4. KeysConserved' BY <1>4, <1>8, <2>2 DEF TransferRemove, KeysConserved
  <2> QED BY <1>5, <1>6, <2>3, <2>4
<1> QED BY <1>7, <1>8

\* execute_transfer, new key: the key in transit arrives.
LEMMA TransferAddStep ==
    ASSUME KeysInv, NEW t \in Thread, TransferAdd(t)
    PROVE  KeysInv'
<1> USE DEF KeysInv
<1> DEFINE type == pc[t].paper.type
           to   == pc[t].paper.to
<1>1. pc[t].at = "add" /\ type \in KeyType /\ to \in Node
  BY AtTransfer DEF TransferAdd, Transfer
<1>2. Created(type, to) BY DEF TransferAdd
<1> HIDE DEF type, to
<1>3. /\ keys' \subseteq KeyRecord /\ IsFiniteSet(keys') /\ nonce' \in Nat
      /\ Cardinality(keys') = Cardinality(keys) + 1
      /\ key_index' \in [Node -> SUBSET Nat]
      /\ NonceFresh'
  BY <1>1, <1>2, CreatedCounts
<1>4. IndexAgrees' BY <1>1, <1>2, CreatedIndexed
<1>5. pc' = [pc EXCEPT ![t] = Idle] BY DEF TransferAdd
<1>6. InTransit' = InTransit \ {t} BY <1>5, IdleState DEF InTransit, TypeInv
<1>7. t \in InTransit BY <1>1 DEF InTransit
<1>8. Cardinality(InTransit') = Cardinality(InTransit) - 1
  BY <1>6, <1>7, InTransitFinite, FS_RemoveElement
<1>9. TypeInv' BY <1>3, <1>5, IdleState DEF TransferAdd, TypeInv
<1>10. KeysConserved'
  BY <1>3, <1>8, SizesAreNumbers DEF TransferAdd, KeysConserved, TypeInv
<1> QED BY <1>3, <1>4, <1>9, <1>10

\* execute_vouch, entry.
LEMMA VouchStartStep ==
    ASSUME KeysInv, NEW t \in Thread, NEW p \in papers, VouchStart(t, p)
    PROVE  KeysInv'
<1> DEFINE s == [at |-> "vouch", paper |-> p, left |-> p.count]
<1>1. TypeInv BY DEF KeysInv
<1>2. p \in Vouch BY <1>1 DEF VouchStart, TypeInv, Transfer
<1>3. p.count \in Nat BY <1>2, KeysAssumption DEF Vouch
<1>4. s \in ThreadState /\ s.at # "add" BY <1>2, <1>3 DEF ThreadState
<1>5. pc[t].at # "add" BY IdleState DEF VouchStart
<1>6. pc' = [pc EXCEPT ![t] = s] BY DEF VouchStart
<1> HIDE DEF s
<1>7. pc' \in [Thread -> ThreadState] /\ InTransit' = InTransit
  BY <1>1, <1>4, <1>5, <1>6, TransitKept
<1>8. TypeInv' BY <1>1, <1>7 DEF VouchStart, TypeInv
<1> QED BY <1>7, <1>8, QuietStep DEF VouchStart

\* execute_vouch, one turn of its loop: a key is issued.
LEMMA VouchAddStep ==
    ASSUME KeysInv, NEW t \in Thread, VouchAdd(t)
    PROVE  KeysInv'
<1> USE DEF KeysInv
<1> DEFINE type == pc[t].paper.type
           to   == pc[t].paper.to
           s    == [pc[t] EXCEPT !.left = @ - 1]
<1>1. pc[t] \in [at : {"vouch"}, paper : Vouch, left : Nat] /\ pc[t].left > 0
  BY AtVouch DEF VouchAdd
<1>2. type \in KeyType /\ to \in Node BY <1>1 DEF Vouch
<1>3. Created(type, to) BY DEF VouchAdd
<1>4. s \in ThreadState /\ s.at # "add" /\ pc[t].at # "add" BY <1>1 DEF ThreadState
<1>5. pc' = [pc EXCEPT ![t] = s] BY DEF VouchAdd
<1> HIDE DEF type, to, s
<1>6. /\ keys' \subseteq KeyRecord /\ IsFiniteSet(keys') /\ nonce' \in Nat
      /\ Cardinality(keys') = Cardinality(keys) + 1
      /\ key_index' \in [Node -> SUBSET Nat]
      /\ NonceFresh'
  BY <1>2, <1>3, CreatedCounts
<1>7. IndexAgrees' BY <1>2, <1>3, CreatedIndexed
<1>8. pc' \in [Thread -> ThreadState] /\ InTransit' = InTransit
  BY <1>4, <1>5, TransitKept
<1>9. TypeInv' BY <1>6, <1>8 DEF VouchAdd, TypeInv
<1>10. KeysConserved'
  BY <1>6, <1>8, SizesAreNumbers DEF VouchAdd, KeysConserved, TypeInv
<1> QED BY <1>6, <1>7, <1>9, <1>10

\* execute_vouch, the record and the count of the voucher.
LEMMA VouchRecordStep ==
    ASSUME KeysInv, NEW t \in Thread, VouchRecord(t)
    PROVE  KeysInv'
<1>1. TypeInv BY DEF KeysInv
<1>2. pc[t].paper.from \in Node BY <1>1, AtVouch DEF VouchRecord, Vouch
<1>3. pc' = [pc EXCEPT ![t] = Idle] BY DEF VouchRecord
<1>4. pc[t].at # "add" BY DEF VouchRecord
<1>5. pc' \in [Thread -> ThreadState] /\ InTransit' = InTransit
  BY <1>1, <1>3, <1>4, IdleState, TransitKept
<1>6. vouch_counts' \in [Node -> Nat] BY <1>1, <1>2 DEF VouchRecord, TypeInv
<1>7. TypeInv' BY <1>1, <1>5, <1>6 DEF VouchRecord, TypeInv
<1> QED BY <1>5, <1>7, QuietStep DEF VouchRecord

-----------------------------------------------------------------------------
(* Theorems *)

\* Every step of every thread keeps the invariant.
THEOREM KeysStep == KeysInv /\ [Next]_vars => KeysInv'
<1> SUFFICES ASSUME KeysInv, [Next]_vars PROVE KeysInv' OBVIOUS
<1>1. CASE UNCHANGED vars
  BY <1>1 DEF vars, KeysInv, TypeInv, NonceFresh, IndexAgrees, KeysConserved, InTransit
<1>2. ASSUME NEW n \in Node, NEW type \in KeyType, add_key(n, type) PROVE KeysInv'
  BY <1>2, AddKeyStep
<1>3. ASSUME NEW n \in Node, NEW type \in KeyType, NEW m \in Node, NEW count \in KeyCount,
             create_vouch(n, m, type, count)
      PROVE  KeysInv'
  <2> DEFINE p == [kind |-> "vouch", from |-> n, to |-> m, type |-> type, count |-> count]
  <2>1. p \in Transfer \cup Vouch BY DEF Vouch
  <2>2. papers' = papers \cup {p} BY <1>3 DEF create_vouch
  <2>3. UNCHANGED <<keys, key_index, nonce, vouch_counts, pc, minted, retired>>
    BY <1>3 DEF create_vouch
  <2> HIDE DEF p
  <2> QED BY <2>1, <2>2, <2>3, SignStep
<1>4. ASSUME NEW k \in keys, remove_key(k.nonce) PROVE KeysInv'
  BY <1>4, RemoveKeyStep
<1>5. ASSUME NEW k \in keys, NEW to \in Node, create_transfer(k, to) PROVE KeysInv'
  <2> DEFINE p == [kind |-> "transfer", key |-> k.nonce, from |-> k.owner, to |-> to,
                   type |-> k.type]
  <2>1. p \in Transfer \cup Vouch BY DEF KeysInv, TypeInv, KeyRecord, Transfer
  <2>2. papers' = papers \cup {p} BY <1>5 DEF create_transfer
  <2>3. UNCHANGED <<keys, key_index, nonce, vouch_counts, pc, minted, retired>>
    BY <1>5 DEF create_transfer
  <2> HIDE DEF p
  <2> QED BY <2>1, <2>2, <2>3, SignStep
<1>6. ASSUME NEW t \in Thread, NEW p \in papers, TransferCheck(t, p) \/ VouchStart(t, p)
      PROVE  KeysInv'
  BY <1>6, TransferCheckStep, VouchStartStep
<1>7. ASSUME NEW t \in Thread,
             TransferRemove(t) \/ TransferAdd(t) \/ VouchAdd(t) \/ VouchRecord(t)
      PROVE  KeysInv'
  BY <1>7, TransferRemoveStep, TransferAddStep, VouchAddStep, VouchRecordStep
<1> QED BY <1>1, <1>2, <1>3, <1>4, <1>5, <1>6, <1>7 DEF Next

\* The inductive invariant holds in every state of every behaviour.
THEOREM KeysInvariance == Spec => []KeysInv
BY InitKeys, KeysStep, PTL DEF Spec

\* execute_transfer makes and loses no key, whichever threads execute whichever
\* transfers and vouches, and however often.
THEOREM KeysConservedHolds == Spec => []KeysConserved
<1>1. KeysInv => KeysConserved BY DEF KeysInv
<1> QED BY <1>1, KeysInvariance, PTL

\* key_index_ lists exactly the keys of keys_, each under its owner.
THEOREM IndexAgreesHolds == Spec => []IndexAgrees
<1>1. KeysInv => IndexAgrees BY DEF KeysInv
<1> QED BY <1>1, KeysInvariance, PTL


-----------------------------------------------------------------------------
(* Issuance *)

MetricsRecord ==
    [total_uptime : Nat, first_seen : Nat, last_seen : Nat, gb_routed : Nat,
     things_hosted : Nat, gb_stored : Nat, successful_routes : Nat, failed_routes : Nat,
     epochs_witnessed : Nat, epochs_missed : Nat]

\* A node with metrics m whose session runs since s: the uptime that is counted
\* lies between the time it was first seen and the start of the session.
UptimeGood(m, s, t) ==
    /\ m = None => s = None
    /\ m # None =>
          /\ m.first_seen = 0 => m.total_uptime = 0 /\ s = None
          /\ m.first_seen # 0 => /\ m.first_seen <= t
                                 /\ s = None => m.total_uptime <= t - m.first_seen
                                 /\ s # None => m.first_seen <= s /\ s <= t /\ m.total_uptime <= s - m.first_seen

UptimeInv ==
    /\ now \in 1..IssuanceMaxTime
    /\ metrics \in [Earner -> MetricsRecord \cup {None}]
    /\ online_since \in [Earner -> Nat \cup {None}]
    /\ \A n \in Earner : UptimeGood(metrics[n], online_since[n], now)

\* What the limit is tested on is what was handed out: the counter never wraps.
LimitInv ==
    /\ now \in 1..IssuanceMaxTime
    /\ counts \in [Earner -> [I!Epochs -> Nat]]
    /\ issued = counts
    /\ \A n \in Earner, e \in I!Epochs : counts[n][e] <= MaxPerEpoch

LEMMA IssuanceNumbers ==
    /\ MaxPerEpoch \in Nat /\ Wrap \in Nat /\ Wrap > 0 /\ IssuanceMaxTime \in Nat /\ IssuanceMaxTime > 0
    /\ EpochLength \in Nat /\ EpochLength > 0
    /\ None \notin Nat /\ None \notin MetricsRecord
BY IssuanceAssumption DEF MetricsRecord

LEMMA Quotients ==
    ASSUME NEW a \in Nat, NEW b \in Nat, NEW c \in Nat, c > 0, a <= b
    PROVE  a \div c \in Nat /\ a \div c <= b \div c
OBVIOUS

LEMMA Remainders ==
    ASSUME NEW a \in Nat, NEW w \in Nat, a < w
    PROVE  a % w = a
OBVIOUS

LEMMA EpochKnown == now \in 1..IssuanceMaxTime => I!current_epoch \in I!Epochs
<1> SUFFICES ASSUME now \in 1..IssuanceMaxTime PROVE I!current_epoch \in I!Epochs
  OBVIOUS
<1>1. now \in Nat /\ now <= IssuanceMaxTime
  BY IssuanceNumbers
<1>2. /\ now \div EpochLength \in Nat /\ now \div EpochLength <= IssuanceMaxTime \div EpochLength
      /\ IssuanceMaxTime \div EpochLength \in Nat
  BY <1>1, IssuanceNumbers, Quotients
<1> QED BY <1>2 DEF I!current_epoch, I!Epochs

LEMMA IssueStep ==
    ASSUME LimitInv, NEW n \in Earner, NEW count \in Nat, MaxPerEpoch + count < Wrap,
           I!can_issue_keys(n, count), I!record_issuance(n, count)
    PROVE  LimitInv'
<1> DEFINE e == I!current_epoch
<1>1. e \in I!Epochs
  BY EpochKnown DEF LimitInv
<1>2. PICK c : c = counts[n][e] /\ c \in Nat /\ c <= MaxPerEpoch
  BY <1>1 DEF LimitInv
<1>3. (c + count) % Wrap = c + count /\ c + count \in Nat
  <2>1. c + count \in Nat /\ c + count < Wrap
    BY <1>2, IssuanceNumbers
  <2> QED BY <2>1, IssuanceNumbers, Remainders
<1>4. c + count <= MaxPerEpoch
  BY <1>2, <1>3 DEF I!can_issue_keys
<1>5. counts' = [counts EXCEPT ![n][e] = c + count] /\ issued' = counts' /\ now' = now
  <2>1. counts' = [counts EXCEPT ![n][e] = (counts[n][e] + count) % Wrap]
    BY DEF I!record_issuance
  <2>2. issued' = [issued EXCEPT ![n][e] = issued[n][e] + count]
    BY DEF I!record_issuance
  <2>3. issued = counts
    BY DEF LimitInv
  <2> QED BY <1>2, <1>3, <2>1, <2>2, <2>3 DEF I!record_issuance
<1> HIDE DEF e
<1>6. I!Epochs' = I!Epochs
  BY DEF I!Epochs
<1>7. counts' \in [Earner -> [I!Epochs -> Nat]]
  BY <1>1, <1>3, <1>5 DEF LimitInv
<1>8. ASSUME NEW x \in Earner, NEW y \in I!Epochs PROVE counts'[x][y] <= MaxPerEpoch
  BY <1>1, <1>4, <1>5 DEF LimitInv
<1> QED BY <1>5, <1>6, <1>7, <1>8 DEF LimitInv

LEMMA LimitStep == LimitInv /\ I!Next => LimitInv'
<1> SUFFICES ASSUME LimitInv, I!Next PROVE LimitInv' OBVIOUS
<1>0. I!Epochs' = I!Epochs
  BY DEF I!Epochs
<1>1. CASE UNCHANGED <<counts, issued, now>>
  BY <1>0, <1>1 DEF LimitInv
<1>2. CASE I!Tick
  <2>1. now' \in 1..IssuanceMaxTime /\ UNCHANGED <<counts, issued>>
    BY <1>2, IssuanceNumbers DEF I!Tick, LimitInv
  <2> QED BY <1>0, <2>1 DEF LimitInv
<1>3. ASSUME NEW n \in Earner, NEW count \in IssuanceKeyCount,
             \/ I!request_keys_via_pow(n, count)
             \/ I!request_keys_via_postake(n, count)
             \/ I!request_keys_hybrid(n, count)
      PROVE  LimitInv'
  <2>1. count \in Nat /\ MaxPerEpoch + count < Wrap /\ MaxPerEpoch + (3 * count) \div 2 < Wrap
    BY IssuanceAssumption
  <2>2. (3 * count) \div 2 \in Nat
    BY <2>1
  <2>3. CASE I!request_keys_via_pow(n, count)
    BY <2>1, <2>3, IssueStep DEF I!request_keys_via_pow
  <2>4. CASE I!request_keys_via_postake(n, count)
    BY <2>1, <2>4, IssueStep DEF I!request_keys_via_postake
  <2>5. CASE I!request_keys_hybrid(n, count)
    BY <2>1, <2>2, <2>5, IssueStep DEF I!request_keys_hybrid
  <2> QED BY <1>3, <2>3, <2>4, <2>5
<1> QED BY <1>1, <1>2, <1>3
        DEF I!Next, I!record_node_online, I!record_node_offline, I!Offline, I!reset_metrics,
            I!record_contribution, I!record_thing_hosted, I!record_thing_removed,
            I!cleanup_inactive_nodes, I!process_epoch

\* The metrics a call finds or makes.
LEMMA MetricsFound ==
    ASSUME UptimeInv, NEW n \in Earner
    PROVE  /\ I!MetricsOf(n) \in MetricsRecord /\ I!MetricsOf(n) # None
           /\ UptimeGood(I!MetricsOf(n), online_since[n], now)
<1>1. I!NewMetrics \in MetricsRecord /\ I!NewMetrics.first_seen = 0 /\ I!NewMetrics.total_uptime = 0
  BY DEF I!NewMetrics, MetricsRecord
<1>2. CASE metrics[n] = None
  <2>1. I!MetricsOf(n) = I!NewMetrics /\ online_since[n] = None
    BY <1>2 DEF I!MetricsOf, UptimeInv, UptimeGood
  <2>2. I!NewMetrics # None
    BY <1>1, IssuanceNumbers
  <2> QED BY <1>1, <2>1, <2>2 DEF UptimeGood
<1>3. CASE metrics[n] # None
  BY <1>3 DEF I!MetricsOf, UptimeInv
<1> QED BY <1>2, <1>3

\* A step that gives one node new metrics.
LEMMA MetricsStep ==
    ASSUME UptimeInv, NEW n \in Earner, NEW m \in MetricsRecord, NEW s \in Nat \cup {None},
           metrics' = [metrics EXCEPT ![n] = m], online_since' = [online_since EXCEPT ![n] = s], now' = now,
           UptimeGood(m, s, now)
    PROVE  UptimeInv'
BY DEF UptimeInv

LEMMA OnlineStep ==
    ASSUME UptimeInv, NEW n \in Earner, I!record_node_online(n)
    PROVE  UptimeInv'
<1>1. PICK m : m = I!MetricsOf(n)
  OBVIOUS
<1>2. m \in MetricsRecord /\ m # None /\ UptimeGood(m, online_since[n], now)
  BY <1>1, MetricsFound
<1>3. PICK first : first = IF m.first_seen = 0 THEN now ELSE m.first_seen
  OBVIOUS
<1>4. PICK w : w = [m EXCEPT !.first_seen = first, !.last_seen = now]
  OBVIOUS
<1>5. now \in Nat /\ now > 0 /\ now # None /\ online_since[n] \in Nat \cup {None}
  BY IssuanceNumbers DEF UptimeInv
<1>6. m.first_seen \in Nat /\ m.total_uptime \in Nat
  BY <1>2 DEF MetricsRecord
<1>7. w \in MetricsRecord /\ w.first_seen = first /\ w.total_uptime = m.total_uptime
  BY <1>2, <1>3, <1>4, <1>5, <1>6 DEF MetricsRecord
<1>8. first \in Nat /\ first # 0 /\ first <= now /\ m.total_uptime <= now - first
  BY <1>2, <1>3, <1>5, <1>6 DEF UptimeGood
<1>9. UptimeGood(w, now, now)
  <2>1. w # None
    BY <1>7, IssuanceNumbers
  <2> QED BY <1>5, <1>7, <1>8, <2>1 DEF UptimeGood
<1>10. /\ metrics' = [metrics EXCEPT ![n] = w]
       /\ online_since' = [online_since EXCEPT ![n] = now] /\ now' = now
  BY <1>1, <1>3, <1>4 DEF I!record_node_online
<1> QED BY <1>5, <1>7, <1>9, <1>10, MetricsStep

LEMMA OfflineStep ==
    ASSUME UptimeInv, NEW n \in Earner, I!record_node_offline(n)
    PROVE  UptimeInv'
<1>1. PICK m : m = I!MetricsOf(n)
  OBVIOUS
<1>2. m \in MetricsRecord /\ m # None /\ UptimeGood(m, online_since[n], now)
  BY <1>1, MetricsFound
<1>3. PICK up : up = IF online_since[n] = None THEN m.total_uptime ELSE m.total_uptime + now - online_since[n]
  OBVIOUS
<1>4. PICK w : w = [m EXCEPT !.total_uptime = up, !.last_seen = now]
  OBVIOUS
<1>5. now \in Nat /\ now > 0 /\ online_since[n] \in Nat \cup {None}
  BY IssuanceNumbers DEF UptimeInv
<1>6. m.first_seen \in Nat /\ m.total_uptime \in Nat
  BY <1>2 DEF MetricsRecord
<1>7. /\ up \in Nat
      /\ m.first_seen = 0 => up = 0
      /\ m.first_seen # 0 => m.first_seen <= now /\ up <= now - m.first_seen
  <2>1. CASE online_since[n] = None
    BY <1>2, <1>3, <1>5, <1>6, <2>1 DEF UptimeGood
  <2>2. CASE online_since[n] # None
    BY <1>2, <1>3, <1>5, <1>6, <2>2 DEF UptimeGood
  <2> QED BY <2>1, <2>2
<1>8. w \in MetricsRecord /\ w.first_seen = m.first_seen /\ w.total_uptime = up
  BY <1>2, <1>4, <1>5, <1>7 DEF MetricsRecord
<1>9. UptimeGood(w, None, now)
  <2>1. w # None
    BY <1>8, IssuanceNumbers
  <2> QED BY <1>7, <1>8, <2>1 DEF UptimeGood
<1>10. /\ metrics' = [metrics EXCEPT ![n] = w]
       /\ online_since' = [online_since EXCEPT ![n] = None] /\ now' = now
  BY <1>1, <1>3, <1>4 DEF I!record_node_offline, I!Offline
<1> QED BY <1>8, <1>9, <1>10, MetricsStep

\* A call that counts something else.
LEMMA ContributionStep ==
    ASSUME UptimeInv, NEW n \in Earner, NEW w \in MetricsRecord,
           w.first_seen = I!MetricsOf(n).first_seen, w.total_uptime = I!MetricsOf(n).total_uptime,
           metrics' = [metrics EXCEPT ![n] = w], UNCHANGED <<online_since, now>>
    PROVE  UptimeInv'
<1>1. I!MetricsOf(n) # None /\ UptimeGood(I!MetricsOf(n), online_since[n], now)
  BY MetricsFound
<1>2. w # None
  BY IssuanceNumbers
<1>3. UptimeGood(w, online_since[n], now)
  BY <1>1, <1>2 DEF UptimeGood
<1>4. online_since[n] \in Nat \cup {None} /\ online_since' = [online_since EXCEPT ![n] = online_since[n]]
  BY DEF UptimeInv
<1> QED BY <1>3, <1>4, MetricsStep

LEMMA ForgetStep ==
    ASSUME UptimeInv, NEW S, I!reset_metrics(S)
    PROVE  UptimeInv'
BY DEF UptimeInv, UptimeGood, I!reset_metrics

LEMMA UptimeTick ==
    ASSUME UptimeInv, I!Tick
    PROVE  UptimeInv'
<1>1. /\ now' = now + 1 /\ now \in Nat /\ now' \in 1..IssuanceMaxTime
      /\ UNCHANGED <<metrics, online_since>>
  BY IssuanceNumbers DEF UptimeInv, I!Tick
<1>2. ASSUME NEW n \in Earner PROVE UptimeGood(metrics[n], online_since[n], now + 1)
  <2>1. PICK m, s : m = metrics[n] /\ s = online_since[n]
    OBVIOUS
  <2>2. m \in MetricsRecord \cup {None} /\ s \in Nat \cup {None} /\ UptimeGood(m, s, now)
    BY <2>1 DEF UptimeInv
  <2>3. m # None => m.first_seen \in Nat /\ m.total_uptime \in Nat
    BY <2>2 DEF MetricsRecord
  <2>4. UptimeGood(m, s, now + 1)
    BY <1>1, <2>2, <2>3 DEF UptimeGood
  <2> QED BY <2>1, <2>4
<1> QED BY <1>1, <1>2 DEF UptimeInv

LEMMA UptimeStep == UptimeInv /\ I!Next => UptimeInv'
<1> SUFFICES ASSUME UptimeInv, I!Next PROVE UptimeInv' OBVIOUS
<1>1. CASE UNCHANGED <<metrics, online_since, now>>
  BY <1>1 DEF UptimeInv
<1>2. ASSUME NEW n \in Earner, NEW k \in Batch,
             NEW field \in {"gb_routed", "successful_routes", "failed_routes",
                            "epochs_witnessed", "epochs_missed"},
             I!record_contribution(n, field, k)
      PROVE  UptimeInv'
  <2>1. PICK m : m = I!MetricsOf(n)
    OBVIOUS
  <2>2. m \in MetricsRecord /\ k \in Nat
    BY <2>1, MetricsFound, IssuanceAssumption
  <2>3. PICK w : w = [m EXCEPT ![field] = m[field] + k]
    OBVIOUS
  <2>4. w \in MetricsRecord /\ w.first_seen = m.first_seen /\ w.total_uptime = m.total_uptime
    BY <2>2, <2>3 DEF MetricsRecord
  <2>5. metrics' = [metrics EXCEPT ![n] = w] /\ UNCHANGED <<online_since, now>>
    BY <1>2, <2>1, <2>3 DEF I!record_contribution
  <2> QED BY <2>1, <2>4, <2>5, ContributionStep
<1>3. ASSUME NEW n \in Earner, NEW k \in Batch, I!record_thing_hosted(n, k)
      PROVE  UptimeInv'
  <2>1. PICK m : m = I!MetricsOf(n)
    OBVIOUS
  <2>2. m \in MetricsRecord /\ k \in Nat
    BY <2>1, MetricsFound, IssuanceAssumption
  <2>3. PICK w : w = [m EXCEPT !.things_hosted = @ + 1, !.gb_stored = @ + k]
    OBVIOUS
  <2>4. w \in MetricsRecord /\ w.first_seen = m.first_seen /\ w.total_uptime = m.total_uptime
    <3>1. PICK hosted, gb : hosted = m.things_hosted + 1 /\ gb = m.gb_stored + k
      OBVIOUS
    <3>2. w = [m EXCEPT !.things_hosted = hosted, !.gb_stored = gb]
      BY <2>3, <3>1
    <3>3. hosted \in Nat /\ gb \in Nat
      BY <2>2, <3>1 DEF MetricsRecord
    <3> QED BY <2>2, <3>2, <3>3 DEF MetricsRecord
  <2>5. metrics' = [metrics EXCEPT ![n] = w] /\ UNCHANGED <<online_since, now>>
    BY <1>3, <2>1, <2>3 DEF I!record_thing_hosted
  <2> QED BY <2>1, <2>4, <2>5, ContributionStep
<1>4. ASSUME NEW n \in Earner, NEW k \in Batch, I!record_thing_removed(n, k)
      PROVE  UptimeInv'
  <2>1. PICK m : m = I!MetricsOf(n)
    OBVIOUS
  <2>2. m \in MetricsRecord /\ k \in Nat
    BY <2>1, MetricsFound, IssuanceAssumption
  <2>3. PICK w : w = [m EXCEPT !.things_hosted = IF @ > 0 THEN @ - 1 ELSE @,
                               !.gb_stored = IF @ >= k THEN @ - k ELSE @]
    OBVIOUS
  <2>4. w \in MetricsRecord /\ w.first_seen = m.first_seen /\ w.total_uptime = m.total_uptime
    <3>1. PICK hosted, gb : /\ hosted = IF m.things_hosted > 0 THEN m.things_hosted - 1 ELSE m.things_hosted
                            /\ gb = IF m.gb_stored >= k THEN m.gb_stored - k ELSE m.gb_stored
      OBVIOUS
    <3>2. w = [m EXCEPT !.things_hosted = hosted, !.gb_stored = gb]
      BY <2>3, <3>1
    <3>3. m.things_hosted \in Nat /\ m.gb_stored \in Nat
      BY <2>2 DEF MetricsRecord
    <3>4. hosted \in Nat /\ gb \in Nat
      BY <2>2, <3>1, <3>3
    <3> QED BY <2>2, <3>2, <3>4 DEF MetricsRecord
  <2>5. metrics' = [metrics EXCEPT ![n] = w] /\ UNCHANGED <<online_since, now>>
    BY <1>4, <2>1, <2>3 DEF I!record_thing_removed
  <2> QED BY <2>1, <2>4, <2>5, ContributionStep
<1> QED BY <1>1, <1>2, <1>3, <1>4, OnlineStep, OfflineStep, ForgetStep, UptimeTick
        DEF I!Next, I!cleanup_inactive_nodes, I!process_epoch, I!request_keys_via_pow,
            I!request_keys_via_postake, I!request_keys_hybrid, I!record_issuance

LEMMA UptimeSound == UptimeInv => I!UptimeBounded
<1> SUFFICES ASSUME UptimeInv, NEW n \in Earner
             PROVE  LET m == I!get_metrics(n) IN
                    IF m.first_seen = 0 THEN m.total_uptime = 0 ELSE m.total_uptime <= now - m.first_seen
  BY DEF I!UptimeBounded
<1>0. now \in Nat
  BY IssuanceNumbers DEF UptimeInv
<1>1. PICK m, s, w : m = I!MetricsOf(n) /\ s = online_since[n] /\ w = I!get_metrics(n)
  OBVIOUS
<1>2. m \in MetricsRecord /\ m # None /\ UptimeGood(m, s, now) /\ s \in Nat \cup {None}
  BY <1>1, MetricsFound DEF UptimeInv
<1>3. m.first_seen \in Nat /\ m.total_uptime \in Nat
  BY <1>2 DEF MetricsRecord
<1>4. CASE metrics[n] = None \/ s = None
  <2>1. w = m
    BY <1>1, <1>4 DEF I!get_metrics
  <2>2. s = None
    <3>1. UptimeGood(metrics[n], s, now)
      BY <1>1 DEF UptimeInv
    <3> QED BY <1>4, <3>1 DEF UptimeGood
  <2>3. IF m.first_seen = 0 THEN m.total_uptime = 0 ELSE m.total_uptime <= now - m.first_seen
    BY <1>2, <2>2 DEF UptimeGood
  <2> QED BY <1>1, <2>1, <2>3
<1>5. CASE metrics[n] # None /\ s # None
  <2>1. m = metrics[n]
    BY <1>1, <1>5 DEF I!MetricsOf
  <2>2. PICK up : up = m.total_uptime + now - s
    OBVIOUS
  <2>3. w = [m EXCEPT !.total_uptime = up]
    BY <1>1, <1>5, <2>1, <2>2 DEF I!get_metrics
  <2>4. w.first_seen = m.first_seen /\ w.total_uptime = up
    BY <1>2, <2>3 DEF MetricsRecord
  <2>5. m.first_seen # 0 /\ up <= now - m.first_seen
    BY <1>0, <1>2, <1>3, <1>5, <2>2 DEF UptimeGood
  <2> QED BY <1>1, <2>4, <2>5
<1> QED BY <1>4, <1>5

\* By whatever mix of proofs of work, contribution and both a node asks for
\* keys, it gets no more in an epoch than the limit, and whatever order its
\* online and offline reports come in, repeated, missing or around a reset, no
\* second of uptime counts twice.
THEOREM IssuanceSoundHolds == EconomySpec => []IssuanceSound
<1> DEFINE J == part = "issuance" => UptimeInv /\ LimitInv
<1>1. EconomyInit => J
  <2> SUFFICES ASSUME I!Init PROVE UptimeInv /\ LimitInv
    BY DEF EconomyInit
  <2>1. now \in 1..IssuanceMaxTime
    BY IssuanceNumbers DEF I!Init
  <2>2. UptimeInv
    BY <2>1 DEF I!Init, UptimeInv, UptimeGood
  <2>3. LimitInv
    BY <2>1, IssuanceNumbers DEF I!Init, LimitInv
  <2> QED BY <2>2, <2>3
<1>2. J /\ [EconomyNext]_all_vars => J'
  <2> SUFFICES ASSUME J, [EconomyNext]_all_vars PROVE J' OBVIOUS
  <2>1. CASE part = "issuance" /\ I!Next /\ part' = part
    BY <2>1, UptimeStep, LimitStep
  <2>2. CASE part' = part /\ UNCHANGED I_vars
    BY <2>2 DEF I_vars, UptimeInv, LimitInv, I!Epochs
  <2> QED BY <2>1, <2>2 DEF EconomyNext, all_vars
<1>3. J => IssuanceSound
  <2> SUFFICES ASSUME UptimeInv, LimitInv PROVE I!IssuanceSound
    BY DEF IssuanceSound
  <2>1. I!EpochLimit
    BY DEF LimitInv, I!EpochLimit
  <2> QED BY <2>1, UptimeSound DEF I!IssuanceSound
<1> QED BY <1>1, <1>2, <1>3, PTL DEF EconomySpec


-----------------------------------------------------------------------------
(* Reputation *)

\* The score a vouch remembers may be any.
VouchRecords(B) == [vouchee : Voucher, active : BOOLEAN, base : B]

Vouches(v) == \E B : v \in [Voucher -> Seq(VouchRecords(B))]

Pair == Voucher \X Voucher

\* What a state of the vouches and the graph has to do with what was earned.
Earned(v, edged, signed) == \A p \in edged : (\E i \in 1..Len(v[p[1]]) : v[p[1]][i].active /\ v[p[1]][i].vouchee = p[2])
                                             \/ p \in signed

WithinLimit(v) ==
    \A n \in Voucher : Cardinality({i \in 1..Len(v[n]) : v[n][i].active}) <= MaxVouches

TrustInv ==
    /\ Vouches(vouches)
    /\ trusts \subseteq Pair
    /\ \A a \in attestations : <<a.attester, a.subject>> \in attested
    /\ attested \subseteq Pair
    /\ Earned(vouches, trusts, attested)
    /\ WithinLimit(vouches)

LEMMA VouchFacts ==
    ASSUME NEW v, Vouches(v), NEW n \in Voucher
    PROVE  /\ Len(v[n]) \in Nat /\ DOMAIN v[n] = 1..Len(v[n])
           /\ IsFiniteSet({i \in 1..Len(v[n]) : v[n][i].active})
           /\ Cardinality({i \in 1..Len(v[n]) : v[n][i].active}) \in Nat
<1>1. PICK B : v \in [Voucher -> Seq(VouchRecords(B))]
  BY DEF Vouches
<1>2. v[n] \in Seq(VouchRecords(B))
  BY <1>1
<1>3. Len(v[n]) \in Nat /\ DOMAIN v[n] = 1..Len(v[n])
  BY <1>2
<1>4. IsFiniteSet(1..Len(v[n]))
  BY <1>3, FS_Interval
<1>5. IsFiniteSet({i \in 1..Len(v[n]) : v[n][i].active})
  BY <1>4, FS_Subset
<1> QED BY <1>3, <1>5, FS_CardinalityType

LEMMA HasVouchMeans ==
    ASSUME Vouches(vouches), NEW n \in Voucher, NEW m
    PROVE  /\ Q!ActiveVouches(n) = {i \in 1..Len(vouches[n]) : vouches[n][i].active}
           /\ Q!has_vouch(n, m) <=> \E i \in 1..Len(vouches[n]) : vouches[n][i].active /\ vouches[n][i].vouchee = m
<1>1. DOMAIN vouches[n] = 1..Len(vouches[n])
  BY VouchFacts
<1>2. Q!ActiveVouches(n) = {i \in 1..Len(vouches[n]) : vouches[n][i].active}
  BY <1>1 DEF Q!ActiveVouches
<1> QED BY <1>2 DEF Q!has_vouch

\* A vouch more, within the limit.
LEMMA VouchAdded ==
    ASSUME TrustInv, NEW n \in Voucher, NEW m \in Voucher, Q!can_vouch(n, m),
           NEW v, v = Q!Vouched(n, m)
    PROVE  /\ Vouches(v) /\ WithinLimit(v)
           /\ Earned(v, trusts \cup {<<n, m>>}, attested)
<1>0. Vouches(vouches) /\ WithinLimit(vouches) /\ Earned(vouches, trusts, attested) /\ trusts \subseteq Pair
  BY DEF TrustInv
<1>1. PICK B : vouches \in [Voucher -> Seq(VouchRecords(B))]
  BY <1>0 DEF Vouches
<1>2. PICK C : C = B \cup {scores[m]}
  OBVIOUS
<1>3. PICK r : r = [vouchee |-> m, active |-> TRUE, base |-> scores[m]]
  OBVIOUS
<1>4. r \in VouchRecords(C) /\ r.active /\ r.vouchee = m
  BY <1>2, <1>3 DEF VouchRecords
<1>5. vouches \in [Voucher -> Seq(VouchRecords(C))]
  <2>1. VouchRecords(B) \subseteq VouchRecords(C)
    BY <1>2 DEF VouchRecords
  <2>2. Seq(VouchRecords(B)) \subseteq Seq(VouchRecords(C))
    BY <2>1
  <2> QED BY <1>1, <2>2
<1>6. PICK s : s = vouches[n] /\ s \in Seq(VouchRecords(C)) /\ Len(s) \in Nat
  BY <1>5
<1>7. v = [vouches EXCEPT ![n] = Append(s, r)]
  BY <1>3, <1>6 DEF Q!Vouched
<1>8. /\ Append(s, r) \in Seq(VouchRecords(C)) /\ Len(Append(s, r)) = Len(s) + 1
      /\ Append(s, r)[Len(s) + 1] = r /\ \A i \in 1..Len(s) : Append(s, r)[i] = s[i]
  BY <1>4, <1>6
<1>9. PICK t : t = Append(s, r)
  OBVIOUS
<1>10. /\ v[n] = t /\ \A x \in Voucher : x # n => v[x] = vouches[x]
       /\ v \in [Voucher -> Seq(VouchRecords(C))]
  BY <1>5, <1>7, <1>8, <1>9
<1>11. /\ Len(t) = Len(s) + 1 /\ t[Len(s) + 1] = r /\ \A i \in 1..Len(s) : t[i] = s[i]
       /\ \A i \in 1..Len(t) : i \in 1..Len(s) \/ i = Len(s) + 1
       /\ \A i \in 1..Len(s) : i \in 1..Len(t)
       /\ Len(s) + 1 \in 1..Len(t)
  BY <1>6, <1>8, <1>9
<1>12. Vouches(v)
  BY <1>10 DEF Vouches
<1>13. ASSUME NEW x \in Voucher
       PROVE  Cardinality({i \in 1..Len(v[x]) : v[x][i].active}) <= MaxVouches
  <2>1. CASE x # n
    BY <1>0, <1>10, <2>1 DEF WithinLimit
  <2>2. CASE x = n
    <3>1. PICK old : old = {i \in 1..Len(s) : s[i].active}
      OBVIOUS
    <3>2. IsFiniteSet(old) /\ Cardinality(old) \in Nat
      BY <1>0, <1>6, <3>1, VouchFacts
    <3>3. Cardinality(old) < MaxVouches
      <4>1. Q!Cardinality(Q!ActiveVouches(n)) < MaxVouches
        BY DEF Q!can_vouch
      <4>2. Q!ActiveVouches(n) = old
        BY <1>0, <1>6, <3>1, HasVouchMeans
      <4> QED BY <4>1, <4>2 DEF Q!Cardinality, Cardinality
    <3>4. {i \in 1..Len(t) : t[i].active} = old \cup {Len(s) + 1} /\ Len(s) + 1 \notin old
      BY <1>4, <1>6, <1>11, <3>1
    <3>5. Cardinality(old \cup {Len(s) + 1}) = Cardinality(old) + 1
      BY <3>2, <3>4, FS_AddElement
    <3>6. Cardinality(old) + 1 <= MaxVouches
      BY <3>2, <3>3, ReputationAssumption
    <3> QED BY <1>10, <2>2, <3>4, <3>5, <3>6
  <2> QED BY <2>1, <2>2
<1>14. ASSUME NEW p \in trusts \cup {<<n, m>>}
       PROVE  (\E i \in 1..Len(v[p[1]]) : v[p[1]][i].active /\ v[p[1]][i].vouchee = p[2]) \/ p \in attested
  <2>1. CASE p = <<n, m>>
    BY <1>4, <1>10, <1>11, <2>1
  <2>2. CASE p \in trusts
    <3>1. \/ \E i \in 1..Len(vouches[p[1]]) : vouches[p[1]][i].active /\ vouches[p[1]][i].vouchee = p[2]
          \/ p \in attested
      BY <1>0, <2>2 DEF Earned
    <3>2. p[1] \in Voucher
      BY <1>0, <2>2 DEF Pair
    <3>3. CASE p[1] # n
      BY <1>10, <3>1, <3>2, <3>3
    <3>4. CASE p[1] = n
      BY <1>6, <1>10, <1>11, <3>1, <3>4
    <3> QED BY <3>3, <3>4
  <2> QED BY <2>1, <2>2
<1> QED BY <1>12, <1>13, <1>14 DEF WithinLimit, Earned

\* Revoking takes the vouches of a pair and its edge.
LEMMA VouchRevoked ==
    ASSUME TrustInv, NEW n \in Voucher, NEW m \in Voucher, Q!Revoke(n, m, trusts)
    PROVE  /\ Vouches(vouches') /\ WithinLimit(vouches')
           /\ Earned(vouches', trusts', attested) /\ trusts' \subseteq Pair
<1>0. Vouches(vouches) /\ WithinLimit(vouches) /\ Earned(vouches, trusts, attested) /\ trusts \subseteq Pair
  BY DEF TrustInv
<1>1. PICK B : vouches \in [Voucher -> Seq(VouchRecords(B))]
  BY <1>0 DEF Vouches
<1>2. PICK s : s = vouches[n] /\ s \in Seq(VouchRecords(B)) /\ Len(s) \in Nat /\ DOMAIN s = 1..Len(s)
  BY <1>1
<1>3. PICK t : t = [i \in 1..Len(s) |-> IF s[i].vouchee = m THEN [s[i] EXCEPT !.active = FALSE] ELSE s[i]]
  OBVIOUS
<1>4. vouches' = [vouches EXCEPT ![n] = t] /\ trusts' = trusts \ {<<n, m>>}
  BY <1>2, <1>3 DEF Q!Revoke
<1>5. ASSUME NEW i \in 1..Len(s)
      PROVE  /\ t[i] \in VouchRecords(B) /\ t[i].vouchee = s[i].vouchee
             /\ t[i].active <=> s[i].active /\ s[i].vouchee # m
  <2>1. s[i] \in VouchRecords(B)
    BY <1>2
  <2>2. CASE s[i].vouchee = m
    <3>1. t[i] = [s[i] EXCEPT !.active = FALSE]
      BY <1>3, <2>2
    <3> QED BY <2>1, <2>2, <3>1 DEF VouchRecords
  <2>3. CASE s[i].vouchee # m
    <3>1. t[i] = s[i]
      BY <1>3, <2>3
    <3> QED BY <2>1, <2>3, <3>1
  <2> QED BY <2>2, <2>3
<1>6. t \in Seq(VouchRecords(B)) /\ Len(t) = Len(s)
  <2>1. PICK k \in Nat : k = Len(s)
    BY <1>2
  <2>2. DOMAIN t = 1..k /\ t = [i \in 1..k |-> t[i]]
    BY <1>3, <2>1
  <2>3. \A i \in 1..k : t[i] \in VouchRecords(B)
    BY <1>5, <2>1
  <2>4. t \in [1..k -> VouchRecords(B)]
    BY <2>2, <2>3
  <2>5. ASSUME NEW S, NEW f \in [1..k -> S] PROVE f \in Seq(S) /\ Len(f) = k
    OBVIOUS
  <2> QED BY <2>1, <2>4, <2>5
<1>7. /\ vouches'[n] = t /\ \A x \in Voucher : x # n => vouches'[x] = vouches[x]
      /\ vouches' \in [Voucher -> Seq(VouchRecords(B))]
  BY <1>1, <1>4, <1>6
<1>8. Vouches(vouches')
  BY <1>7 DEF Vouches
<1>9. ASSUME NEW x \in Voucher
      PROVE  Cardinality({i \in 1..Len(vouches'[x]) : vouches'[x][i].active}) <= MaxVouches
  <2>1. CASE x # n
    BY <1>0, <1>7, <2>1 DEF WithinLimit
  <2>2. CASE x = n
    <3>1. PICK old, new : old = {i \in 1..Len(s) : s[i].active} /\ new = {i \in 1..Len(t) : t[i].active}
      OBVIOUS
    <3>2. IsFiniteSet(old) /\ Cardinality(old) \in Nat /\ Cardinality(old) <= MaxVouches
      BY <1>0, <1>2, <3>1, VouchFacts DEF WithinLimit
    <3>3. new \subseteq old
      BY <1>5, <1>6, <3>1
    <3>4. Cardinality(new) <= Cardinality(old) /\ Cardinality(new) \in Nat
      BY <3>2, <3>3, FS_Subset, FS_CardinalityType
    <3>5. Cardinality(new) <= MaxVouches
      BY <3>2, <3>4, ReputationAssumption
    <3> QED BY <1>7, <2>2, <3>1, <3>5
  <2> QED BY <2>1, <2>2
<1>10. ASSUME NEW p \in trusts'
       PROVE  (\E i \in 1..Len(vouches'[p[1]]) : vouches'[p[1]][i].active /\ vouches'[p[1]][i].vouchee = p[2])
              \/ p \in attested
  <2>1. p \in trusts /\ p # <<n, m>> /\ p \in Pair
    BY <1>0, <1>4
  <2>2. PICK x \in Voucher, y \in Voucher : p = <<x, y>>
    BY <2>1 DEF Pair
  <2>3. (\E i \in 1..Len(vouches[x]) : vouches[x][i].active /\ vouches[x][i].vouchee = y) \/ p \in attested
    BY <1>0, <2>1, <2>2 DEF Earned
  <2>4. CASE x # n
    BY <1>7, <2>2, <2>3, <2>4
  <2>5. CASE x = n
    <3>1. y # m
      BY <2>1, <2>2, <2>5
    <3>2. ASSUME NEW i \in 1..Len(s), s[i].active, s[i].vouchee = y
          PROVE  i \in 1..Len(t) /\ t[i].active /\ t[i].vouchee = y
      BY <1>5, <1>6, <3>1, <3>2
    <3> QED BY <1>2, <1>7, <2>2, <2>3, <2>5, <3>2
  <2> QED BY <2>4, <2>5
<1>11. trusts' \subseteq Pair
  BY <1>0, <1>4
<1> QED BY <1>8, <1>9, <1>10, <1>11 DEF WithinLimit, Earned

\* An attestation is accepted after v and edged came to be.
LEMMA AttestationAccepted ==
    ASSUME TrustInv, NEW n \in Voucher, NEW m \in Voucher, NEW delta, NEW edged, edged \subseteq Pair,
           Earned(vouches', edged, attested), Q!Accept(Q!Attestation(n, m, delta), edged),
           Vouches(vouches'), WithinLimit(vouches')
    PROVE  TrustInv'
<1>1. PICK a : a = Q!Attestation(n, m, delta)
  OBVIOUS
<1>2. a.attester = n /\ a.subject = m
  BY <1>1 DEF Q!Attestation
<1>3. /\ attestations' = attestations \cup {a} /\ trusts' = edged \cup {<<n, m>>}
      /\ attested' = attested \cup {<<n, m>>}
  BY <1>1, <1>2 DEF Q!Accept
<1>4. <<n, m>> \in Pair
  BY DEF Pair
<1>5. attested' \subseteq Pair /\ trusts' \subseteq Pair
  BY <1>3, <1>4 DEF TrustInv
<1>6. \A b \in attestations' : <<b.attester, b.subject>> \in attested'
  BY <1>2, <1>3 DEF TrustInv
<1>7. Earned(vouches', trusts', attested')
  BY <1>3 DEF Earned
<1> QED BY <1>5, <1>6, <1>7 DEF TrustInv

LEMMA AttestStep ==
    ASSUME TrustInv, NEW n \in Voucher, NEW m \in Voucher, NEW delta, Q!create_attestation(n, m, delta)
    PROVE  TrustInv'
<1>1. UNCHANGED vouches /\ Q!Accept(Q!Attestation(n, m, delta), trusts)
  BY DEF Q!create_attestation
<1>2. /\ trusts \subseteq Pair /\ Earned(vouches', trusts, attested)
      /\ Vouches(vouches') /\ WithinLimit(vouches')
  BY <1>1 DEF TrustInv
<1> QED BY <1>1, <1>2, AttestationAccepted

LEMMA VouchStep ==
    ASSUME TrustInv, NEW n \in Voucher, NEW m \in Voucher,
           Q!vouch_for_node(n, m) \/ Q!request_vouch(n, m)
    PROVE  TrustInv'
<1>1. Q!can_vouch(n, m) /\ vouches' = Q!Vouched(n, m)
  BY DEF Q!vouch_for_node, Q!request_vouch
<1>2. PICK v : v = Q!Vouched(n, m)
  OBVIOUS
<1>3. Vouches(v) /\ WithinLimit(v) /\ Earned(v, trusts \cup {<<n, m>>}, attested)
  BY <1>1, <1>2, VouchAdded
<1>4. vouches' = v
  BY <1>1, <1>2
<1>5. trusts \cup {<<n, m>>} \subseteq Pair
  BY DEF TrustInv, Pair
<1>6. CASE trusts' = trusts \cup {<<n, m>>} /\ UNCHANGED <<attestations, attested>>
  BY <1>3, <1>4, <1>5, <1>6 DEF TrustInv
<1>7. CASE Q!Accept(Q!Attestation(n, m, 20), trusts \cup {<<n, m>>})
  <2>1. PICK edged : edged = trusts \cup {<<n, m>>}
    OBVIOUS
  <2>2. edged \subseteq Pair /\ Earned(vouches', edged, attested) /\ Q!Accept(Q!Attestation(n, m, 20), edged)
        /\ Vouches(vouches') /\ WithinLimit(vouches')
    BY <1>3, <1>4, <1>5, <1>7, <2>1
  <2> QED BY <2>2, AttestationAccepted
<1> QED BY <1>6, <1>7 DEF Q!vouch_for_node, Q!request_vouch

LEMMA RevokeStep ==
    ASSUME TrustInv, NEW n \in Voucher, NEW m \in Voucher, NEW penalty, Q!revoke_vouch(n, m, penalty)
    PROVE  TrustInv'
<1>1. Q!Revoke(n, m, trusts) /\ UNCHANGED <<attestations, attested>>
  BY DEF Q!revoke_vouch
<1>2. /\ Vouches(vouches') /\ WithinLimit(vouches')
      /\ Earned(vouches', trusts', attested) /\ trusts' \subseteq Pair
  BY <1>1, VouchRevoked
<1> QED BY <1>1, <1>2 DEF TrustInv

LEMMA RebuildStep ==
    ASSUME TrustInv, Q!rebuild_trust_graph
    PROVE  TrustInv'
<1>1. /\ trusts' = {<<a.attester, a.subject>> : a \in {b \in attestations : ~Q!is_expired(b)}}
                   \cup {p \in Voucher \X Voucher : Q!has_vouch(p[1], p[2])}
      /\ UNCHANGED <<attestations, vouches, attested>>
  BY DEF Q!rebuild_trust_graph
<1>2. ASSUME NEW p \in trusts'
      PROVE  /\ p \in Pair
             /\ \/ \E i \in 1..Len(vouches[p[1]]) : vouches[p[1]][i].active /\ vouches[p[1]][i].vouchee = p[2]
                \/ p \in attested
  <2>1. CASE \E a \in attestations : p = <<a.attester, a.subject>>
    BY <2>1 DEF TrustInv
  <2>2. CASE p \in Voucher \X Voucher /\ Q!has_vouch(p[1], p[2])
    <3>1. p[1] \in Voucher /\ Vouches(vouches)
      BY <2>2 DEF TrustInv
    <3>2. \E i \in 1..Len(vouches[p[1]]) : vouches[p[1]][i].active /\ vouches[p[1]][i].vouchee = p[2]
      BY <2>2, <3>1, HasVouchMeans
    <3> QED BY <2>2, <3>2 DEF Pair
  <2> QED BY <1>1, <2>1, <2>2
<1> QED BY <1>1, <1>2 DEF TrustInv, Earned

LEMMA TrustStep == TrustInv /\ Q!Next => TrustInv'
<1> SUFFICES ASSUME TrustInv, Q!Next PROVE TrustInv' OBVIOUS
<1>1. ASSUME NEW n \in Voucher, NEW m \in Voucher,
             \/ \E delta \in Delta : Q!create_attestation(n, m, delta)
             \/ Q!vouch_for_node(n, m)
             \/ Q!request_vouch(n, m)
             \/ Q!accept_vouch(n, m)
             \/ \E penalty \in BOOLEAN : Q!revoke_vouch(n, m, penalty)
      PROVE  TrustInv'
  BY <1>1, AttestStep, VouchStep, RevokeStep DEF Q!accept_vouch
<1>2. CASE UNCHANGED <<attestations, vouches, trusts, attested>>
  BY <1>2 DEF TrustInv
<1>3. CASE Q!cleanup_expired_attestations
  BY <1>3 DEF TrustInv, Q!cleanup_expired_attestations
<1>4. CASE Q!rebuild_trust_graph
  BY <1>4, RebuildStep
<1> QED BY <1>1, <1>2, <1>3, <1>4
        DEF Q!Next, Q!NodeChanges, Q!record_action, Q!update_vouch_impacts, Q!decay_reputation, Q!Tick

LEMMA TrustInitially == Q!Init => TrustInv
<1> SUFFICES ASSUME Q!Init PROVE TrustInv OBVIOUS
<1>1. vouches = [n \in Voucher |-> <<>>] /\ attestations = {} /\ trusts = {} /\ attested = {}
  BY DEF Q!Init
<1>2. <<>> \in Seq(VouchRecords({}))
  OBVIOUS
<1>3. Vouches(vouches)
  BY <1>1, <1>2 DEF Vouches
<1>4. ASSUME NEW n \in Voucher
      PROVE  Cardinality({i \in 1..Len(vouches[n]) : vouches[n][i].active}) <= MaxVouches
  <2>1. {i \in 1..Len(vouches[n]) : vouches[n][i].active} = {}
    <3>1. vouches[n] = <<>> /\ Len(<<>>) = 0
      BY <1>1
    <3> QED BY <3>1
  <2>2. Cardinality({}) = 0
    BY FS_EmptySet
  <2> QED BY <2>1, <2>2, ReputationAssumption
<1> QED BY <1>1, <1>3, <1>4 DEF TrustInv, Earned, WithinLimit

\* A node trusts another only by a vouch that is still active or by an
\* attestation it signed, whatever was revoked, expired, cleaned up or rebuilt
\* and wherever a workflow stopped; and nobody vouches beyond the limit, along
\* whichever of the two ways.
THEOREM TrustEarnedHolds == EconomySpec => []TrustEarned
<1> DEFINE J == part = "reputation" => TrustInv
<1>1. EconomyInit => J
  BY TrustInitially DEF EconomyInit
<1>2. J /\ [EconomyNext]_all_vars => J'
  <2> SUFFICES ASSUME J, [EconomyNext]_all_vars PROVE J' OBVIOUS
  <2>1. CASE part = "reputation" /\ Q!Next /\ part' = part
    BY <2>1, TrustStep
  <2>2. CASE part' = part /\ UNCHANGED Q_vars
    BY <2>2 DEF Q_vars, TrustInv
  <2> QED BY <2>1, <2>2 DEF EconomyNext, all_vars
<1>3. J => TrustEarned
  <2> SUFFICES ASSUME TrustInv PROVE Q!TrustEarned
    BY DEF TrustEarned
  <2>1. ASSUME NEW p \in trusts PROVE Q!has_vouch(p[1], p[2]) \/ p \in attested
    <3>1. p[1] \in Voucher /\ Vouches(vouches)
      BY DEF TrustInv, Pair
    <3> QED BY <3>1, HasVouchMeans DEF TrustInv, Earned
  <2>2. ASSUME NEW n \in Voucher PROVE Q!Cardinality(Q!ActiveVouches(n)) <= MaxVouches
    <3>1. Q!ActiveVouches(n) = {i \in 1..Len(vouches[n]) : vouches[n][i].active}
      BY HasVouchMeans DEF TrustInv
    <3>2. Cardinality(Q!ActiveVouches(n)) <= MaxVouches
      BY <3>1 DEF TrustInv, WithinLimit
    <3> QED BY <3>2 DEF Q!Cardinality, Cardinality
  <2> QED BY <2>1, <2>2 DEF Q!TrustEarned
<1> QED BY <1>1, <1>2, <1>3, PTL DEF EconomySpec

-----------------------------------------------------------------------------
(* TrustGraph: numbers, graphs and paths *)

LEMMA LeastNumber ==
    ASSUME NEW S \in SUBSET Nat, S # {}
    PROVE  \E x \in S : \A y \in S : x <= y
<1>1. PICK x \in S : \A y \in S : ~ (<<y, x>> \in OpToRel(<, Nat))
  BY NatLessThanWellFounded, WFMin
<1>2. \A y \in S : ~ (y < x)
  BY <1>1 DEF OpToRel
<1> QED BY <1>2

\* Induction up to a bound, over a set instead of a predicate.
LEMMA UpTo ==
    ASSUME NEW a \in Nat, NEW b \in Nat, NEW S, a \in S,
           \A i \in a..(b - 1) : i \in S => i + 1 \in S
    PROVE  \A i \in a..b : i \in S
<1> DEFINE Missing == {i \in a..b : i \notin S}
<1>1. SUFFICES ASSUME Missing # {} PROVE FALSE
  OBVIOUS
<1>2. Missing \in SUBSET Nat
  OBVIOUS
<1>3. PICK k \in Missing : \A j \in Missing : k <= j
  <2> HIDE DEF Missing
  <2> QED BY <1>1, <1>2, LeastNumber
<1>4. k \in (a + 1)..b
  OBVIOUS
<1>5. k - 1 \in S
  BY <1>3, <1>4
<1>6. k - 1 \in a..(b - 1) /\ (k - 1) + 1 = k
  BY <1>4
<1> QED BY <1>3, <1>5, <1>6

\* What a step leads to, again and again.
Iterates(f, States, base, step, n) ==
    f \in [0..n -> States] /\ \A i \in 0..n : f[i] = IF i = 0 THEN base ELSE step[f[i - 1]]

LEMMA Iterated ==
    ASSUME NEW States, NEW base \in States, NEW step \in [States -> States], NEW n \in Nat
    PROVE  \E f : Iterates(f, States, base, step, n)
<1> DEFINE Is(f, k) == f \in [0..k -> States] /\ \A i \in 0..k : f[i] = IF i = 0 THEN base ELSE step[f[i - 1]]
           S == {k \in 0..n : \E f : Is(f, k)}
<1>1. 0 \in S
  <2>1. Is([i \in 0..0 |-> base], 0)
    OBVIOUS
  <2>2. 0 \in 0..n
    OBVIOUS
  <2> HIDE DEF Is
  <2> QED BY <2>1, <2>2
<1>2. ASSUME NEW k \in 0..(n - 1), k \in S PROVE k + 1 \in S
  <2>1. PICK f : Is(f, k)
    BY <1>2
  <2> DEFINE g == [i \in 0..(k + 1) |-> IF i = k + 1 THEN step[f[k]] ELSE f[i]]
  <2>2. ASSUME NEW i \in 0..(k + 1) PROVE g[i] \in States /\ g[i] = IF i = 0 THEN base ELSE step[g[i - 1]]
    <3>1. CASE i = k + 1
      <4>1. g[i] = step[f[k]] /\ g[i - 1] = f[k] /\ i # 0 /\ f[k] \in States
        BY <2>1, <3>1
      <4> QED BY <4>1
    <3>2. CASE i # k + 1
      <4>1. i \in 0..k /\ g[i] = f[i] /\ (i # 0 => g[i - 1] = f[i - 1])
        BY <3>2
      <4> QED BY <2>1, <4>1
    <3> QED BY <3>1, <3>2
  <2>3. Is(g, k + 1)
    <3>1. g \in [0..(k + 1) -> States]
      BY <2>1, <2>2
    <3> QED BY <2>2, <3>1
  <2>4. k + 1 \in 0..n
    OBVIOUS
  <2> HIDE DEF g, Is
  <2> QED BY <2>3, <2>4
<1>3. n \in S
  <2>1. \A i \in 0..n : i \in S
    <3> HIDE DEF S
    <3> QED BY <1>1, <1>2, UpTo
  <2> HIDE DEF S
  <2> QED BY <2>1
<1> QED BY <1>3 DEF Iterates

LEMMA GraphNumbers ==
    /\ Unit \in Nat /\ Unit > 0 /\ Unit \in Int /\ HalfLife \in Nat /\ HalfLife > 0
    /\ Trusting \in Nat /\ MaxHops \in Nat
    /\ IsFiniteSet(Peer) /\ Cardinality(Peer) \in Nat
BY GraphAssumption, FS_CardinalityType

LEMMA SameCardinality == \A S : Z!Cardinality(S) = Cardinality(S)
BY DEF Z!Cardinality, Cardinality

\* A product of weights is a weight, and no heavier than its factor.
LEMMA Products ==
    ASSUME NEW a \in 0..Unit, NEW w \in 0..Unit
    PROVE  (a * w) \div Unit \in 0..Unit /\ (a * w) \div Unit <= a
<1>0. Unit \in Nat /\ Unit > 0
  BY GraphNumbers
<1>1. a * w \in Nat /\ a * w <= a * Unit
  BY <1>0
<1>2. PICK q : q = (a * w) \div Unit
  OBVIOUS
<1>3. q \in Nat /\ q * Unit <= a * w
  BY <1>0, <1>1, <1>2
<1>4. q * Unit <= a * Unit
  BY <1>0, <1>1, <1>3
<1>5. q <= a
  BY <1>0, <1>3, <1>4
<1> QED BY <1>0, <1>2, <1>3, <1>5

LEMMA ProductsGrow ==
    ASSUME NEW a \in 0..Unit, NEW b \in 0..Unit, NEW w \in 0..Unit, a <= b
    PROVE  (a * w) \div Unit <= (b * w) \div Unit
<1>0. Unit \in Nat /\ Unit > 0
  BY GraphNumbers
<1>1. a * w \in Nat /\ b * w \in Nat /\ a * w <= b * w
  BY <1>0
<1>2. \A x, y \in Nat : x <= y => x \div Unit <= y \div Unit
  BY <1>0
<1> QED BY <1>1, <1>2

\* What is at least as good as a weight is not absent.
LEMMA NotAbsent ==
    ASSUME NEW v \in (0..Unit) \cup {-1}, NEW x \in Int, 0 <= x, x <= v
    PROVE  v \in 0..Unit /\ v # -1
BY GraphNumbers

LEMMA Weights ==
    ASSUME NEW v \in 0..Unit
    PROVE  v # -1 /\ v \in Int /\ 0 <= v
BY GraphNumbers

LEMMA Transitive ==
    ASSUME NEW x \in Int, NEW y \in Int, NEW z \in Int, x <= y, y <= z
    PROVE  x <= z
OBVIOUS

\* The graphs that add_edge and the others make.
Graph == [Peer -> [Peer -> (0..Unit) \cup {-1}]]

Linked == {e \in Peer \X Peer : edges[e[1]][e[2]] # -1}

Trusted == {e \in Peer \X Peer : edges[e[1]][e[2]] > Trusting}

LEMMA GraphInitially == Z!Init => edges \in Graph
BY DEF Z!Init, Z!Absent, Graph

LEMMA GraphStep == edges \in Graph /\ Z!Next => edges' \in Graph
<1> SUFFICES ASSUME edges \in Graph, Z!Next PROVE edges' \in Graph OBVIOUS
<1>1. ASSUME NEW n \in Peer, NEW m \in Peer, NEW w \in Weight, Z!add_edge(n, m, w) PROVE edges' \in Graph
  <2>1. Z!Clamp(w) \in 0..Unit
    BY GraphAssumption DEF Z!Clamp
  <2> QED BY <1>1, <2>1 DEF Z!add_edge, Graph
<1>2. ASSUME NEW n \in Peer, NEW m \in Peer, Z!remove_edge(n, m) PROVE edges' \in Graph
  BY <1>2 DEF Z!remove_edge, Graph, Z!Absent
<1>3. CASE Z!decay_edge_weights
  <2>1. ASSUME NEW w \in 0..Unit PROVE w \div HalfLife \in 0..Unit
    <3>1. PICK q : q = w \div HalfLife
      OBVIOUS
    <3>2. q \in Nat /\ q * HalfLife <= w
      BY <3>1, GraphNumbers
    <3>3. q <= q * HalfLife
      BY <3>2, GraphNumbers
    <3> QED BY <3>1, <3>2, <3>3, GraphNumbers
  <2>2. ASSUME NEW n \in Peer, NEW m \in Peer
        PROVE  (IF edges[n][m] = -1 THEN -1 ELSE edges[n][m] \div HalfLife) \in (0..Unit) \cup {-1}
    BY <2>1 DEF Graph
  <2> QED BY <1>3, <2>2 DEF Z!decay_edge_weights, Z!Absent, Graph
<1>4. CASE Z!prune_weak_edges
  BY <1>4 DEF Z!prune_weak_edges, Z!Absent, Graph
<1> QED BY <1>1, <1>2, <1>3, <1>4 DEF Z!Next

\* A simple path from a to b along R, as a sequence.
Route(p, R, a, b) ==
    /\ p \in Seq(Peer) /\ Len(p) >= 1
    /\ p[1] = a /\ p[Len(p)] = b
    /\ \A i \in 1..(Len(p) - 1) : <<p[i], p[i + 1]>> \in R
    /\ \A i, j \in 1..Len(p) : p[i] = p[j] => i = j

LEMMA RouteFacts ==
    ASSUME NEW p, NEW R, NEW a, NEW b, Route(p, R, a, b)
    PROVE  /\ Len(p) \in Nat /\ Len(p) >= 1 /\ DOMAIN p = 1..Len(p) /\ p \in [1..Len(p) -> Peer]
           /\ a \in Peer /\ b \in Peer
           /\ Len(p) <= Cardinality(Peer)
<1>1. p \in Seq(Peer) /\ Len(p) >= 1 /\ p[1] = a /\ p[Len(p)] = b /\ \A i, j \in 1..Len(p) : p[i] = p[j] => i = j
  BY DEF Route
<1>2. Len(p) \in Nat /\ DOMAIN p = 1..Len(p) /\ p \in [1..Len(p) -> Peer]
  BY <1>1
<1>3. p \in Injection(1..Len(p), Peer)
  BY <1>1, <1>2 DEF Injection, IsInjective
<1>4. Cardinality(1..Len(p)) <= Cardinality(Peer)
  BY <1>3, GraphNumbers, FS_Injection
<1>5. Cardinality(1..Len(p)) = Len(p)
  BY <1>1, <1>2, FS_Interval
<1>6. p[1] \in Peer /\ p[Len(p)] \in Peer
  BY <1>1, <1>2
<1> QED BY <1>1, <1>2, <1>4, <1>5, <1>6

LEMMA TupleIsSequence ==
    ASSUME NEW k \in Nat, NEW p \in [1..k -> Peer]
    PROVE  p \in Seq(Peer) /\ Len(p) = k
OBVIOUS

LEMMA RoutesAre ==
    ASSUME edges \in Graph, NEW n \in Peer, NEW m \in Peer
    PROVE  /\ \A p : p \in Z!SimplePaths(n, m, Z!HasEdge) <=> Route(p, Linked, n, m)
           /\ \A p : p \in Z!SimplePaths(n, m, Z!IsTrusting) <=> Route(p, Trusted, n, m)
<1>1. ASSUME NEW R, NEW p
      PROVE  Route(p, R, n, m) <=>
             /\ p \in UNION {[1..k -> Peer] : k \in 1..Cardinality(Peer)}
             /\ p[1] = n /\ p[Len(p)] = m
             /\ \A i, j \in DOMAIN p : p[i] = p[j] => i = j
             /\ \A i \in 1..(Len(p) - 1) : <<p[i], p[i + 1]>> \in R
  <2>1. ASSUME Route(p, R, n, m)
        PROVE  p \in UNION {[1..k -> Peer] : k \in 1..Cardinality(Peer)} /\ DOMAIN p = 1..Len(p)
    <3>1. Len(p) \in 1..Cardinality(Peer) /\ p \in [1..Len(p) -> Peer] /\ DOMAIN p = 1..Len(p)
      BY <2>1, RouteFacts, GraphNumbers
    <3> QED BY <3>1
  <2>2. ASSUME p \in UNION {[1..k -> Peer] : k \in 1..Cardinality(Peer)}
        PROVE  p \in Seq(Peer) /\ Len(p) >= 1 /\ DOMAIN p = 1..Len(p)
    <3>1. PICK k \in 1..Cardinality(Peer) : p \in [1..k -> Peer]
      BY <2>2
    <3>2. k \in Nat /\ k >= 1
      BY GraphNumbers
    <3>3. p \in Seq(Peer) /\ Len(p) = k
      BY <3>1, <3>2, TupleIsSequence
    <3> QED BY <3>1, <3>2, <3>3
  <2> QED BY <2>1, <2>2 DEF Route
<1>2. ASSUME NEW p \in UNION {[1..k -> Peer] : k \in 1..Cardinality(Peer)}, NEW i \in 1..(Len(p) - 1)
      PROVE  /\ <<p[i], p[i + 1]>> \in Linked <=> edges[p[i]][p[i + 1]] # -1
             /\ <<p[i], p[i + 1]>> \in Trusted <=> edges[p[i]][p[i + 1]] > Trusting
  <2>1. PICK k \in 1..Cardinality(Peer) : p \in [1..k -> Peer]
    OBVIOUS
  <2>2. Len(p) = k /\ k \in Nat
    BY <2>1, GraphNumbers, TupleIsSequence
  <2>3. p[i] \in Peer /\ p[i + 1] \in Peer
    BY <2>1, <2>2
  <2> QED BY <2>3 DEF Linked, Trusted
<1>3. ASSUME NEW p
      PROVE  p \in Z!SimplePaths(n, m, Z!HasEdge) <=>
             /\ p \in UNION {[1..k -> Peer] : k \in 1..Cardinality(Peer)}
             /\ p[1] = n /\ p[Len(p)] = m
             /\ \A i, j \in DOMAIN p : p[i] = p[j] => i = j
             /\ \A i \in 1..(Len(p) - 1) : edges[p[i]][p[i + 1]] # -1
  BY SameCardinality DEF Z!SimplePaths, Z!HasEdge, Z!Absent
<1>4. ASSUME NEW p
      PROVE  p \in Z!SimplePaths(n, m, Z!IsTrusting) <=>
             /\ p \in UNION {[1..k -> Peer] : k \in 1..Cardinality(Peer)}
             /\ p[1] = n /\ p[Len(p)] = m
             /\ \A i, j \in DOMAIN p : p[i] = p[j] => i = j
             /\ \A i \in 1..(Len(p) - 1) : edges[p[i]][p[i + 1]] > Trusting
  BY SameCardinality DEF Z!SimplePaths, Z!IsTrusting
<1>5. ASSUME NEW p PROVE p \in Z!SimplePaths(n, m, Z!HasEdge) <=> Route(p, Linked, n, m)
  BY <1>1, <1>2, <1>3
<1>6. ASSUME NEW p PROVE p \in Z!SimplePaths(n, m, Z!IsTrusting) <=> Route(p, Trusted, n, m)
  BY <1>1, <1>2, <1>4
<1> QED BY <1>5, <1>6

LEMMA Prefix ==
    ASSUME NEW p, NEW R, NEW a, NEW b, Route(p, R, a, b), NEW k \in 1..Len(p)
    PROVE  Route([i \in 1..k |-> p[i]], R, a, p[k]) /\ Len([i \in 1..k |-> p[i]]) = k
<1>1. PICK q : q = [i \in 1..k |-> p[i]]
  OBVIOUS
<1>2. k \in Nat /\ k >= 1 /\ k <= Len(p) /\ Len(p) \in Nat /\ p \in [1..Len(p) -> Peer]
  BY RouteFacts
<1>3. q \in [1..k -> Peer]
  BY <1>1, <1>2
<1>4. q \in Seq(Peer) /\ Len(q) = k
  BY <1>2, <1>3, TupleIsSequence
<1>5. \A i \in 1..k : q[i] = p[i] /\ i \in 1..Len(p)
  BY <1>1, <1>2
<1>6. ASSUME NEW i \in 1..(k - 1) PROVE <<q[i], q[i + 1]>> \in R
  <2>1. i \in 1..k /\ i + 1 \in 1..k /\ i \in 1..(Len(p) - 1)
    BY <1>2
  <2> QED BY <1>5, <2>1 DEF Route
<1>7. ASSUME NEW i \in 1..k, NEW j \in 1..k, q[i] = q[j] PROVE i = j
  BY <1>5, <1>7 DEF Route
<1>8. q[1] = a /\ q[k] = p[k]
  BY <1>2, <1>5 DEF Route
<1> QED BY <1>1, <1>2, <1>4, <1>6, <1>7, <1>8 DEF Route

LEMMA Longer ==
    ASSUME NEW p, NEW R, NEW a, NEW b, Route(p, R, a, b), NEW c \in Peer, <<b, c>> \in R,
           \A i \in 1..Len(p) : p[i] # c
    PROVE  /\ Route(Append(p, c), R, a, c) /\ Len(Append(p, c)) = Len(p) + 1
           /\ Append(p, c)[Len(p) + 1] = c
           /\ \A i \in 1..Len(p) : Append(p, c)[i] = p[i]
<1>1. PICK q, n : q = Append(p, c) /\ n = Len(p)
  OBVIOUS
<1>2. p \in Seq(Peer) /\ n \in Nat /\ n >= 1
  BY <1>1, RouteFacts DEF Route
<1>3. q \in Seq(Peer) /\ Len(q) = n + 1 /\ q[n + 1] = c /\ \A i \in 1..n : q[i] = p[i]
  BY <1>1, <1>2
<1>4. ASSUME NEW i \in 1..n PROVE <<q[i], q[i + 1]>> \in R
  <2>1. CASE i = n
    BY <1>1, <1>2, <1>3, <2>1 DEF Route
  <2>2. CASE i # n
    <3>1. i \in 1..(n - 1) /\ i + 1 \in 1..n
      BY <1>2, <2>2
    <3> QED BY <1>1, <1>3, <3>1 DEF Route
  <2> QED BY <2>1, <2>2
<1>5. ASSUME NEW i \in 1..(n + 1), NEW j \in 1..(n + 1), q[i] = q[j] PROVE i = j
  <2>1. (i \in 1..n \/ i = n + 1) /\ (j \in 1..n \/ j = n + 1)
    BY <1>2
  <2> QED BY <1>1, <1>3, <1>5, <2>1 DEF Route
<1>6. q[1] = a
  BY <1>2, <1>3 DEF Route
<1> QED BY <1>1, <1>2, <1>3, <1>4, <1>5, <1>6 DEF Route

LEMMA Shortest ==
    ASSUME NEW R, NEW a \in Peer
    PROVE  Route(<<a>>, R, a, a) /\ Len(<<a>>) = 1 /\ <<a>>[1] = a
BY DEF Route

\* The nodes that paths of at most k steps reach.
Reached(R, a, k) == {b \in Peer : \E p : Route(p, R, a, b) /\ Len(p) - 1 <= k}

LEMMA ReachedAtOnce ==
    ASSUME NEW R, NEW a \in Peer
    PROVE  Reached(R, a, 0) = {a}
<1>1. a \in Reached(R, a, 0)
  <2>1. Route(<<a>>, R, a, a) /\ Len(<<a>>) - 1 <= 0
    BY Shortest
  <2> QED BY <2>1 DEF Reached
<1>2. ASSUME NEW b \in Reached(R, a, 0) PROVE b = a
  <2>1. PICK p : Route(p, R, a, b) /\ Len(p) - 1 <= 0
    BY DEF Reached
  <2>2. Len(p) = 1
    <3>1. Len(p) \in Nat /\ Len(p) >= 1
      BY <2>1, RouteFacts
    <3>2. PICK n : n = Len(p)
      OBVIOUS
    <3>3. n \in Nat /\ n >= 1 /\ n - 1 <= 0
      BY <2>1, <3>1, <3>2
    <3> QED BY <3>2, <3>3
  <2> QED BY <2>1, <2>2 DEF Route
<1> QED BY <1>1, <1>2

LEMMA ReachedNext ==
    ASSUME NEW R, NEW a \in Peer, NEW k \in Nat
    PROVE  /\ Reached(R, a, k) \subseteq Reached(R, a, k + 1) /\ Reached(R, a, k + 1) \subseteq Peer
           /\ \A c \in Peer : c \in Reached(R, a, k + 1) <=>
                  c \in Reached(R, a, k) \/ \E b \in Reached(R, a, k) : <<b, c>> \in R
<1>1. ASSUME NEW c \in Reached(R, a, k + 1), c \notin Reached(R, a, k)
      PROVE  \E b \in Reached(R, a, k) : <<b, c>> \in R
  <2>1. PICK p : Route(p, R, a, c) /\ Len(p) - 1 <= k + 1
    BY DEF Reached
  <2>2. Len(p) \in Nat /\ ~(Len(p) - 1 <= k)
    BY <1>1, <2>1, RouteFacts DEF Reached
  <2>3. Len(p) - 1 \in 1..Len(p) /\ Len(p) - 1 \in 1..(Len(p) - 1) /\ (Len(p) - 1) + 1 = Len(p)
    BY <2>2
  <2>4. PICK q : Route(q, R, a, p[Len(p) - 1]) /\ Len(q) = Len(p) - 1
    BY <2>1, <2>3, Prefix
  <2>5. <<p[Len(p) - 1], c>> \in R
    BY <2>1, <2>3 DEF Route
  <2>6. p[Len(p) - 1] \in Reached(R, a, k)
    BY <2>1, <2>2, <2>4, RouteFacts DEF Reached
  <2> QED BY <2>5, <2>6
<1>2. ASSUME NEW c \in Peer, NEW b \in Reached(R, a, k), <<b, c>> \in R PROVE c \in Reached(R, a, k + 1)
  <2>1. PICK p : Route(p, R, a, b) /\ Len(p) - 1 <= k
    BY DEF Reached
  <2>2. Len(p) \in Nat
    BY <2>1, RouteFacts
  <2>3. CASE \A i \in 1..Len(p) : p[i] # c
    <3>1. Route(Append(p, c), R, a, c) /\ Len(Append(p, c)) = Len(p) + 1
      BY <1>2, <2>1, <2>3, Longer
    <3>2. Len(Append(p, c)) - 1 <= k + 1
      BY <2>1, <2>2, <3>1
    <3> QED BY <3>1, <3>2 DEF Reached
  <2>4. ASSUME NEW i \in 1..Len(p), p[i] = c PROVE c \in Reached(R, a, k + 1)
    <3>1. PICK q : Route(q, R, a, c) /\ Len(q) = i
      BY <2>1, <2>4, Prefix
    <3>2. Len(q) - 1 <= k + 1
      BY <2>1, <2>2, <3>1
    <3> QED BY <3>1, <3>2 DEF Reached
  <2> QED BY <2>3, <2>4
<1>3. Reached(R, a, k) \subseteq Reached(R, a, k + 1)
  <2> SUFFICES ASSUME NEW b \in Reached(R, a, k) PROVE b \in Reached(R, a, k + 1)
    OBVIOUS
  <2>1. PICK p : Route(p, R, a, b) /\ Len(p) - 1 <= k
    BY DEF Reached
  <2> QED BY <2>1, RouteFacts DEF Reached
<1>4. Reached(R, a, k + 1) \subseteq Peer
  BY DEF Reached
<1> QED BY <1>1, <1>2, <1>3, <1>4

\* After as many steps as there are nodes, every path has been taken.
LEMMA ReachedAtLast ==
    ASSUME NEW R, NEW a \in Peer, NEW b \in Peer
    PROVE  b \in Reached(R, a, Cardinality(Peer)) <=> \E p : Route(p, R, a, b)
<1>1. ASSUME NEW p, Route(p, R, a, b) PROVE Len(p) - 1 <= Cardinality(Peer)
  BY <1>1, RouteFacts, GraphNumbers
<1> QED BY <1>1 DEF Reached

-----------------------------------------------------------------------------
(* TrustGraph: communities and distances *)

LEMMA NeighborsAre ==
    ASSUME edges \in Graph, NEW n \in Peer, NEW k \in Nat
    PROVE  Z!Neighbors(Reached(Trusted, n, k), Trusting + 1) = Reached(Trusted, n, k + 1)
<1>1. ASSUME NEW a \in Peer, NEW b \in Peer PROVE edges[a][b] >= Trusting + 1 <=> <<a, b>> \in Trusted
  BY GraphNumbers DEF Graph, Trusted
<1>2. PICK S : S = Reached(Trusted, n, k)
  OBVIOUS
<1>3. S \subseteq Peer
  BY <1>2 DEF Reached
<1>4. {m \in Peer : \E b \in S : edges[b][m] >= Trusting + 1} = {m \in Peer : \E b \in S : <<b, m>> \in Trusted}
  BY <1>1, <1>3
<1>5. Reached(Trusted, n, k + 1) = S \cup {m \in Peer : \E b \in S : <<b, m>> \in Trusted}
  <2>1. PICK W : W = Reached(Trusted, n, k + 1)
    OBVIOUS
  <2>2. /\ S \subseteq W /\ W \subseteq Peer
        /\ \A c \in Peer : c \in W <=> c \in S \/ \E b \in S : <<b, c>> \in Trusted
    BY <1>2, <2>1, ReachedNext
  <2> QED BY <2>1, <2>2
<1>6. Z!Neighbors(S, Trusting + 1) = S \cup {m \in Peer : \E b \in S : edges[b][m] >= Trusting + 1}
  BY DEF Z!Neighbors
<1> QED BY <1>2, <1>4, <1>5, <1>6

CommunityRun(f, n) ==
    f = [k \in 0..Cardinality(Peer) |-> IF k = 0 THEN {n} ELSE Z!Neighbors(f[k - 1], Trusting + 1)]

\* The community is what paths reach.
LEMMA CommunityIs ==
    ASSUME edges \in Graph, NEW n \in Peer
    PROVE  Z!find_trust_community(n, Trusting + 1) = Reached(Trusted, n, Cardinality(Peer))
<1> DEFINE N == Cardinality(Peer)
           f == CHOOSE g : CommunityRun(g, n)
           h == [k \in 0..N |-> Reached(Trusted, n, k)]
           S == {k \in 0..N : f[k] = Reached(Trusted, n, k)}
<1>0. N \in Nat
  BY GraphNumbers
<1>1. CommunityRun(h, n)
  <2>1. ASSUME NEW k \in 0..N PROVE h[k] = IF k = 0 THEN {n} ELSE Z!Neighbors(h[k - 1], Trusting + 1)
    <3>1. CASE k = 0
      BY <3>1, ReachedAtOnce
    <3>2. CASE k # 0
      <4>1. k - 1 \in Nat /\ k - 1 \in 0..N /\ (k - 1) + 1 = k
        BY <1>0, <3>2
      <4>2. Z!Neighbors(Reached(Trusted, n, k - 1), Trusting + 1) = Reached(Trusted, n, k)
        BY <4>1, NeighborsAre
      <4> QED BY <3>2, <4>1, <4>2
    <3> QED BY <3>1, <3>2
  <2>2. h = [k \in 0..N |-> h[k]]
    OBVIOUS
  <2> HIDE DEF h
  <2> QED BY <2>1, <2>2 DEF CommunityRun
<1>2. CommunityRun(f, n)
  BY <1>1
<1>3. Z!find_trust_community(n, Trusting + 1) = f[N]
  BY SameCardinality DEF Z!find_trust_community, CommunityRun
<1> HIDE DEF f, h
<1>4. 0 \in S
  BY <1>0, <1>2, ReachedAtOnce DEF CommunityRun
<1>5. ASSUME NEW k \in 0..(N - 1), k \in S PROVE k + 1 \in S
  <2>1. k + 1 \in 0..N /\ k \in Nat /\ (k + 1) - 1 = k /\ k + 1 # 0
    BY <1>0
  <2>2. f[k + 1] = Z!Neighbors(f[k], Trusting + 1)
    BY <1>2, <2>1 DEF CommunityRun
  <2> QED BY <1>5, <2>1, <2>2, NeighborsAre
<1>6. N \in S
  <2> HIDE DEF S, N
  <2>1. \A i \in 0..N : i \in S
    BY <1>0, <1>4, <1>5, UpTo
  <2> QED BY <1>0, <2>1
<1> QED BY <1>3, <1>6

\* The nodes that the search finds as it comes to level k.
Frontier(n, k) == IF k = 0 THEN {n} ELSE Reached(Trusted, n, k) \ Reached(Trusted, n, k - 1)

AtLevel(n, k) == [frontier |-> Frontier(n, k), visited |-> Reached(Trusted, n, k)]

LEMMA LevelIs ==
    ASSUME edges \in Graph, NEW n \in Peer, NEW k \in Nat
    PROVE  Z!Level(AtLevel(n, k)) = AtLevel(n, k + 1)
<1>1. PICK F, V, W : F = Frontier(n, k) /\ V = Reached(Trusted, n, k) /\ W = Reached(Trusted, n, k + 1)
  OBVIOUS
<1>2. F \subseteq Peer /\ F \subseteq V /\ V \subseteq Peer /\ W \subseteq Peer /\ V \subseteq W
  <2>1. V \subseteq Peer /\ W \subseteq Peer
    BY <1>1 DEF Reached
  <2>2. V \subseteq W
    BY <1>1, ReachedNext
  <2>3. F \subseteq V
    <3>1. CASE k = 0
      BY <1>1, <3>1, ReachedAtOnce DEF Frontier
    <3>2. CASE k # 0
      BY <1>1, <3>2 DEF Frontier
    <3> QED BY <3>1, <3>2
  <2> QED BY <2>1, <2>2, <2>3
<1>10. \A c \in Peer : c \in W <=> c \in V \/ \E b \in V : <<b, c>> \in Trusted
  BY <1>1, ReachedNext
<1>3. \A b, c \in Peer : c \in Z!get_trusts(b) <=> <<b, c>> \in Trusted
  BY DEF Z!get_trusts, Trusted
<1>9. \A b : Z!get_trusts(b) \subseteq Peer
  BY DEF Z!get_trusts
<1>4. ASSUME NEW c \in W, c \notin V PROVE \E b \in F : c \in Z!get_trusts(b)
  <2>1. PICK b \in V : <<b, c>> \in Trusted
    BY <1>2, <1>4, <1>10
  <2>2. b \in F
    <3>1. CASE k = 0
      BY <1>1, <3>1, ReachedAtOnce DEF Frontier
    <3>2. CASE k # 0
      <4>1. k - 1 \in Nat /\ (k - 1) + 1 = k
        BY <3>2
      <4>2. b \notin Reached(Trusted, n, k - 1)
        <5>1. \A c2 \in Peer : c2 \in V <=>
                  c2 \in Reached(Trusted, n, k - 1) \/ \E a \in Reached(Trusted, n, k - 1) : <<a, c2>> \in Trusted
          BY <1>1, <4>1, ReachedNext
        <5> QED BY <1>2, <1>4, <2>1, <5>1
      <4> QED BY <1>1, <2>1, <3>2, <4>2 DEF Frontier
    <3> QED BY <3>1, <3>2
  <2> QED BY <1>2, <1>3, <2>1, <2>2
<1>5. ASSUME NEW b \in F, NEW c \in Z!get_trusts(b) PROVE c \in W
  <2>1. c \in Peer /\ <<b, c>> \in Trusted /\ b \in V
    BY <1>2, <1>3, <1>9
  <2> QED BY <1>10, <2>1
<1>6. PICK U : U = UNION {Z!get_trusts(b) : b \in F}
  OBVIOUS
<1>11. \A c \in W \ V : c \in U
  BY <1>4, <1>6
<1>12. U \subseteq W
  BY <1>5, <1>6
<1>13. U \ V = W \ V
  BY <1>11, <1>12
<1>14. Z!Level([frontier |-> F, visited |-> V]) = [frontier |-> U \ V, visited |-> V \cup (U \ V)]
  BY <1>6 DEF Z!Level
<1>7. Frontier(n, k + 1) = W \ V
  <2>1. k + 1 # 0 /\ (k + 1) - 1 = k
    OBVIOUS
  <2> QED BY <1>1, <2>1 DEF Frontier
<1>8. V \cup (W \ V) = W
  BY <1>2
<1> QED BY <1>1, <1>7, <1>8, <1>13, <1>14 DEF AtLevel

LevelRun(f, n) ==
    f = [k \in 0..Cardinality(Peer) |->
            IF k = 0 THEN [frontier |-> {n}, visited |-> {n}] ELSE Z!Level(f[k - 1])]

LEMMA LevelsAre ==
    ASSUME edges \in Graph, NEW n \in Peer, NEW m
    PROVE  Z!calculate_trust_distance(n, m) =
               LET found == {k \in 0..Cardinality(Peer) : m \in Frontier(n, k)}
               IN  IF found = {} THEN -1 ELSE Z!Min(found)
<1> DEFINE N == Cardinality(Peer)
           f == CHOOSE g : LevelRun(g, n)
           h == [k \in 0..N |-> AtLevel(n, k)]
           S == {k \in 0..N : f[k] = AtLevel(n, k)}
<1>0. N \in Nat
  BY GraphNumbers
<1>9. AtLevel(n, 0) = [frontier |-> {n}, visited |-> {n}]
  BY ReachedAtOnce DEF AtLevel, Frontier
<1>1. LevelRun(h, n)
  <2>1. ASSUME NEW k \in 0..N
        PROVE  h[k] = IF k = 0 THEN [frontier |-> {n}, visited |-> {n}] ELSE Z!Level(h[k - 1])
    <3>1. CASE k = 0
      BY <1>9, <3>1
    <3>2. CASE k # 0
      <4>1. k - 1 \in Nat /\ k - 1 \in 0..N /\ (k - 1) + 1 = k
        BY <1>0, <3>2
      <4>2. Z!Level(AtLevel(n, k - 1)) = AtLevel(n, k)
        BY <4>1, LevelIs
      <4> QED BY <3>2, <4>1, <4>2
    <3> QED BY <3>1, <3>2
  <2>2. h = [k \in 0..N |-> h[k]]
    OBVIOUS
  <2> HIDE DEF h
  <2> QED BY <2>1, <2>2 DEF LevelRun
<1>2. LevelRun(f, n)
  BY <1>1
<1>3. Z!calculate_trust_distance(n, m) =
          LET found == {k \in 0..N : m \in f[k].frontier} IN IF found = {} THEN -1 ELSE Z!Min(found)
  BY SameCardinality DEF Z!calculate_trust_distance, LevelRun, Z!Absent
<1> HIDE DEF f, h
<1>4. 0 \in S
  BY <1>0, <1>2, <1>9 DEF LevelRun
<1>5. ASSUME NEW k \in 0..(N - 1), k \in S PROVE k + 1 \in S
  <2>1. k + 1 \in 0..N /\ k \in Nat /\ (k + 1) - 1 = k /\ k + 1 # 0
    BY <1>0
  <2>2. f[k + 1] = Z!Level(f[k])
    BY <1>2, <2>1 DEF LevelRun
  <2> QED BY <1>5, <2>1, <2>2, LevelIs
<1>6. \A i \in 0..N : i \in S
  <2> HIDE DEF S, N
  <2> QED BY <1>0, <1>4, <1>5, UpTo
<1>7. \A i \in 0..N : f[i].frontier = Frontier(n, i)
  <2> SUFFICES ASSUME NEW i \in 0..N PROVE f[i].frontier = Frontier(n, i)
    OBVIOUS
  <2>1. f[i] = AtLevel(n, i)
    BY <1>6
  <2> QED BY <2>1 DEF AtLevel
<1>8. {k \in 0..N : m \in f[k].frontier} = {k \in 0..N : m \in Frontier(n, k)}
  BY <1>7
<1> QED BY <1>3, <1>8

\* The least of a set, as FiniteSetsExt has it.
LEMMA MinIs ==
    ASSUME NEW S \in SUBSET Nat, NEW d \in S, \A x \in S : d <= x
    PROVE  Z!Min(S) = d
<1>1. Z!Min(S) = CHOOSE x \in S : \A y \in S : x <= y
  BY DEF Z!Min
<1>2. Z!Min(S) \in S /\ \A y \in S : Z!Min(S) <= y
  BY <1>1
<1>3. Z!Min(S) <= d /\ d <= Z!Min(S) /\ Z!Min(S) \in Nat /\ d \in Nat
  BY <1>2
<1> QED BY <1>3

LEMMA DistanceIs ==
    ASSUME edges \in Graph, NEW n \in Peer, NEW m \in Peer, NEW paths,
           \A p : p \in paths <=> Route(p, Trusted, n, m)
    PROVE  Z!calculate_trust_distance(n, m) = IF paths = {} THEN -1 ELSE Z!Min({Len(p) - 1 : p \in paths})
<1> DEFINE N == Cardinality(Peer)
           found == {k \in 0..N : m \in Frontier(n, k)}
           D == {Len(p) - 1 : p \in paths}
<1>0. N \in Nat
  BY GraphNumbers
<1>1. D \in SUBSET (0..N)
  BY <1>0, RouteFacts
<1>2. found \in SUBSET Nat /\ D \in SUBSET Nat
  BY <1>0, <1>1
<1>3. ASSUME NEW k \in found PROVE \E d \in D : d <= k
  <2>1. m \in Reached(Trusted, n, k)
    BY <1>3, ReachedAtOnce DEF Frontier
  <2> QED BY <2>1 DEF Reached
<1>4. ASSUME NEW d \in D, \A e \in D : d <= e PROVE d \in found
  <2>1. PICK p \in paths : d = Len(p) - 1
    OBVIOUS
  <2>2. m \in Reached(Trusted, n, d)
    <3>1. Route(p, Trusted, n, m) /\ Len(p) - 1 <= d
      BY <1>2, <2>1
    <3> QED BY <3>1 DEF Reached
  <2>3. CASE d = 0
    BY <1>0, <2>2, <2>3, ReachedAtOnce DEF Frontier
  <2>4. CASE d # 0
    <3>1. m \notin Reached(Trusted, n, d - 1)
      <4> SUFFICES ASSUME NEW q, Route(q, Trusted, n, m), Len(q) - 1 <= d - 1 PROVE FALSE
        BY DEF Reached
      <4>1. Len(q) - 1 \in D
        OBVIOUS
      <4>2. d <= Len(q) - 1 /\ Len(q) - 1 \in Nat /\ d \in Nat
        BY <1>2, <1>4, <4>1
      <4> QED BY <4>2
    <3>2. d \in 0..N
      BY <1>1
    <3> QED BY <2>2, <2>4, <3>1, <3>2 DEF Frontier
  <2> QED BY <2>3, <2>4
<1>5. CASE paths = {}
  <2>1. D = {}
    BY <1>5
  <2>2. found = {}
    <3> HIDE DEF found, D
    <3> QED BY <1>3, <2>1
  <2> QED BY <1>5, <2>2, LevelsAre
<1>6. CASE paths # {}
  <2>1. D # {}
    BY <1>6
  <2>2. PICK d \in D : \A e \in D : d <= e
    <3> HIDE DEF D
    <3> QED BY <1>2, <2>1, LeastNumber
  <2>3. d \in found
    <3> HIDE DEF D, found
    <3> QED BY <1>4, <2>2
  <2>4. \A k \in found : d <= k
    <3> HIDE DEF D, found
    <3> SUFFICES ASSUME NEW k \in found PROVE d <= k
      OBVIOUS
    <3>1. PICK e \in D : e <= k
      BY <1>3
    <3>2. d <= e /\ d \in Nat /\ e \in Nat /\ k \in Nat
      BY <1>2, <2>2
    <3> QED BY <3>1, <3>2
  <2>5. Z!Min(found) = d /\ Z!Min(D) = d
    <3> HIDE DEF D, found
    <3> QED BY <1>2, <2>2, <2>3, <2>4, MinIs
  <2>6. Z!calculate_trust_distance(n, m) = IF found = {} THEN -1 ELSE Z!Min(found)
    BY LevelsAre
  <2> HIDE DEF D, found
  <2>7. Z!calculate_trust_distance(n, m) = d
    BY <2>3, <2>5, <2>6
  <2>8. Z!Min({Len(p) - 1 : p \in paths}) = d
    BY <2>5 DEF D
  <2> QED BY <1>6, <2>7, <2>8
<1> QED BY <1>5, <1>6

-----------------------------------------------------------------------------
(* TrustGraph: all paths, and their strength *)

\* The paths of k nodes that the depth-first search is called for.
Called(n, m, k) ==
    {p \in Seq(Peer) : /\ Route(p, Trusted, n, p[k]) /\ Len(p) = k
                       /\ \A i \in 1..(k - 1) : p[i] # m}

LEMMA CalledFirst ==
    ASSUME NEW n \in Peer, NEW m
    PROVE  Called(n, m, 1) = {<<n>>}
<1>1. <<n>> \in Called(n, m, 1)
  BY Shortest DEF Called
<1>2. ASSUME NEW p \in Called(n, m, 1) PROVE p = <<n>>
  <2>1. p \in Seq(Peer) /\ Len(p) = 1 /\ p[1] = n
    BY DEF Called, Route
  <2> QED BY <2>1
<1> QED BY <1>1, <1>2

LEMMA CallsAre ==
    ASSUME NEW p, NEW q, NEW m
    PROVE  q \in Z!dfs_find_paths(p, m) <=>
           \E x \in Peer : /\ q = Append(p, x) /\ edges[p[Len(p)]][x] > Trusting /\ p[Len(p)] # m
                           /\ \A i \in 1..Len(p) : p[i] # x
<1>1. Z!Last(p) = p[Len(p)]
  BY DEF Z!Last
<1>2. \A x : Z!Contains(p, x) <=> \E i \in 1..Len(p) : p[i] = x
  BY DEF Z!Contains
<1>3. \A x : x \in Z!get_trusts(p[Len(p)]) <=> x \in Peer /\ edges[p[Len(p)]][x] > Trusting
  BY DEF Z!get_trusts
<1>4. Z!dfs_find_paths(p, m) =
        {Append(p, x) : x \in {y \in Z!get_trusts(p[Len(p)]) : p[Len(p)] # m /\ ~Z!Contains(p, y)}}
  BY <1>1 DEF Z!dfs_find_paths
<1> QED BY <1>2, <1>3, <1>4

LEMMA CalledNext ==
    ASSUME edges \in Graph, NEW n \in Peer, NEW m, NEW k \in Nat, k >= 1
    PROVE  UNION {Z!dfs_find_paths(p, m) : p \in Called(n, m, k)} = Called(n, m, k + 1)
<1>1. ASSUME NEW p \in Called(n, m, k), NEW q \in Z!dfs_find_paths(p, m) PROVE q \in Called(n, m, k + 1)
  <2>1. p \in Seq(Peer) /\ Len(p) = k /\ Route(p, Trusted, n, p[k]) /\ \A i \in 1..(k - 1) : p[i] # m
    BY DEF Called
  <2>2. PICK x \in Peer : /\ q = Append(p, x) /\ edges[p[k]][x] > Trusting /\ p[k] # m
                          /\ \A i \in 1..k : p[i] # x
    BY <2>1, CallsAre
  <2>3. <<p[k], x>> \in Trusted
    BY <2>1, <2>2 DEF Trusted
  <2>4. /\ Route(q, Trusted, n, x) /\ Len(q) = k + 1 /\ q[k + 1] = x
        /\ \A i \in 1..k : q[i] = p[i]
    BY <2>1, <2>2, <2>3, Longer
  <2>5. \A i \in 1..k : q[i] # m
    <3>1. \A i \in 1..k : i = k \/ i \in 1..(k - 1)
      OBVIOUS
    <3> QED BY <2>1, <2>2, <2>4, <3>1
  <2>6. (k + 1) - 1 = k /\ q \in Seq(Peer)
    BY <2>1, <2>2
  <2> QED BY <2>4, <2>5, <2>6 DEF Called
<1>2. ASSUME NEW q \in Called(n, m, k + 1) PROVE \E p \in Called(n, m, k) : q \in Z!dfs_find_paths(p, m)
  <2>1. /\ q \in Seq(Peer) /\ Len(q) = k + 1 /\ Route(q, Trusted, n, q[k + 1])
        /\ \A i \in 1..k : q[i] # m
    BY DEF Called
  <2>2. PICK p : p = [i \in 1..k |-> q[i]]
    OBVIOUS
  <2>3. k \in 1..Len(q)
    BY <2>1
  <2>4. Route(p, Trusted, n, q[k]) /\ Len(p) = k
    BY <2>1, <2>2, <2>3, Prefix
  <2>5. \A i \in 1..k : p[i] = q[i]
    BY <2>2
  <2>6. p \in Seq(Peer)
    BY <2>4 DEF Route
  <2>7. p \in Called(n, m, k)
    BY <2>1, <2>4, <2>5, <2>6 DEF Called
  <2>8. q = Append(p, q[k + 1])
    BY <2>1, <2>4, <2>5, <2>6
  <2>9. q[k + 1] \in Peer /\ edges[p[k]][q[k + 1]] > Trusting
    <3>1. <<q[k], q[k + 1]>> \in Trusted
      BY <2>1 DEF Route
    <3> QED BY <2>5, <3>1 DEF Trusted
  <2>10. \A i \in 1..k : p[i] # q[k + 1]
    BY <2>1, <2>5 DEF Route
  <2>11. p[k] # m
    BY <2>1, <2>5
  <2>12. q \in Z!dfs_find_paths(p, m)
    BY <2>4, <2>8, <2>9, <2>10, <2>11, CallsAre
  <2> QED BY <2>7, <2>12
<1> QED BY <1>1, <1>2

CalledRun(f, n, m, h) ==
    f = [k \in 1..h |-> IF k = 1 THEN {<<n>>} ELSE UNION {Z!dfs_find_paths(p, m) : p \in f[k - 1]}]

\* find_all_paths finds the simple paths of fewer nodes than max_hops.
LEMMA AllPathsAre ==
    ASSUME edges \in Graph, NEW n \in Peer, NEW m \in Peer, NEW h \in Nat
    PROVE  \A p : p \in Z!find_all_paths(n, m, h) <=> Route(p, Trusted, n, m) /\ Len(p) < h
<1> DEFINE f == CHOOSE g : CalledRun(g, n, m, h)
           w == [k \in 1..h |-> Called(n, m, k)]
           S == {k \in 1..h : f[k] = Called(n, m, k)}
<1>1. CalledRun(w, n, m, h)
  <2>1. ASSUME NEW k \in 1..h
        PROVE  w[k] = IF k = 1 THEN {<<n>>} ELSE UNION {Z!dfs_find_paths(p, m) : p \in w[k - 1]}
    <3>1. CASE k = 1
      BY <3>1, CalledFirst
    <3>2. CASE k # 1
      <4>1. k - 1 \in Nat /\ k - 1 \in 1..h /\ k - 1 >= 1 /\ (k - 1) + 1 = k
        BY <3>2
      <4>2. UNION {Z!dfs_find_paths(p, m) : p \in Called(n, m, k - 1)} = Called(n, m, k)
        BY <4>1, CalledNext
      <4>3. w[k - 1] = Called(n, m, k - 1) /\ w[k] = Called(n, m, k)
        BY <4>1
      <4> HIDE DEF w
      <4> QED BY <3>2, <4>2, <4>3
    <3> QED BY <3>1, <3>2
  <2>2. w = [k \in 1..h |-> w[k]]
    OBVIOUS
  <2> HIDE DEF w
  <2> QED BY <2>1, <2>2 DEF CalledRun
<1>2. CalledRun(f, n, m, h)
  BY <1>1
<1>3. Z!find_all_paths(n, m, h) = {p \in UNION {f[k] : k \in 1..(h - 1)} : Z!Last(p) = m}
  BY DEF Z!find_all_paths, CalledRun
<1> HIDE DEF f, w
<1>4. \A k \in 1..h : k \in S
  <2>1. CASE h = 0
    BY <2>1
  <2>2. CASE h # 0
    <3>1. 1 \in S
      BY <1>2, <2>2, CalledFirst DEF CalledRun
    <3>2. ASSUME NEW k \in 1..(h - 1), k \in S PROVE k + 1 \in S
      <4>1. k + 1 \in 1..h /\ k \in Nat /\ (k + 1) - 1 = k /\ k + 1 # 1 /\ k >= 1
        OBVIOUS
      <4>2. f[k + 1] = UNION {Z!dfs_find_paths(p, m) : p \in f[k]}
        BY <1>2, <4>1 DEF CalledRun
      <4>3. f[k] = Called(n, m, k)
        BY <3>2
      <4>4. f[k + 1] = UNION {Z!dfs_find_paths(p, m) : p \in Called(n, m, k)}
        BY <4>2, <4>3
      <4> QED BY <4>1, <4>4, CalledNext
    <3> HIDE DEF S
    <3> QED BY <3>1, <3>2, UpTo
  <2> QED BY <2>1, <2>2
<1>5. \A k \in 1..(h - 1) : f[k] = Called(n, m, k)
  BY <1>4
<1>6. ASSUME NEW p PROVE p \in Z!find_all_paths(n, m, h) <=> Route(p, Trusted, n, m) /\ Len(p) < h
  <2>0. Z!Last(p) = p[Len(p)]
    BY DEF Z!Last
  <2>1. p \in Z!find_all_paths(n, m, h) <=> p[Len(p)] = m /\ \E k \in 1..(h - 1) : p \in Called(n, m, k)
    BY <1>3, <1>5, <2>0
  <2>2. ASSUME NEW k \in 1..(h - 1), p \in Called(n, m, k), p[Len(p)] = m
        PROVE  Route(p, Trusted, n, m) /\ Len(p) < h
    BY <2>2 DEF Called
  <2>3. ASSUME Route(p, Trusted, n, m), Len(p) < h
        PROVE  p[Len(p)] = m /\ \E k \in 1..(h - 1) : p \in Called(n, m, k)
    <3>1. Len(p) \in Nat /\ Len(p) >= 1
      BY <2>3, RouteFacts
    <3>2. PICK k : k = Len(p)
      OBVIOUS
    <3>3. k \in 1..(h - 1) /\ p[k] = m /\ p \in Seq(Peer)
      BY <2>3, <3>1, <3>2 DEF Route
    <3>4. ASSUME NEW i \in 1..(k - 1) PROVE p[i] # m
      <4>1. i \in 1..Len(p) /\ k \in 1..Len(p) /\ i # k
        BY <3>1, <3>2
      <4> QED BY <2>3, <3>3, <4>1 DEF Route
    <3>5. p \in Called(n, m, k)
      BY <2>3, <3>2, <3>3, <3>4 DEF Called
    <3> QED BY <3>2, <3>3, <3>5
  <2> QED BY <2>1, <2>2, <2>3
<1> QED BY <1>6

\* The product along p, up to each of its nodes.
Multiplied(f, p, k) ==
    /\ f \in [1..k -> 0..Unit]
    /\ \A i \in 1..k : f[i] = IF i = 1 THEN Unit ELSE (f[i - 1] * edges[p[i - 1]][p[i]]) \div Unit

StrengthRun(f, p) ==
    f = [i \in 1..Len(p) |-> IF i = 1 THEN Unit ELSE (f[i - 1] * edges[p[i - 1]][p[i]]) \div Unit]

Strengths(p) == CHOOSE f : StrengthRun(f, p)

LEMMA TrustedIsLinked == edges \in Graph => Trusted \subseteq Linked
BY GraphNumbers DEF Graph, Trusted, Linked

LEMMA RouteAlong ==
    ASSUME NEW p, NEW a, NEW b, edges \in Graph, Route(p, Trusted, a, b)
    PROVE  Route(p, Linked, a, b)
BY TrustedIsLinked DEF Route

LEMMA StepWeight ==
    ASSUME edges \in Graph, NEW p, NEW a, NEW b, Route(p, Linked, a, b), NEW i \in 1..(Len(p) - 1)
    PROVE  edges[p[i]][p[i + 1]] \in 0..Unit
<1>1. <<p[i], p[i + 1]>> \in Linked
  BY DEF Route
<1>2. p[i] \in Peer /\ p[i + 1] \in Peer /\ edges[p[i]][p[i + 1]] # -1
  BY <1>1 DEF Linked
<1> QED BY <1>2 DEF Graph

LEMMA MultipliedExists ==
    ASSUME edges \in Graph, NEW p, NEW a, NEW b, Route(p, Linked, a, b)
    PROVE  \E f : Multiplied(f, p, Len(p))
<1> DEFINE L == Len(p)
           S == {k \in 1..L : \E f : Multiplied(f, p, k)}
<1>0. L \in Nat /\ L >= 1 /\ Unit \in Nat
  BY RouteFacts, GraphNumbers
<1>1. 1 \in S
  <2>1. Multiplied([i \in 1..1 |-> Unit], p, 1)
    BY <1>0 DEF Multiplied
  <2> QED BY <1>0, <2>1
<1>2. ASSUME NEW k \in 1..(L - 1), k \in S PROVE k + 1 \in S
  <2>1. PICK f : Multiplied(f, p, k)
    BY <1>2
  <2>2. edges[p[k]][p[k + 1]] \in 0..Unit /\ f[k] \in 0..Unit
    BY <2>1, StepWeight DEF Multiplied
  <2>3. PICK v : v = (f[k] * edges[p[k]][p[k + 1]]) \div Unit
    OBVIOUS
  <2>4. v \in 0..Unit
    BY <2>2, <2>3, Products
  <2> DEFINE g == [i \in 1..(k + 1) |-> IF i = k + 1 THEN v ELSE f[i]]
  <2>5. ASSUME NEW i \in 1..(k + 1)
        PROVE  g[i] \in 0..Unit /\ g[i] = IF i = 1 THEN Unit ELSE (g[i - 1] * edges[p[i - 1]][p[i]]) \div Unit
    <3>1. CASE i = k + 1
      <4>1. g[i] = v /\ i - 1 = k /\ i # 1 /\ g[k] = f[k] /\ p[i] = p[k + 1]
        BY <3>1
      <4> QED BY <2>3, <2>4, <4>1
    <3>2. CASE i # k + 1
      <4>1. i \in 1..k /\ g[i] = f[i] /\ (i # 1 => g[i - 1] = f[i - 1])
        BY <3>2
      <4> QED BY <2>1, <4>1 DEF Multiplied
    <3> QED BY <3>1, <3>2
  <2>6. g \in [1..(k + 1) -> 0..Unit]
    BY <2>5
  <2> HIDE DEF g
  <2>7. Multiplied(g, p, k + 1)
    BY <2>5, <2>6 DEF Multiplied
  <2>8. k + 1 \in 1..L
    BY <1>0
  <2> QED BY <2>7, <2>8
<1>3. L \in S
  <2> HIDE DEF S, L
  <2>1. \A i \in 1..L : i \in S
    BY <1>0, <1>1, <1>2, UpTo
  <2> QED BY <1>0, <2>1
<1> QED BY <1>3

LEMMA RunMultiplied ==
    ASSUME edges \in Graph, NEW p, NEW a, NEW b, Route(p, Linked, a, b), NEW f, StrengthRun(f, p)
    PROVE  Multiplied(f, p, Len(p))
<1> DEFINE L == Len(p)
           S == {k \in 1..L : f[k] \in 0..Unit}
<1>0. L \in Nat /\ L >= 1 /\ Unit \in Nat
  BY RouteFacts, GraphNumbers
<1>1. \A i \in 1..L : f[i] = IF i = 1 THEN Unit ELSE (f[i - 1] * edges[p[i - 1]][p[i]]) \div Unit
  BY DEF StrengthRun
<1>2. 1 \in S
  BY <1>0, <1>1
<1>3. ASSUME NEW k \in 1..(L - 1), k \in S PROVE k + 1 \in S
  <2>1. k + 1 \in 1..L /\ k + 1 # 1 /\ (k + 1) - 1 = k
    BY <1>0
  <2>2. f[k + 1] = (f[k] * edges[p[k]][p[k + 1]]) \div Unit
    BY <1>1, <2>1
  <2>3. edges[p[k]][p[k + 1]] \in 0..Unit /\ f[k] \in 0..Unit
    BY <1>3, StepWeight
  <2> QED BY <2>1, <2>2, <2>3, Products
<1>4. \A i \in 1..L : i \in S
  <2> HIDE DEF S, L
  <2> QED BY <1>0, <1>2, <1>3, UpTo
<1>5. f \in [1..L -> 0..Unit]
  BY <1>4 DEF StrengthRun
<1> QED BY <1>1, <1>5 DEF Multiplied

LEMMA StrengthsMultiplied ==
    ASSUME edges \in Graph, NEW p, NEW a, NEW b, Route(p, Linked, a, b)
    PROVE  Multiplied(Strengths(p), p, Len(p)) /\ StrengthRun(Strengths(p), p)
<1>1. PICK f : Multiplied(f, p, Len(p))
  BY MultipliedExists
<1>2. StrengthRun(f, p)
  BY <1>1 DEF StrengthRun, Multiplied
<1>3. StrengthRun(Strengths(p), p)
  BY <1>2 DEF Strengths
<1> QED BY <1>3, RunMultiplied

LEMMA StrengthFacts ==
    ASSUME edges \in Graph, NEW p, NEW a, NEW b, Route(p, Linked, a, b)
    PROVE  /\ \A i \in 1..Len(p) : Strengths(p)[i] \in 0..Unit
           /\ Strengths(p)[1] = Unit
           /\ \A i \in 1..(Len(p) - 1) :
                 Strengths(p)[i + 1] = (Strengths(p)[i] * edges[p[i]][p[i + 1]]) \div Unit
           /\ \A i \in 1..Len(p) : Strengths(p)[Len(p)] <= Strengths(p)[i]
<1> DEFINE L == Len(p)
<1>0. L \in Nat /\ L >= 1 /\ Unit \in Nat
  BY RouteFacts, GraphNumbers
<1>1. PICK s : s = Strengths(p)
  OBVIOUS
<1>2. /\ \A i \in 1..L : s[i] \in 0..Unit
      /\ \A i \in 1..L : s[i] = IF i = 1 THEN Unit ELSE (s[i - 1] * edges[p[i - 1]][p[i]]) \div Unit
  BY <1>1, StrengthsMultiplied DEF Multiplied
<1>3. s[1] = Unit
  BY <1>0, <1>2
<1>4. ASSUME NEW i \in 1..(L - 1) PROVE s[i + 1] = (s[i] * edges[p[i]][p[i + 1]]) \div Unit /\ s[i + 1] <= s[i]
  <2>1. i + 1 \in 1..L /\ i + 1 # 1 /\ (i + 1) - 1 = i /\ i \in 1..L
    BY <1>0
  <2>2. s[i + 1] = (s[i] * edges[p[i]][p[i + 1]]) \div Unit
    BY <1>2, <2>1
  <2>3. edges[p[i]][p[i + 1]] \in 0..Unit /\ s[i] \in 0..Unit
    BY <1>2, <2>1, StepWeight
  <2> QED BY <2>2, <2>3, Products
<1>5. ASSUME NEW i \in 1..L PROVE s[L] <= s[i]
  <2> DEFINE S == {j \in i..L : s[j] <= s[i]}
  <2>1. i \in S
    BY <1>0, <1>2
  <2>2. ASSUME NEW j \in i..(L - 1), j \in S PROVE j + 1 \in S
    <3>1. j \in 1..(L - 1) /\ j + 1 \in i..L /\ j \in 1..L /\ j + 1 \in 1..L
      BY <1>0
    <3>2. s[j + 1] <= s[j] /\ s[j] <= s[i]
      BY <1>4, <2>2, <3>1
    <3>3. s[j + 1] \in Int /\ s[j] \in Int /\ s[i] \in Int
      BY <1>0, <1>2, <3>1
    <3> QED BY <3>1, <3>2, <3>3
  <2>3. \A j \in i..L : j \in S
    <3> HIDE DEF S
    <3>1. i \in Nat /\ L \in Nat
      BY <1>0
    <3> HIDE DEF L
    <3> QED BY <2>1, <2>2, <3>1, UpTo
  <2>4. L \in i..L
    BY <1>0
  <2> QED BY <2>3, <2>4
<1> QED BY <1>1, <1>2, <1>3, <1>4, <1>5

\* One more step multiplies by one more weight.
LEMMA StrengthOfLonger ==
    ASSUME edges \in Graph, NEW p, NEW a, NEW b, Route(p, Linked, a, b), NEW c \in Peer,
           Route(Append(p, c), Linked, a, c)
    PROVE  /\ \A i \in 1..Len(p) : Strengths(Append(p, c))[i] = Strengths(p)[i]
           /\ Strengths(Append(p, c))[Len(p) + 1] = (Strengths(p)[Len(p)] * edges[b][c]) \div Unit
<1>1. PICK q, L, s, t : q = Append(p, c) /\ L = Len(p) /\ s = Strengths(p) /\ t = Strengths(q)
  OBVIOUS
<1>2. L \in Nat /\ L >= 1 /\ p \in Seq(Peer)
  BY <1>1, RouteFacts DEF Route
<1>3. Len(q) = L + 1 /\ q[L + 1] = c /\ \A i \in 1..L : q[i] = p[i]
  BY <1>1, <1>2
<1>4. s[1] = Unit /\ \A i \in 1..(L - 1) : s[i + 1] = (s[i] * edges[p[i]][p[i + 1]]) \div Unit
  BY <1>1, StrengthFacts
<1>5. t[1] = Unit /\ \A i \in 1..L : t[i + 1] = (t[i] * edges[q[i]][q[i + 1]]) \div Unit
  <2>1. Route(q, Linked, a, c)
    BY <1>1
  <2>2. t[1] = Unit /\ \A i \in 1..(Len(q) - 1) : t[i + 1] = (t[i] * edges[q[i]][q[i + 1]]) \div Unit
    BY <1>1, <2>1, StrengthFacts
  <2>3. Len(q) - 1 = L
    BY <1>2, <1>3
  <2> QED BY <2>2, <2>3
<1> DEFINE S == {i \in 1..L : t[i] = s[i]}
<1>6. 1 \in S
  BY <1>2, <1>4, <1>5
<1>7. ASSUME NEW i \in 1..(L - 1), i \in S PROVE i + 1 \in S
  <2>1. i \in 1..L /\ i + 1 \in 1..L
    BY <1>2
  <2>2. q[i] = p[i] /\ q[i + 1] = p[i + 1] /\ t[i] = s[i]
    BY <1>3, <1>7, <2>1
  <2> QED BY <1>4, <1>5, <2>1, <2>2
<1>8. \A i \in 1..L : t[i] = s[i]
  <2>1. \A i \in 1..L : i \in S
    <3> HIDE DEF S
    <3> QED BY <1>2, <1>6, <1>7, UpTo
  <2> QED BY <2>1
<1>9. L \in 1..L /\ p[L] = b
  BY <1>1, <1>2 DEF Route
<1>10. t[L + 1] = (s[L] * edges[b][c]) \div Unit
  BY <1>3, <1>5, <1>8, <1>9
<1> QED BY <1>1, <1>8, <1>10

LEMMA PathStrengthIs ==
    ASSUME NEW p
    PROVE  Z!calculate_path_strength(p) = IF Len(p) < 2 THEN 0 ELSE Strengths(p)[Len(p)]
BY DEF Z!calculate_path_strength, Strengths, StrengthRun

LEMMA PathStrengthNumber ==
    ASSUME edges \in Graph, NEW p, NEW a, NEW b, Route(p, Linked, a, b)
    PROVE  Z!calculate_path_strength(p) \in 0..Unit
<1>1. Len(p) \in 1..Len(p) /\ Unit \in Nat
  BY RouteFacts, GraphNumbers
<1>2. Strengths(p)[Len(p)] \in 0..Unit
  BY <1>1, StrengthFacts
<1> QED BY <1>1, <1>2, PathStrengthIs

LEMMA EmptyStrength == Z!calculate_path_strength(<<>>) = 0
<1>1. Len(<<>>) = 0
  OBVIOUS
<1> QED BY <1>1, PathStrengthIs

\* A set of numbers with a bound has a greatest member.
LEMMA GreatestNumber ==
    ASSUME NEW S \in SUBSET Nat, S # {}, NEW n \in Nat, \A x \in S : x <= n
    PROVE  \E x \in S : \A y \in S : y <= x
<1> DEFINE T == {n - x : x \in S}
<1>1. T \in SUBSET Nat /\ T # {}
  <2>1. \A x \in S : n - x \in Nat
    OBVIOUS
  <2>2. PICK y : y \in S
    OBVIOUS
  <2>3. n - y \in T
    BY <2>2
  <2> QED BY <2>1, <2>3
<1>2. PICK t \in T : \A u \in T : t <= u
  <2> HIDE DEF T
  <2> QED BY <1>1, LeastNumber
<1>3. PICK x \in S : t = n - x
  OBVIOUS
<1>4. ASSUME NEW y \in S PROVE y <= x
  <2>1. n - y \in T
    OBVIOUS
  <2>2. t <= n - y
    <3> HIDE DEF T
    <3> QED BY <1>2, <2>1
  <2>3. x \in Nat /\ y \in Nat
    OBVIOUS
  <2> QED BY <1>3, <2>2, <2>3
<1> QED BY <1>4

\* find_strongest_path returns a path that get_trusts gives, and none of fewer
\* nodes than max_hops is stronger.
LEMMA StrongestIs ==
    ASSUME edges \in Graph, NEW n \in Peer, NEW m \in Peer, NEW h \in Nat
    PROVE  /\ Z!find_strongest_path(n, m, h) # <<>> =>
                  /\ Route(Z!find_strongest_path(n, m, h), Trusted, n, m)
                  /\ Z!calculate_path_strength(Z!find_strongest_path(n, m, h)) > 0
           /\ \A p : Route(p, Trusted, n, m) /\ Len(p) < h =>
                  Z!calculate_path_strength(p) <= Z!calculate_path_strength(Z!find_strongest_path(n, m, h))
<1>1. PICK all : all = {p \in Z!find_all_paths(n, m, h) : Z!calculate_path_strength(p) > 0}
  OBVIOUS
<1>2. PICK best : best = Z!find_strongest_path(n, m, h)
  OBVIOUS
<1>3. best = IF all = {} THEN <<>>
             ELSE CHOOSE p \in all : \A q \in all : Z!calculate_path_strength(q) <= Z!calculate_path_strength(p)
  BY <1>1, <1>2 DEF Z!find_strongest_path
<1>4. \A p : p \in all <=> Route(p, Trusted, n, m) /\ Len(p) < h /\ Z!calculate_path_strength(p) > 0
  BY <1>1, AllPathsAre
<1>5. ASSUME NEW p, Route(p, Trusted, n, m) PROVE Z!calculate_path_strength(p) \in 0..Unit
  BY <1>5, RouteAlong, PathStrengthNumber
<1>6. CASE all = {}
  <2>1. best = <<>> /\ Z!calculate_path_strength(best) = 0
    BY <1>3, <1>6, EmptyStrength
  <2>2. ASSUME NEW p, Route(p, Trusted, n, m), Len(p) < h PROVE Z!calculate_path_strength(p) <= 0
    <3>1. ~(Z!calculate_path_strength(p) > 0)
      BY <1>4, <1>6, <2>2
    <3>2. Z!calculate_path_strength(p) \in 0..Unit
      BY <1>5, <2>2
    <3> QED BY <3>1, <3>2
  <2> QED BY <1>2, <2>1, <2>2
<1>7. CASE all # {}
  <2> DEFINE V == {Z!calculate_path_strength(p) : p \in all}
  <2>0. Unit \in Nat
    BY GraphNumbers
  <2>1. \A p \in all : Z!calculate_path_strength(p) \in 0..Unit
    BY <1>4, <1>5
  <2>2. V \in SUBSET Nat /\ V # {} /\ \A x \in V : x <= Unit
    BY <1>7, <2>0, <2>1
  <2>3. PICK x \in V : \A y \in V : y <= x
    <3> HIDE DEF V
    <3> QED BY <2>0, <2>2, GreatestNumber
  <2>4. PICK p \in all : Z!calculate_path_strength(p) = x
    OBVIOUS
  <2>5. \A q \in all : Z!calculate_path_strength(q) <= Z!calculate_path_strength(p)
    BY <2>3, <2>4
  <2>6. best \in all /\ \A q \in all : Z!calculate_path_strength(q) <= Z!calculate_path_strength(best)
    BY <1>3, <1>7, <2>5
  <2>7. ASSUME NEW q, Route(q, Trusted, n, m), Len(q) < h
        PROVE  Z!calculate_path_strength(q) <= Z!calculate_path_strength(best)
    <3>1. Z!calculate_path_strength(q) \in 0..Unit /\ Z!calculate_path_strength(best) \in 0..Unit
      BY <1>5, <2>1, <2>6, <2>7
    <3>2. CASE Z!calculate_path_strength(q) > 0
      BY <1>4, <2>6, <2>7, <3>2
    <3>3. CASE ~(Z!calculate_path_strength(q) > 0)
      BY <3>1, <3>3
    <3> QED BY <3>2, <3>3
  <2> QED BY <1>2, <1>4, <2>6, <2>7
<1> QED BY <1>6, <1>7

LEMMA NotEmptyCounts ==
    ASSUME NEW S, IsFiniteSet(S), S # {}
    PROVE  Cardinality(S) \in Nat /\ Cardinality(S) >= 1
<1>1. Cardinality(S) \in Nat /\ Cardinality(S) # 0
  BY FS_CardinalityType, FS_EmptySet
<1> QED BY <1>1

\* A bridge is inside a path, and so trusts a node and is trusted by one.
LEMMA BridgesAre ==
    ASSUME edges \in Graph, NEW n \in Z!find_bridge_nodes(1)
    PROVE  Z!get_trusts(n) # {} /\ n \in Z!find_trust_hubs(1)
<1>1. n \in Z!get_all_nodes /\ Z!calculate_betweenness_centrality(n) >= 1
  BY DEF Z!find_bridge_nodes
<1>2. n \in Peer /\ Z!get_all_nodes \subseteq Peer
  BY <1>1 DEF Z!get_all_nodes
<1>3. PICK all, inside : all = Z!Pairs(n) /\ inside = Z!Through(n)
  OBVIOUS
<1>4. IsFiniteSet(all) /\ inside \subseteq all
  <2>1. all \in SUBSET (Peer \X Peer)
    BY <1>2, <1>3 DEF Z!Pairs
  <2>2. IsFiniteSet(Peer \X Peer)
    BY GraphNumbers, FS_Product
  <2>3. IsFiniteSet(all)
    BY <2>1, <2>2, FS_Subset
  <2> QED BY <1>3, <2>3 DEF Z!Through
<1>5. inside # {}
  <2> SUFFICES ASSUME inside = {} PROVE FALSE
    OBVIOUS
  <2>1. Cardinality(inside) = 0
    BY FS_EmptySet
  <2>2. Z!calculate_betweenness_centrality(n) = IF all = {} THEN 0 ELSE (Unit * Cardinality(inside)) \div Cardinality(all)
    BY <1>3, SameCardinality DEF Z!calculate_betweenness_centrality
  <2>3. CASE all = {}
    BY <1>1, <2>2, <2>3
  <2>4. CASE all # {}
    <3>1. Cardinality(all) \in Nat /\ Cardinality(all) >= 1
      BY <1>4, <2>4, NotEmptyCounts
    <3>2. Unit * 0 = 0
      BY GraphNumbers
    <3>3. 0 \div Cardinality(all) = 0
      BY <3>1
    <3> QED BY <1>1, <2>1, <2>2, <2>4, <3>2, <3>3
  <2> QED BY <2>3, <2>4
<1>6. PICK e \in inside : TRUE
  BY <1>5
<1>7. PICK path : path = Z!find_strongest_path(e[1], e[2], 6)
  OBVIOUS
<1>8. e[1] \in Peer /\ e[2] \in Peer /\ path # <<>>
  <2>1. e \in Z!Pairs(n)
    BY <1>3, <1>4
  <2> QED BY <1>2, <1>7, <2>1 DEF Z!Pairs
<1>9. PICK i \in 2..(Len(path) - 1) : path[i] = n
  BY <1>3, <1>6, <1>7 DEF Z!Through
<1>10. Route(path, Trusted, e[1], e[2])
  BY <1>7, <1>8, StrongestIs
<1>11. Len(path) \in Nat
  BY <1>10, RouteFacts
<1>12. <<n, path[i + 1]>> \in Trusted /\ <<path[i - 1], n>> \in Trusted
  <2>1. i \in 1..(Len(path) - 1) /\ i - 1 \in 1..(Len(path) - 1) /\ (i - 1) + 1 = i
    BY <1>11
  <2> QED BY <1>9, <1>10, <2>1 DEF Route
<1>13. Z!get_trusts(n) # {}
  BY <1>12 DEF Z!get_trusts, Trusted
<1>14. path[i - 1] \in Z!get_trusted_by(n)
  BY <1>12 DEF Z!get_trusted_by, Z!get_trusts, Trusted
<1>15. IsFiniteSet(Z!get_trusted_by(n))
  <2>1. Z!get_trusted_by(n) \in SUBSET Peer
    BY DEF Z!get_trusted_by
  <2> QED BY <2>1, GraphNumbers, FS_Subset
<1>16. Cardinality(Z!get_trusted_by(n)) >= 1
  BY <1>14, <1>15, NotEmptyCounts
<1>17. n \in Z!find_trust_hubs(1)
  BY <1>1, <1>16, SameCardinality DEF Z!find_trust_hubs
<1> QED BY <1>13, <1>17

-----------------------------------------------------------------------------
(* TrustGraph: the search of calculate_transitive_trust *)

\* What the search has in hand: values found, and nodes to explore, in the
\* order of their hops.
Found == [Peer -> (0..Unit) \cup {-1}]

SearchState == [queue : Seq(Peer \X Nat), best : Found]

Searching(q, best) ==
    /\ q \in Seq(Peer \X Nat) /\ best \in Found
    /\ \A i \in 1..Len(q) : best[q[i][1]] # -1

InTurn(q) ==
    \A i, j \in 1..Len(q) : i <= j => q[i][2] <= q[j][2] /\ q[j][2] <= q[1][2] + 1

\* A value is the strength of a path whose nodes have not been worth less.
Backed(best, a) ==
    \A v \in Peer : best[v] # -1 =>
        \E p : /\ Route(p, Linked, a, v) /\ Strengths(p)[Len(p)] = best[v]
               /\ \A i \in 1..Len(p) : Strengths(p)[i] <= best[p[i]]

Waiting(q, x) == \E i \in 1..Len(q) : q[i][1] = x

Relaxed(best, x) == \A y \in Peer : edges[x][y] # -1 => (best[x] * edges[x][y]) \div Unit <= best[y]

\* While there is something to explore, what does not wait has been explored.
Settled(q, best) == \A x \in Peer : best[x] # -1 => Waiting(q, x) \/ Relaxed(best, x)

\* The best value at the end of p is known, or some node of p waits for its turn
\* early enough with the best value so far.
Covers(q, best, p) ==
    \/ Strengths(p)[Len(p)] <= best[p[Len(p)]]
    \/ \E i \in 1..Len(p), j \in 1..Len(q) :
          q[j][1] = p[i] /\ q[j][2] <= i - 1 /\ Strengths(p)[i] <= best[p[i]]

Covered(q, best, a) ==
    \A p, b : Route(p, Linked, a, b) /\ Len(p) - 1 <= MaxHops => Covers(q, best, p)

\* The values that can still be raised: as often as the queue can still grow.
Room(best) == {r \in Peer \X (0..Unit) : best[r[1]] < r[2]}

SearchGood(at, a) ==
    /\ at \in SearchState
    /\ Searching(at.queue, at.best) /\ InTurn(at.queue) /\ Backed(at.best, a)
    /\ (\E i \in 1..Len(at.queue) : at.queue[i][2] < MaxHops) => Settled(at.queue, at.best)
    /\ Covered(at.queue, at.best, a)

LEMMA RoomFacts ==
    ASSUME NEW best
    PROVE  /\ IsFiniteSet(Room(best)) /\ Cardinality(Room(best)) \in Nat
           /\ Cardinality(Room(best)) <= (Unit + 1) * Cardinality(Peer)
<1>1. IsFiniteSet(0..Unit) /\ Cardinality(0..Unit) = Unit + 1
  BY GraphNumbers, FS_Interval
<1>2. IsFiniteSet(Peer \X (0..Unit)) /\ Cardinality(Peer \X (0..Unit)) = Cardinality(Peer) * (Unit + 1)
  BY <1>1, GraphNumbers, FS_Product
<1>3. Room(best) \in SUBSET (Peer \X (0..Unit))
  BY DEF Room
<1>4. IsFiniteSet(Room(best)) /\ Cardinality(Room(best)) <= Cardinality(Peer) * (Unit + 1)
  BY <1>2, <1>3, FS_Subset
<1>5. Cardinality(Peer) * (Unit + 1) = (Unit + 1) * Cardinality(Peer)
  BY GraphNumbers
<1> QED BY <1>4, <1>5, FS_CardinalityType

\* A raise uses up one of the values.
LEMMA RoomShrinks ==
    ASSUME NEW best \in Found, NEW x \in Peer, NEW t \in 0..Unit, t > best[x]
    PROVE  Cardinality(Room([best EXCEPT ![x] = t])) <= Cardinality(Room(best)) - 1
<1>1. PICK r, A, B : r = <<x, t>> /\ A = Room(best) /\ B = Room([best EXCEPT ![x] = t])
  OBVIOUS
<1>0. Unit \in Nat
  BY GraphNumbers
<1>2. r \in A
  BY <1>1 DEF Room
<1>3. ASSUME NEW e \in B PROVE e \in A \ {r}
  <2>1. e \in Peer \X (0..Unit) /\ [best EXCEPT ![x] = t][e[1]] < e[2]
    BY <1>1 DEF Room
  <2>2. CASE e[1] = x
    <3>1. t < e[2] /\ best[x] < t /\ best[x] \in Int /\ t \in Int /\ e[2] \in Int
      BY <1>0, <2>1, <2>2 DEF Found
    <3>2. best[e[1]] < e[2] /\ e # r
      BY <1>1, <2>2, <3>1
    <3> QED BY <1>1, <2>1, <3>2 DEF Room
  <2>3. CASE e[1] # x
    <3>1. best[e[1]] < e[2] /\ e # r
      BY <1>1, <2>1, <2>3 DEF Found
    <3> QED BY <1>1, <2>1, <3>1 DEF Room
  <2> QED BY <2>2, <2>3
<1>4. B \in SUBSET (A \ {r})
  BY <1>3
<1>5. IsFiniteSet(A) /\ Cardinality(A) \in Nat /\ Cardinality(B) \in Nat
  BY <1>1, RoomFacts
<1>6. IsFiniteSet(A \ {r}) /\ Cardinality(A \ {r}) = Cardinality(A) - 1
  BY <1>2, <1>5, FS_RemoveElement
<1>7. Cardinality(B) <= Cardinality(A \ {r})
  BY <1>4, <1>6, FS_Subset
<1> QED BY <1>1, <1>6, <1>7

LEMMA BackedRaised ==
    ASSUME edges \in Graph, NEW best \in Found, NEW a, Backed(best, a), NEW c \in Peer, NEW y \in Peer,
           best[c] # -1, edges[c][y] # -1, NEW trust, trust = (best[c] * edges[c][y]) \div Unit,
           trust > best[y]
    PROVE  Backed([best EXCEPT ![y] = trust], a)
<1>0. Unit \in Nat
  BY GraphNumbers
<1>1. best[c] \in 0..Unit /\ edges[c][y] \in 0..Unit
  BY DEF Found, Graph
<1>2. trust \in 0..Unit /\ trust <= best[c]
  BY <1>1, Products
<1>3. PICK new : new = [best EXCEPT ![y] = trust]
  OBVIOUS
<1>4. new[y] = trust /\ \A v \in Peer : v # y => new[v] = best[v]
  BY <1>3 DEF Found
<1>5. \A v \in Peer : best[v] \in Int /\ best[v] <= new[v]
  BY <1>0, <1>2, <1>4 DEF Found
<1>6. ASSUME NEW v \in Peer, NEW p, Route(p, Linked, a, v),
             \A i \in 1..Len(p) : Strengths(p)[i] <= best[p[i]]
      PROVE  \A i \in 1..Len(p) : Strengths(p)[i] <= new[p[i]]
  <2> SUFFICES ASSUME NEW i \in 1..Len(p) PROVE Strengths(p)[i] <= new[p[i]]
    OBVIOUS
  <2>1. p[i] \in Peer
    BY <1>6, RouteFacts
  <2>2. Strengths(p)[i] \in 0..Unit
    BY <1>6, StrengthFacts
  <2>3. Strengths(p)[i] <= best[p[i]] /\ best[p[i]] <= new[p[i]] /\ best[p[i]] \in Int /\ new[p[i]] \in Int
    BY <1>0, <1>2, <1>4, <1>5, <1>6, <2>1
  <2> QED BY <1>0, <2>2, <2>3
<1>7. ASSUME NEW v \in Peer, v # y, new[v] # -1
      PROVE  \E p : /\ Route(p, Linked, a, v) /\ Strengths(p)[Len(p)] = new[v]
                    /\ \A i \in 1..Len(p) : Strengths(p)[i] <= new[p[i]]
  <2>1. best[v] # -1 /\ new[v] = best[v]
    BY <1>4, <1>7
  <2>2. PICK p : /\ Route(p, Linked, a, v) /\ Strengths(p)[Len(p)] = best[v]
                 /\ \A i \in 1..Len(p) : Strengths(p)[i] <= best[p[i]]
    BY <2>1 DEF Backed
  <2> QED BY <1>6, <2>1, <2>2
<1>8. \E p : /\ Route(p, Linked, a, y) /\ Strengths(p)[Len(p)] = new[y]
             /\ \A i \in 1..Len(p) : Strengths(p)[i] <= new[p[i]]
  <2>1. PICK p : /\ Route(p, Linked, a, c) /\ Strengths(p)[Len(p)] = best[c]
                 /\ \A i \in 1..Len(p) : Strengths(p)[i] <= best[p[i]]
    BY DEF Backed
  <2>2. Len(p) \in Nat /\ Len(p) >= 1
    BY <2>1, RouteFacts
  <2>3. ASSUME NEW i \in 1..Len(p), p[i] = y PROVE FALSE
    <3>1. Strengths(p)[Len(p)] <= Strengths(p)[i] /\ Strengths(p)[i] \in 0..Unit
      BY <2>1, StrengthFacts
    <3>2. Strengths(p)[i] <= best[y] /\ best[y] \in Int
      BY <1>5, <2>1, <2>3
    <3> QED BY <1>0, <1>1, <1>2, <2>1, <3>1, <3>2
  <2>4. <<c, y>> \in Linked
    BY DEF Linked
  <2>5. PICK q : q = Append(p, y)
    OBVIOUS
  <2>6. /\ Route(q, Linked, a, y) /\ Len(q) = Len(p) + 1 /\ q[Len(p) + 1] = y
        /\ \A i \in 1..Len(p) : q[i] = p[i]
    BY <2>1, <2>3, <2>4, <2>5, Longer
  <2>7. /\ \A i \in 1..Len(p) : Strengths(q)[i] = Strengths(p)[i]
        /\ Strengths(q)[Len(p) + 1] = trust
    BY <2>1, <2>5, <2>6, StrengthOfLonger
  <2>8. \A i \in 1..Len(p) : Strengths(p)[i] <= new[p[i]]
    BY <1>6, <2>1
  <2>9. ASSUME NEW i \in 1..Len(q) PROVE Strengths(q)[i] <= new[q[i]]
    <3>1. CASE i \in 1..Len(p)
      BY <2>6, <2>7, <2>8, <3>1
    <3>2. CASE i = Len(p) + 1
      BY <1>0, <1>2, <1>4, <2>6, <2>7, <3>2
    <3>3. i \in 1..Len(p) \/ i = Len(p) + 1
      BY <2>2, <2>6
    <3> QED BY <3>1, <3>2, <3>3
  <2> QED BY <1>4, <2>6, <2>7, <2>9
<1>9. Backed(new, a)
  BY <1>7, <1>8 DEF Backed
<1> QED BY <1>3, <1>9

\* The turn of the node c, at h hops, when the successors in done are done;
\* before it the queue was q0 behind c, and the values best0.
TurnGood(acc, q0, best0, a, c, h, done) ==
    /\ acc \in SearchState /\ Searching(acc.queue, acc.best) /\ Backed(acc.best, a)
    /\ \A v \in Peer : best0[v] <= acc.best[v]
    /\ acc.best[c] = best0[c]
    /\ \A i, j \in 1..Len(acc.queue) : i <= j =>
          h <= acc.queue[i][2] /\ acc.queue[i][2] <= acc.queue[j][2] /\ acc.queue[j][2] <= h + 1
    /\ \A i \in 1..Len(q0) : \E j \in 1..Len(acc.queue) : acc.queue[j] = q0[i]
    /\ \A v \in Peer : acc.best[v] # best0[v] => \E j \in 1..Len(acc.queue) : acc.queue[j] = <<v, h + 1>>
    /\ \A y \in done : (best0[c] * edges[c][y]) \div Unit <= acc.best[y]
    /\ Len(acc.queue) + Cardinality(Room(acc.best)) <= Len(q0) + Cardinality(Room(best0))

LEMMA RelaxGood ==
    ASSUME edges \in Graph, NEW a, NEW c \in Peer, NEW h \in Nat, NEW best0 \in Found, best0[c] # -1,
           NEW q0 \in Seq(Peer \X Nat), NEW done \in SUBSET Peer, NEW acc,
           TurnGood(acc, q0, best0, a, c, h, done), NEW y \in Peer, edges[c][y] # -1
    PROVE  TurnGood(Z!Relax(acc, c, h, y), q0, best0, a, c, h, done \cup {y})
<1>0. Unit \in Nat
  BY GraphNumbers
<1>1. PICK q, best, trust : /\ q = acc.queue /\ best = acc.best
                            /\ trust = (best[c] * edges[c][y]) \div Unit
  OBVIOUS
<1>2. /\ acc \in SearchState /\ Searching(q, best) /\ Backed(best, a)
      /\ \A v \in Peer : best0[v] <= best[v]
      /\ best[c] = best0[c]
      /\ \A i, j \in 1..Len(q) : i <= j => h <= q[i][2] /\ q[i][2] <= q[j][2] /\ q[j][2] <= h + 1
      /\ \A i \in 1..Len(q0) : \E j \in 1..Len(q) : q[j] = q0[i]
      /\ \A v \in Peer : best[v] # best0[v] => \E j \in 1..Len(q) : q[j] = <<v, h + 1>>
      /\ \A x \in done : (best0[c] * edges[c][x]) \div Unit <= best[x]
      /\ Len(q) + Cardinality(Room(best)) <= Len(q0) + Cardinality(Room(best0))
  BY <1>1 DEF TurnGood
<1>3. q \in Seq(Peer \X Nat) /\ best \in Found /\ \A i \in 1..Len(q) : best[q[i][1]] # -1
  BY <1>2 DEF Searching
<1>4. best[c] \in 0..Unit /\ edges[c][y] \in 0..Unit
  BY <1>2 DEF Found, Graph
<1>5. trust \in 0..Unit /\ trust <= best[c]
  BY <1>1, <1>4, Products
<1>6. \A v \in Peer : best[v] \in Int /\ best0[v] \in Int
  BY <1>0, <1>3 DEF Found
<1>7. Len(q) \in Nat /\ Len(q0) \in Nat
  BY <1>3
<1>8. CASE ~(trust > best[y])
  <2>1. Z!Relax(acc, c, h, y) = acc
    BY <1>1, <1>8 DEF Z!Relax
  <2>2. trust <= best[y]
    BY <1>0, <1>5, <1>6, <1>8
  <2>3. \A x \in done \cup {y} : (best0[c] * edges[c][x]) \div Unit <= best[x]
    <3>1. (best0[c] * edges[c][y]) \div Unit <= best[y]
      BY <1>1, <1>2, <2>2
    <3>2. \A x \in done : (best0[c] * edges[c][x]) \div Unit <= best[x]
      BY <1>2
    <3> DEFINE HandedOn(x) == (best0[c] * edges[c][x]) \div Unit <= best[x]
    <3>3. HandedOn(y) /\ \A x \in done : HandedOn(x)
      BY <3>1, <3>2
    <3>4. \A x \in done \cup {y} : HandedOn(x)
      <4> HIDE DEF HandedOn
      <4> QED BY <3>3
    <3> QED BY <3>4
  <2>4. \A x \in done \cup {y} : (best0[c] * edges[c][x]) \div Unit <= acc.best[x]
    BY <1>1, <2>3
  <2>5. TurnGood(acc, q0, best0, a, c, h, done \cup {y})
    BY <2>4, Zenon DEF TurnGood
  <2> QED BY <2>1, <2>5
<1>9. CASE trust > best[y]
  <2>1. PICK new, r : new = [best EXCEPT ![y] = trust] /\ r = Append(q, <<y, h + 1>>)
    OBVIOUS
  <2>2. Z!Relax(acc, c, h, y) = [best |-> new, queue |-> r]
    BY <1>1, <1>9, <2>1 DEF Z!Relax
  <2>3. new \in Found /\ new[y] = trust /\ \A v \in Peer : v # y => new[v] = best[v]
    BY <1>3, <1>5, <2>1 DEF Found
  <2>4. <<y, h + 1>> \in Peer \X Nat
    OBVIOUS
  <2>5. /\ r \in Seq(Peer \X Nat) /\ Len(r) = Len(q) + 1 /\ r[Len(q) + 1] = <<y, h + 1>>
        /\ \A i \in 1..Len(q) : r[i] = q[i]
    BY <1>3, <2>1, <2>4
  <2>6. y # c
    BY <1>0, <1>4, <1>5, <1>9
  <2>7. \A v \in Peer : best[v] <= new[v] /\ new[v] \in Int
    BY <1>0, <1>5, <1>6, <1>9, <2>3
  <2>8. \A i \in 1..Len(r) : i \in 1..Len(q) \/ i = Len(q) + 1
    BY <1>7, <2>5
  <2>9. \A i \in 1..Len(q) : i \in 1..Len(r)
    BY <1>7, <2>5
  <2>10. Len(q) + 1 \in 1..Len(r)
    BY <1>7, <2>5
  <2>11. Searching(r, new)
    <3>1. ASSUME NEW i \in 1..Len(r) PROVE new[r[i][1]] # -1
      <4>1. CASE i = Len(q) + 1
        <5>1. r[i][1] = y /\ new[y] = trust
          BY <2>3, <2>5, <4>1
        <5>2. trust # -1
          BY <1>5, Weights
        <5> QED BY <5>1, <5>2
      <4>2. CASE i \in 1..Len(q)
        <5>0. q[i] \in Peer \X Nat
          BY <1>3, <4>2
        <5>1. q[i] \in Peer \X Nat /\ r[i] = q[i]
          BY <2>5, <4>2, <5>0
        <5>2. PICK x \in Peer : x = q[i][1]
          BY <5>1
        <5>3. best[x] # -1 /\ best[x] <= new[x] /\ best[x] \in (0..Unit) \cup {-1} /\ new[x] \in Int
          BY <1>3, <2>7, <4>2, <5>2 DEF Found
        <5>4. new[x] # -1
          BY <1>0, <5>3
        <5> QED BY <5>1, <5>2, <5>4
      <4> QED BY <2>8, <4>1, <4>2
    <3> QED BY <2>3, <2>5, <3>1 DEF Searching
  <2>12. Backed(new, a)
    BY <1>1, <1>2, <1>3, <1>9, <2>1, BackedRaised
  <2>13. ASSUME NEW v \in Peer PROVE best0[v] <= new[v]
    <3>1. best0[v] <= best[v] /\ best[v] <= new[v] /\ best0[v] \in Int /\ best[v] \in Int /\ new[v] \in Int
      BY <1>2, <1>6, <2>7
    <3> QED BY <3>1
  <2>14. new[c] = best0[c]
    BY <1>2, <2>3, <2>6
  <2>15. ASSUME NEW i \in 1..Len(r), NEW j \in 1..Len(r), i <= j
         PROVE  h <= r[i][2] /\ r[i][2] <= r[j][2] /\ r[j][2] <= h + 1
    <3>1. CASE j \in 1..Len(q)
      <4>1. i \in 1..Len(q)
        BY <1>7, <2>15, <3>1
      <4> QED BY <1>2, <2>5, <2>15, <3>1, <4>1
    <3>2. CASE j = Len(q) + 1
      <4>1. r[j][2] = h + 1
        BY <2>5, <3>2
      <4>2. CASE i = Len(q) + 1
        BY <2>5, <4>1, <4>2
      <4>3. CASE i \in 1..Len(q)
        <5>1. i <= i /\ r[i] = q[i]
          BY <1>7, <2>5, <4>3
        <5>2. h <= q[i][2] /\ q[i][2] <= h + 1
          BY <1>2, <4>3, <5>1
        <5> QED BY <4>1, <5>1, <5>2
      <4> QED BY <2>8, <4>2, <4>3
    <3> QED BY <2>8, <3>1, <3>2
  <2>16. ASSUME NEW i \in 1..Len(q0) PROVE \E j \in 1..Len(r) : r[j] = q0[i]
    BY <1>2, <2>5, <2>9
  <2>17. ASSUME NEW v \in Peer, new[v] # best0[v] PROVE \E j \in 1..Len(r) : r[j] = <<v, h + 1>>
    <3>1. CASE v = y
      BY <2>5, <2>10, <3>1
    <3>2. CASE v # y
      <4>1. PICK j \in 1..Len(q) : q[j] = <<v, h + 1>>
        BY <1>2, <2>3, <2>17, <3>2
      <4> QED BY <2>5, <2>9, <4>1
    <3> QED BY <3>1, <3>2
  <2>18. ASSUME NEW x \in done \cup {y} PROVE (best0[c] * edges[c][x]) \div Unit <= new[x]
    <3>1. CASE x = y
      BY <1>0, <1>1, <1>2, <1>5, <2>3, <3>1
    <3>2. CASE x # y
      BY <1>2, <2>3, <2>18, <3>2
    <3> QED BY <3>1, <3>2
  <2>19. Len(r) + Cardinality(Room(new)) <= Len(q0) + Cardinality(Room(best0))
    <3>1. Cardinality(Room(new)) <= Cardinality(Room(best)) - 1
      BY <1>3, <1>5, <1>9, <2>1, RoomShrinks
    <3>2. Cardinality(Room(new)) \in Nat /\ Cardinality(Room(best)) \in Nat /\ Cardinality(Room(best0)) \in Nat
      BY RoomFacts
    <3> QED BY <1>2, <1>7, <2>5, <3>1, <3>2
  <2>20. PICK s : s = [best |-> new, queue |-> r]
    OBVIOUS
  <2>21. s \in SearchState /\ s.best = new /\ s.queue = r
    BY <2>3, <2>5, <2>20 DEF SearchState
  <2>22. TurnGood(s, q0, best0, a, c, h, done \cup {y})
    BY <2>11, <2>12, <2>13, <2>14, <2>15, <2>16, <2>17, <2>18, <2>19, <2>21 DEF TurnGood
  <2> QED BY <2>2, <2>20, <2>22
<1> QED BY <1>8, <1>9

\* The order in which a node's successors are taken has each of them.
LEMMA SuccessorsInOrder ==
    ASSUME NEW c \in Peer
    PROVE  /\ Z!Cardinality(Z!Successors(c)) \in Nat
           /\ \A i \in 1..Z!Cardinality(Z!Successors(c)) :
                 Z!SetToSeq(Z!Successors(c))[i] \in Peer /\ edges[c][Z!SetToSeq(Z!Successors(c))[i]] # -1
           /\ \A y \in Peer : edges[c][y] # -1 =>
                 \E i \in 1..Z!Cardinality(Z!Successors(c)) : Z!SetToSeq(Z!Successors(c))[i] = y
<1>1. PICK S, n, s : S = Z!Successors(c) /\ n = Cardinality(S) /\ s = Z!SetToSeq(S)
  OBVIOUS
<1>2. \A y : y \in S <=> y \in Peer /\ edges[c][y] # -1
  BY <1>1 DEF Z!Successors, Z!Absent
<1>3. IsFiniteSet(S)
  BY <1>2, GraphNumbers, FS_Subset
<1>4. n \in Nat /\ ExistsBijection(1..n, S)
  BY <1>1, <1>3, FS_CardinalityType
<1>5. PICK f : f \in Bijection(1..n, S)
  BY <1>4 DEF ExistsBijection
<1>6. f \in [1..n -> S] /\ Z!IsInjective(f)
  BY <1>5 DEF Bijection, Injection, Surjection, IsInjective, Z!IsInjective
<1>7. s = CHOOSE g \in [1..n -> S] : Z!IsInjective(g)
  BY <1>1, SameCardinality DEF Z!SetToSeq
<1>8. s \in [1..n -> S] /\ Z!IsInjective(s)
  BY <1>6, <1>7
<1>9. s \in Injection(1..n, S)
  BY <1>8 DEF Injection, IsInjective, Z!IsInjective
<1>10. Cardinality(1..n) = n
  BY <1>4, FS_Interval
<1>11. s \in Surjection(1..n, S)
  BY <1>1, <1>3, <1>9, <1>10, FS_Injection
<1>12. \A y \in S : \E i \in 1..n : s[i] = y
  BY <1>11 DEF Surjection
<1>13. Z!Cardinality(S) = n
  BY <1>1, SameCardinality
<1> QED BY <1>1, <1>2, <1>4, <1>8, <1>12, <1>13

\* The first k successors of c, one after the other.
TurnRun(f, popped, c, h, k) ==
    f = [i \in 0..k |-> IF i = 0 THEN popped
                        ELSE Z!Relax(f[i - 1], c, h, Z!SetToSeq(Z!Successors(c))[i])]

LEMMA TurnRunExists ==
    ASSUME NEW popped, NEW c, NEW h, NEW n \in Nat
    PROVE  \E f : TurnRun(f, popped, c, h, n)
<1> DEFINE s == Z!SetToSeq(Z!Successors(c))
           S == {k \in 0..n : \E f : TurnRun(f, popped, c, h, k)}
<1>1. 0 \in S
  <2>1. TurnRun([i \in 0..0 |-> popped], popped, c, h, 0)
    BY DEF TurnRun
  <2> QED BY <2>1
<1>2. ASSUME NEW k \in 0..(n - 1), k \in S PROVE k + 1 \in S
  <2>1. PICK f : TurnRun(f, popped, c, h, k)
    BY <1>2
  <2>2. \A i \in 0..k : f[i] = IF i = 0 THEN popped ELSE Z!Relax(f[i - 1], c, h, s[i])
    BY <2>1 DEF TurnRun
  <2>3. PICK new : new = Z!Relax(f[k], c, h, s[k + 1])
    OBVIOUS
  <2> DEFINE g == [i \in 0..(k + 1) |-> IF i = k + 1 THEN new ELSE f[i]]
  <2>4. ASSUME NEW i \in 0..(k + 1) PROVE g[i] = IF i = 0 THEN popped ELSE Z!Relax(g[i - 1], c, h, s[i])
    <3>1. CASE i = k + 1
      <4>1. g[k] = f[k] /\ g[k + 1] = new /\ i # 0 /\ i - 1 = k
        BY <3>1
      <4> HIDE DEF g, s
      <4> QED BY <2>3, <3>1, <4>1
    <3>2. CASE i # k + 1
      <4>1. g[i] = f[i] /\ i \in 0..k /\ (i # 0 => g[i - 1] = f[i - 1])
        BY <3>2
      <4> HIDE DEF g, s
      <4> QED BY <2>2, <4>1
    <3> QED BY <3>1, <3>2
  <2>5. g = [i \in 0..(k + 1) |-> g[i]]
    OBVIOUS
  <2> HIDE DEF g
  <2>6. TurnRun(g, popped, c, h, k + 1)
    BY <2>4, <2>5 DEF TurnRun
  <2>7. k + 1 \in 0..n
    OBVIOUS
  <2> QED BY <2>6, <2>7
<1>3. n \in S
  <2> HIDE DEF S
  <2>1. \A i \in 0..n : i \in S
    BY <1>1, <1>2, UpTo
  <2> QED BY <2>1
<1> QED BY <1>3

\* All successors of c, one after the other.
LEMMA TurnEndsGood ==
    ASSUME edges \in Graph, NEW a, NEW c \in Peer, NEW h \in Nat, NEW best0 \in Found, best0[c] # -1,
           NEW q0 \in Seq(Peer \X Nat), NEW popped, TurnGood(popped, q0, best0, a, c, h, {}),
           NEW f, TurnRun(f, popped, c, h, Z!Cardinality(Z!Successors(c)))
    PROVE  LET acc == f[Z!Cardinality(Z!Successors(c))] IN
           TurnGood(acc, q0, best0, a, c, h, {y \in Peer : edges[c][y] # -1})
<1> DEFINE s == Z!SetToSeq(Z!Successors(c))
           n == Z!Cardinality(Z!Successors(c))
           Done(k) == {y \in Peer : \E i \in 1..k : y = s[i]}
           S == {k \in 0..n : TurnGood(f[k], q0, best0, a, c, h, Done(k))}
<1>0. /\ n \in Nat /\ \A i \in 1..n : s[i] \in Peer /\ edges[c][s[i]] # -1
      /\ \A y \in Peer : edges[c][y] # -1 => \E i \in 1..n : s[i] = y
  BY SuccessorsInOrder
<1>1. \A i \in 0..n : f[i] = IF i = 0 THEN popped ELSE Z!Relax(f[i - 1], c, h, s[i])
  BY DEF TurnRun
<1> HIDE DEF n, s
<1>2. 0 \in S
  <2>1. Done(0) = {}
    OBVIOUS
  <2>2. f[0] = popped /\ 0 \in 0..n
    BY <1>0, <1>1
  <2> HIDE DEF Done
  <2> QED BY <2>1, <2>2
<1>3. ASSUME NEW k \in 0..(n - 1), k \in S PROVE k + 1 \in S
  <2>1. k + 1 \in 0..n /\ k + 1 \in 1..n /\ k + 1 # 0 /\ (k + 1) - 1 = k
    BY <1>0
  <2>2. f[k + 1] = Z!Relax(f[k], c, h, s[k + 1])
    BY <1>1, <2>1
  <2>3. Done(k + 1) = Done(k) \cup {s[k + 1]}
    <3>1. \A i : i \in 1..(k + 1) <=> i \in 1..k \/ i = k + 1
      BY <1>0
    <3>2. s[k + 1] \in Peer
      BY <1>0, <2>1
    <3> QED BY <3>1, <3>2
  <2>4. Done(k) \in SUBSET Peer
    OBVIOUS
  <2>5. s[k + 1] \in Peer /\ edges[c][s[k + 1]] # -1
    BY <1>0, <2>1
  <2>6. TurnGood(f[k], q0, best0, a, c, h, Done(k))
    BY <1>3
  <2> HIDE DEF Done
  <2>7. TurnGood(f[k + 1], q0, best0, a, c, h, Done(k + 1))
    BY <2>2, <2>3, <2>4, <2>5, <2>6, RelaxGood
  <2> QED BY <2>1, <2>7
<1>4. n \in S
  <2> HIDE DEF S
  <2>1. \A i \in 0..n : i \in S
    BY <1>0, <1>2, <1>3, UpTo
  <2> QED BY <1>0, <2>1
<1>5. Done(n) = {y \in Peer : edges[c][y] # -1}
  BY <1>0
<1>6. TurnGood(f[n], q0, best0, a, c, h, {y \in Peer : edges[c][y] # -1})
  <2>1. TurnGood(f[n], q0, best0, a, c, h, Done(n))
    BY <1>4
  <2> HIDE DEF Done
  <2> QED BY <1>5, <2>1
<1> QED BY <1>6 DEF n

LEMMA TailFacts ==
    ASSUME NEW T, NEW q \in Seq(T), q # <<>>
    PROVE  /\ Tail(q) \in Seq(T) /\ Len(q) \in Nat /\ Len(q) >= 1 /\ Len(Tail(q)) = Len(q) - 1
           /\ \A i \in 1..(Len(q) - 1) : Tail(q)[i] = q[i + 1]
OBVIOUS

\* What a turn does to the coverage of a path: the node whose turn it was has
\* handed its value on, and so have the nodes after it that do not wait.
LEMMA CoverageKept ==
    ASSUME edges \in Graph, NEW a, NEW c \in Peer, NEW h \in Nat, h < MaxHops,
           NEW q \in Seq(Peer \X Nat), q # <<>>, q[1] = <<c, h>>, NEW best0 \in Found, NEW acc,
           TurnGood(acc, Tail(q), best0, a, c, h, {y \in Peer : edges[c][y] # -1}),
           Settled(acc.queue, acc.best),
           NEW p, NEW b, Route(p, Linked, a, b), Len(p) - 1 <= MaxHops, Covers(q, best0, p)
    PROVE  Covers(acc.queue, acc.best, p)
<1> DEFINE L == Len(p)
<1>0. Unit \in Nat /\ L \in Nat /\ L >= 1 /\ \A i \in 1..L : p[i] \in Peer
  BY RouteFacts, GraphNumbers
<1>1. PICK r, best, s : r = acc.queue /\ best = acc.best /\ s = Strengths(p)
  OBVIOUS
<1>2. /\ r \in Seq(Peer \X Nat) /\ best \in Found
      /\ \A v \in Peer : best0[v] <= best[v]
      /\ best[c] = best0[c]
      /\ \A i \in 1..Len(r) : r[i][2] <= h + 1
      /\ \A i \in 1..Len(Tail(q)) : \E j \in 1..Len(r) : r[j] = Tail(q)[i]
      /\ \A y \in Peer : edges[c][y] # -1 => (best0[c] * edges[c][y]) \div Unit <= best[y]
  <2>1. \A i \in 1..Len(r) : i <= i
    BY <1>1 DEF TurnGood, Searching
  <2> QED BY <1>1, <2>1 DEF TurnGood, Searching
<1>3. \A v \in Peer : best0[v] \in Int /\ best[v] \in Int
  BY <1>0, <1>2 DEF Found
<1>4. /\ \A i \in 1..L : s[i] \in 0..Unit
      /\ \A i \in 1..(L - 1) : s[i + 1] = (s[i] * edges[p[i]][p[i + 1]]) \div Unit
  BY <1>1, StrengthFacts
<1>5. \A i \in 1..L : s[i] <= best0[p[i]] => s[i] <= best[p[i]]
  <2> SUFFICES ASSUME NEW i \in 1..L, s[i] <= best0[p[i]] PROVE s[i] <= best[p[i]]
    OBVIOUS
  <2>1. s[i] \in Int /\ p[i] \in Peer
    BY <1>0, <1>4
  <2>2. best0[p[i]] <= best[p[i]] /\ best0[p[i]] \in Int /\ best[p[i]] \in Int
    BY <1>2, <1>3, <2>1
  <2> QED BY <2>1, <2>2
<1>6. SUFFICES Covers(r, best, p)
  BY <1>1
<1>7. CASE s[L] <= best0[p[L]]
  <2>1. L \in 1..L
    BY <1>0
  <2>2. s[L] <= best[p[L]]
    BY <1>5, <1>7, <2>1
  <2> QED BY <1>1, <2>2 DEF Covers
<1>8. ASSUME NEW i \in 1..L, NEW j \in 1..Len(q), q[j][1] = p[i], q[j][2] <= i - 1, s[i] <= best0[p[i]]
      PROVE  Covers(r, best, p)
  <2>1. CASE j # 1
    <3>1. j - 1 \in 1..Len(Tail(q)) /\ Tail(q)[j - 1] = q[j]
      <4>1. Len(q) \in Nat /\ Len(Tail(q)) = Len(q) - 1 /\ \A x \in 1..(Len(q) - 1) : Tail(q)[x] = q[x + 1]
        BY TailFacts
      <4>2. j - 1 \in 1..(Len(q) - 1) /\ (j - 1) + 1 = j
        BY <2>1, <4>1
      <4> QED BY <4>1, <4>2
    <3>2. PICK x \in 1..Len(r) : r[x] = q[j]
      BY <1>2, <3>1
    <3>3. s[i] <= best[p[i]]
      BY <1>5, <1>8
    <3> QED BY <1>1, <1>8, <3>2, <3>3 DEF Covers
  <2>2. CASE j = 1
    <3>0. p[i] = c /\ h <= i - 1
      BY <1>8, <2>2
    <3>1. SUFFICES ASSUME ~Covers(r, best, p) PROVE FALSE
      OBVIOUS
    <3>2. CASE i = L
      <4>1. s[L] <= best[p[L]]
        BY <1>5, <1>8, <3>2
      <4> QED BY <1>1, <3>1, <4>1 DEF Covers
    <3>3. CASE i # L
      <4> DEFINE S == {k \in (i + 1)..L : s[k] <= best[p[k]]}
      <4>0. i \in 1..(L - 1) /\ i + 1 \in 1..L /\ i + 1 \in Nat
        BY <1>0, <3>3
      <4>1. i + 1 \in S
        <5>1. edges[c][p[i + 1]] \in 0..Unit /\ p[i + 1] \in Peer /\ edges[c][p[i + 1]] # -1
          <6>1. p[i + 1] \in Peer
            BY <1>0, <4>0
          <6>2. edges[c][p[i + 1]] \in 0..Unit
            BY <3>0, <4>0, StepWeight
          <6> QED BY <6>1, <6>2, Weights
        <5>2. s[i + 1] = (s[i] * edges[c][p[i + 1]]) \div Unit
          BY <1>4, <3>0, <4>0
        <5>3. s[i] \in 0..Unit /\ best0[c] \in 0..Unit /\ s[i] <= best0[c]
          <6>1. s[i] \in 0..Unit /\ s[i] <= best0[c]
            BY <1>4, <1>8, <3>0
          <6>2. best0[c] \in (0..Unit) \cup {-1}
            BY DEF Found
          <6> QED BY <1>0, <6>1, <6>2
        <5>4. (s[i] * edges[c][p[i + 1]]) \div Unit <= (best0[c] * edges[c][p[i + 1]]) \div Unit
          BY <5>1, <5>3, ProductsGrow
        <5>5. (best0[c] * edges[c][p[i + 1]]) \div Unit <= best[p[i + 1]]
          BY <1>2, <5>1
        <5>6. (best0[c] * edges[c][p[i + 1]]) \div Unit \in 0..Unit /\ s[i + 1] \in 0..Unit /\ best[p[i + 1]] \in Int
          BY <1>3, <1>4, <4>0, <5>1, <5>3, Products
        <5>7. s[i + 1] <= best[p[i + 1]]
          <6>1. PICK x : x = (best0[c] * edges[c][p[i + 1]]) \div Unit
            OBVIOUS
          <6>2. s[i + 1] <= x
            BY <5>2, <5>4, <6>1
          <6>3. x <= best[p[i + 1]]
            BY <5>5, <6>1
          <6>4. x \in 0..Unit
            BY <5>6, <6>1
          <6>5. x \in Int /\ s[i + 1] \in Int /\ best[p[i + 1]] \in Int
            BY <5>6, <6>4, Weights
          <6> QED BY <6>2, <6>3, <6>5, Transitive
        <5> QED BY <1>0, <4>0, <5>7
      <4>2. ASSUME NEW k \in (i + 1)..(L - 1), k \in S PROVE k + 1 \in S
        <5>0. k \in 1..(L - 1) /\ k \in 1..L /\ k + 1 \in 1..L /\ k + 1 \in (i + 1)..L
          <6>1. L \in Nat /\ i \in Nat /\ 1 <= i
            BY <1>0, <4>0
          <6> HIDE DEF L, S
          <6>2. k \in Nat /\ i + 1 <= k /\ k <= L - 1
            BY <6>1
          <6> QED BY <6>1, <6>2
        <5>1. s[k] <= best[p[k]] /\ s[k] \in 0..Unit /\ p[k] \in Peer /\ p[k + 1] \in Peer
          BY <1>0, <1>4, <4>2, <5>0
        <5>2. best[p[k]] \in 0..Unit
          <6>1. best[p[k]] \in (0..Unit) \cup {-1}
            BY <1>2, <5>1 DEF Found
          <6>2. s[k] \in Int /\ 0 <= s[k] /\ s[k] <= best[p[k]]
            BY <5>1, Weights
          <6> QED BY <6>1, <6>2, NotAbsent
        <5>3. ~Waiting(r, p[k])
          <6> SUFFICES ASSUME NEW x \in 1..Len(r), r[x][1] = p[k] PROVE FALSE
            BY DEF Waiting
          <6>1. r[x] \in Peer \X Nat /\ r[x][2] <= h + 1
            BY <1>2
          <6>2. r[x][2] <= k - 1
            <7>1. PICK y \in Nat : y = r[x][2]
              BY <6>1
            <7>2. y <= h + 1
              BY <6>1, <7>1
            <7>3. h <= i - 1 /\ i + 1 <= k /\ i \in Int /\ k \in Int /\ h \in Int
              BY <1>0, <3>0
            <7>4. y <= k - 1
              BY <7>2, <7>3
            <7> QED BY <7>1, <7>4
          <6> QED BY <1>1, <3>1, <5>0, <5>1, <6>2 DEF Covers
        <5>4. Relaxed(best, p[k])
          <6>1. best[p[k]] # -1
            BY <1>0, <5>2
          <6> QED BY <1>1, <5>1, <5>3, <6>1 DEF Settled
        <5>5. edges[p[k]][p[k + 1]] \in 0..Unit
          BY <5>0, StepWeight
        <5>6. (best[p[k]] * edges[p[k]][p[k + 1]]) \div Unit <= best[p[k + 1]]
          <6>1. edges[p[k]][p[k + 1]] # -1
            BY <5>5, Weights
          <6> QED BY <5>1, <5>4, <6>1 DEF Relaxed
        <5>7. PICK x : x = (best[p[k]] * edges[p[k]][p[k + 1]]) \div Unit
          OBVIOUS
        <5>8. s[k + 1] <= x
          BY <1>4, <5>0, <5>1, <5>2, <5>5, <5>7, ProductsGrow
        <5>9. x \in 0..Unit /\ s[k + 1] \in 0..Unit /\ best[p[k + 1]] \in Int
          BY <1>3, <1>4, <5>0, <5>1, <5>2, <5>5, <5>7, Products
        <5>10. s[k + 1] <= best[p[k + 1]]
          <6>1. x <= best[p[k + 1]]
            BY <5>6, <5>7
          <6>2. x \in Int /\ s[k + 1] \in Int /\ best[p[k + 1]] \in Int
            BY <5>9, Weights
          <6> QED BY <5>8, <6>1, <6>2, Transitive
        <5> QED BY <5>0, <5>10
      <4>3. L \in S
        <5> HIDE DEF S
        <5>1. \A k \in (i + 1)..L : k \in S
          <6>1. L \in Nat
            BY <1>0
          <6> HIDE DEF L
          <6> QED BY <4>0, <4>1, <4>2, <6>1, UpTo
        <5>2. L \in (i + 1)..L
          BY <1>0, <4>0
        <5> QED BY <5>1, <5>2
      <4>4. s[L] <= best[p[L]]
        BY <4>3
      <4> QED BY <1>1, <3>1, <4>4 DEF Covers
    <3> QED BY <3>2, <3>3
  <2> QED BY <2>1, <2>2
<1> QED BY <1>1, <1>7, <1>8 DEF Covers

Left(at) == Len(at.queue) + Cardinality(Room(at.best))

\* A node that is out of hops is only taken off the queue.
LEMMA PoppedGood ==
    ASSUME NEW a, NEW at, SearchGood(at, a), at.queue # <<>>, at.queue[1][2] >= MaxHops
    PROVE  /\ SearchGood([at EXCEPT !.queue = Tail(@)], a)
           /\ Left([at EXCEPT !.queue = Tail(@)]) <= Left(at) - 1
<1>1. PICK q, r, best, h, new : /\ q = at.queue /\ r = Tail(q) /\ best = at.best /\ h = q[1][2]
                                /\ new = [at EXCEPT !.queue = Tail(@)]
  OBVIOUS
<1>2. /\ at \in SearchState /\ Searching(q, best) /\ InTurn(q) /\ Backed(best, a) /\ Covered(q, best, a)
      /\ q # <<>> /\ h >= MaxHops
  BY <1>1 DEF SearchGood
<1>3. q \in Seq(Peer \X Nat) /\ best \in Found /\ \A i \in 1..Len(q) : best[q[i][1]] # -1
  BY <1>2 DEF Searching
<1>4. /\ r \in Seq(Peer \X Nat) /\ Len(q) \in Nat /\ Len(q) >= 1 /\ Len(r) = Len(q) - 1
      /\ \A i \in 1..(Len(q) - 1) : r[i] = q[i + 1]
  BY <1>1, <1>2, <1>3, TailFacts
<1>5. new \in SearchState /\ new.queue = r /\ new.best = best
  BY <1>1, <1>2, <1>4 DEF SearchState
<1>6. \A i \in 1..Len(r) : r[i] = q[i + 1] /\ i + 1 \in 1..Len(q) /\ 1 <= i + 1
  BY <1>4
<1>7. \A i \in 1..Len(q) : q[i] \in Peer \X Nat
  BY <1>3
<1>8. h \in Nat /\ \A i \in 1..Len(r) : h <= r[i][2] /\ r[i][2] <= h + 1 /\ r[i][2] \in Nat
  <2>1. 1 \in 1..Len(q)
    BY <1>4
  <2>2. h \in Nat
    BY <1>1, <1>7, <2>1
  <2>3. ASSUME NEW i \in 1..Len(r) PROVE h <= r[i][2] /\ r[i][2] <= h + 1 /\ r[i][2] \in Nat
    BY <1>1, <1>2, <1>6, <1>7, <2>1 DEF InTurn
  <2> QED BY <2>2, <2>3
<1>9. Searching(r, best)
  BY <1>3, <1>4, <1>6 DEF Searching
<1>10. InTurn(r)
  <2> SUFFICES ASSUME NEW i \in 1..Len(r), NEW j \in 1..Len(r), i <= j
               PROVE  r[i][2] <= r[j][2] /\ r[j][2] <= r[1][2] + 1
    BY DEF InTurn
  <2>1. 1 \in 1..Len(r) /\ i + 1 <= j + 1
    BY <1>4
  <2>2. r[i][2] <= r[j][2]
    BY <1>2, <1>6, <2>1 DEF InTurn
  <2>3. h <= r[1][2] /\ r[j][2] <= h + 1 /\ r[1][2] \in Nat /\ r[j][2] \in Nat
    BY <1>8, <2>1
  <2> QED BY <1>8, <2>2, <2>3
<1>11. ~\E i \in 1..Len(r) : r[i][2] < MaxHops
  BY <1>2, <1>8, GraphNumbers
<1>12. Covered(r, best, a)
  <2> SUFFICES ASSUME NEW p, NEW b, Route(p, Linked, a, b), Len(p) - 1 <= MaxHops PROVE Covers(r, best, p)
    BY DEF Covered
  <2>1. Covers(q, best, p)
    BY <1>2 DEF Covered
  <2>2. Len(p) \in Nat
    BY RouteFacts
  <2>3. ASSUME NEW i \in 1..Len(p), NEW j \in 1..Len(q), q[j][1] = p[i], q[j][2] <= i - 1,
               Strengths(p)[i] <= best[p[i]]
        PROVE  Covers(r, best, p)
    <3>1. CASE j = 1
      <4>1. i = Len(p)
        <5>1. h <= i - 1 /\ h >= MaxHops /\ h \in Nat
          BY <1>1, <1>2, <1>8, <2>3, <3>1
        <5> QED BY <2>2, <5>1, GraphNumbers
      <4> QED BY <2>3, <4>1 DEF Covers
    <3>2. CASE j # 1
      <4>1. j - 1 \in 1..Len(r) /\ r[j - 1] = q[j]
        <5>1. j - 1 \in 1..(Len(q) - 1) /\ (j - 1) + 1 = j
          BY <1>4, <3>2
        <5> QED BY <1>4, <5>1
      <4> QED BY <2>3, <4>1 DEF Covers
    <3> QED BY <3>1, <3>2
  <2> QED BY <2>1, <2>3 DEF Covers
<1>13. SearchGood(new, a)
  BY <1>2, <1>5, <1>9, <1>10, <1>11, <1>12 DEF SearchGood
<1>14. Left(new) <= Left(at) - 1
  <2>1. Cardinality(Room(best)) \in Nat
    BY RoomFacts
  <2>2. Left(new) = Len(r) + Cardinality(Room(best)) /\ Left(at) = Len(q) + Cardinality(Room(best))
    BY <1>1, <1>5 DEF Left
  <2> QED BY <1>4, <2>1, <2>2
<1> QED BY <1>1, <1>13, <1>14

\* A node with hops left hands its value on.
LEMMA ExploredGood ==
    ASSUME edges \in Graph, NEW a, NEW at, SearchGood(at, a), at.queue # <<>>, at.queue[1][2] < MaxHops,
           NEW f,
           TurnRun(f, [at EXCEPT !.queue = Tail(@)], at.queue[1][1], at.queue[1][2],
                   Z!Cardinality(Z!Successors(at.queue[1][1])))
    PROVE  LET acc == f[Z!Cardinality(Z!Successors(at.queue[1][1]))] IN
           SearchGood(acc, a) /\ Left(acc) <= Left(at) - 1
<1>1. PICK q, r, best0, c, h, popped :
            /\ q = at.queue /\ r = Tail(q) /\ best0 = at.best /\ c = q[1][1] /\ h = q[1][2]
            /\ popped = [at EXCEPT !.queue = Tail(@)]
  OBVIOUS
<1>2. /\ at \in SearchState /\ Searching(q, best0) /\ InTurn(q) /\ Backed(best0, a) /\ Covered(q, best0, a)
      /\ q # <<>> /\ h < MaxHops
      /\ (\E i \in 1..Len(q) : q[i][2] < MaxHops) => Settled(q, best0)
  BY <1>1 DEF SearchGood
<1>3. q \in Seq(Peer \X Nat) /\ best0 \in Found /\ \A i \in 1..Len(q) : best0[q[i][1]] # -1
  BY <1>2 DEF Searching
<1>4. /\ r \in Seq(Peer \X Nat) /\ Len(q) \in Nat /\ Len(q) >= 1 /\ Len(r) = Len(q) - 1
      /\ \A i \in 1..(Len(q) - 1) : r[i] = q[i + 1]
  BY <1>1, <1>2, <1>3, TailFacts
<1>5. popped \in SearchState /\ popped.queue = r /\ popped.best = best0
  BY <1>1, <1>2, <1>4 DEF SearchState
<1>6. \A i \in 1..Len(r) : r[i] = q[i + 1] /\ i + 1 \in 1..Len(q) /\ 1 <= i + 1
  <2>1. ASSUME NEW i \in 1..Len(r) PROVE i \in 1..(Len(q) - 1) /\ i + 1 \in 1..Len(q) /\ 1 <= i + 1
    BY <1>4
  <2> QED BY <1>4, <2>1
<1>7. \A i \in 1..Len(q) : q[i] \in Peer \X Nat
  BY <1>3
<1>8. 1 \in 1..Len(q) /\ c \in Peer /\ h \in Nat /\ q[1] = <<c, h>> /\ best0[c] # -1
  <2>1. 1 \in 1..Len(q)
    BY <1>4
  <2>2. q[1] \in Peer \X Nat /\ best0[q[1][1]] # -1
    BY <1>3, <1>7, <2>1
  <2>3. q[1] = <<q[1][1], q[1][2]>> /\ q[1][1] \in Peer /\ q[1][2] \in Nat
    BY <2>2
  <2> QED BY <1>1, <2>1, <2>2, <2>3
<1>9. Settled(q, best0)
  BY <1>1, <1>2, <1>8
<1>10. TurnGood(popped, r, best0, a, c, h, {})
  <2>1. Searching(r, best0)
    BY <1>3, <1>4, <1>6 DEF Searching
  <2>2. \A v \in Peer : best0[v] <= best0[v]
    <3>1. \A v \in Peer : best0[v] \in Int
      BY <1>3, GraphNumbers DEF Found
    <3> QED BY <3>1
  <2>3. ASSUME NEW i \in 1..Len(r), NEW j \in 1..Len(r), i <= j
        PROVE  h <= r[i][2] /\ r[i][2] <= r[j][2] /\ r[j][2] <= h + 1
    <3>1. i + 1 <= j + 1
      BY <1>4, <2>3
    <3> QED BY <1>1, <1>2, <1>6, <1>8, <3>1 DEF InTurn
  <2>4. Len(r) + Cardinality(Room(best0)) <= Len(r) + Cardinality(Room(best0))
    BY <1>4, RoomFacts
  <2> QED BY <1>2, <1>5, <2>1, <2>2, <2>3, <2>4 DEF TurnGood
<1>11. PICK acc : acc = f[Z!Cardinality(Z!Successors(c))]
  OBVIOUS
<1>12. TurnRun(f, popped, c, h, Z!Cardinality(Z!Successors(c)))
  BY <1>1
<1>13. TurnGood(acc, r, best0, a, c, h, {y \in Peer : edges[c][y] # -1})
  BY <1>3, <1>4, <1>8, <1>10, <1>11, <1>12, TurnEndsGood
<1>14. PICK s, best : s = acc.queue /\ best = acc.best
  OBVIOUS
<1>15. /\ acc \in SearchState /\ Searching(s, best) /\ Backed(best, a)
       /\ \A v \in Peer : best0[v] <= best[v]
       /\ best[c] = best0[c]
       /\ \A i, j \in 1..Len(s) : i <= j => h <= s[i][2] /\ s[i][2] <= s[j][2] /\ s[j][2] <= h + 1
       /\ \A i \in 1..Len(r) : \E j \in 1..Len(s) : s[j] = r[i]
       /\ \A v \in Peer : best[v] # best0[v] => \E j \in 1..Len(s) : s[j] = <<v, h + 1>>
       /\ \A y \in Peer : edges[c][y] # -1 => (best0[c] * edges[c][y]) \div Unit <= best[y]
       /\ Len(s) + Cardinality(Room(best)) <= Len(r) + Cardinality(Room(best0))
  BY <1>13, <1>14 DEF TurnGood
<1>16. s \in Seq(Peer \X Nat) /\ best \in Found /\ Len(s) \in Nat
  BY <1>15 DEF Searching
<1>17. InTurn(s)
  <2> SUFFICES ASSUME NEW i \in 1..Len(s), NEW j \in 1..Len(s), i <= j
               PROVE  s[i][2] <= s[j][2] /\ s[j][2] <= s[1][2] + 1
    BY DEF InTurn
  <2>1. 1 \in 1..Len(s) /\ 1 <= i
    BY <1>16
  <2>2. h <= s[1][2] /\ s[i][2] <= s[j][2] /\ s[j][2] <= h + 1
    BY <1>15, <2>1
  <2>3. s[1] \in Peer \X Nat /\ s[j] \in Peer \X Nat
    BY <1>16, <2>1
  <2>4. s[1][2] \in Nat /\ s[j][2] \in Nat
    BY <2>3
  <2>5. s[j][2] <= s[1][2] + 1
    <3>1. PICK x \in Nat, y \in Nat : x = s[1][2] /\ y = s[j][2]
      BY <2>4
    <3>2. h \in Nat /\ h <= x /\ y <= h + 1
      BY <1>8, <2>2, <3>1
    <3>3. y <= x + 1
      BY <3>2
    <3> QED BY <3>1, <3>3
  <2> QED BY <2>2, <2>5
<1>18. Settled(s, best)
  <2> SUFFICES ASSUME NEW x \in Peer, best[x] # -1, ~Waiting(s, x) PROVE Relaxed(best, x)
    BY DEF Settled
  <2>1. best[x] = best0[x]
    <3> SUFFICES ASSUME best[x] # best0[x] PROVE FALSE
      OBVIOUS
    <3>1. PICK j \in 1..Len(s) : s[j] = <<x, h + 1>>
      BY <1>15
    <3>2. s[j][1] = x
      BY <3>1
    <3> QED BY <3>2 DEF Waiting
  <2>2. CASE x = c
    BY <1>15, <2>2 DEF Relaxed
  <2>3. CASE x # c
    <3>1. ~Waiting(q, x)
      <4> SUFFICES ASSUME NEW i \in 1..Len(q), q[i][1] = x PROVE FALSE
        BY DEF Waiting
      <4>1. i # 1
        BY <1>8, <2>3
      <4>2. i - 1 \in 1..Len(r) /\ r[i - 1] = q[i]
        <5>1. i - 1 \in 1..(Len(q) - 1) /\ (i - 1) + 1 = i
          BY <1>4, <4>1
        <5> QED BY <1>4, <5>1
      <4>3. PICK j \in 1..Len(s) : s[j] = q[i]
        BY <1>15, <4>2
      <4> QED BY <4>3 DEF Waiting
    <3>2. Relaxed(best0, x)
      BY <1>9, <2>1, <3>1 DEF Settled
    <3>3. ASSUME NEW y \in Peer, edges[x][y] # -1 PROVE (best[x] * edges[x][y]) \div Unit <= best[y]
      <4>1. (best0[x] * edges[x][y]) \div Unit <= best0[y]
        BY <3>2, <3>3 DEF Relaxed
      <4>2. best0[x] \in 0..Unit /\ edges[x][y] \in 0..Unit
        BY <1>3, <2>1, <3>3 DEF Found, Graph
      <4>3. (best0[x] * edges[x][y]) \div Unit \in Int /\ best0[y] \in Int /\ best[y] \in Int
        <5>1. (best0[x] * edges[x][y]) \div Unit \in 0..Unit
          BY <4>2, Products
        <5> QED BY <1>3, <1>16, <5>1, GraphNumbers DEF Found
      <4>4. best0[y] <= best[y]
        BY <1>15
      <4>5. PICK t : t = (best0[x] * edges[x][y]) \div Unit
        OBVIOUS
      <4>6. t <= best[y]
        BY <4>1, <4>3, <4>4, <4>5
      <4> QED BY <2>1, <4>5, <4>6
    <3> QED BY <3>3 DEF Relaxed
  <2> QED BY <2>2, <2>3
<1>19. Covered(s, best, a)
  <2> SUFFICES ASSUME NEW p, NEW b, Route(p, Linked, a, b), Len(p) - 1 <= MaxHops PROVE Covers(s, best, p)
    BY DEF Covered
  <2>1. Covers(q, best0, p)
    BY <1>2 DEF Covered
  <2>2. TurnGood(acc, Tail(q), best0, a, c, h, {y \in Peer : edges[c][y] # -1})
    BY <1>1, <1>13
  <2>3. Settled(acc.queue, acc.best)
    BY <1>14, <1>18
  <2>4. Covers(acc.queue, acc.best, p)
    BY <1>2, <1>3, <1>8, <2>1, <2>2, <2>3, CoverageKept
  <2> QED BY <1>14, <2>4
<1>20. SearchGood(acc, a)
  BY <1>14, <1>15, <1>17, <1>18, <1>19 DEF SearchGood
<1>21. Left(acc) <= Left(at) - 1
  <2>1. Cardinality(Room(best)) \in Nat /\ Cardinality(Room(best0)) \in Nat
    BY RoomFacts
  <2>2. Left(acc) = Len(s) + Cardinality(Room(best)) /\ Left(at) = Len(q) + Cardinality(Room(best0))
    BY <1>1, <1>14 DEF Left
  <2> QED BY <1>4, <1>15, <1>16, <2>1, <2>2
<1> QED BY <1>1, <1>11, <1>20, <1>21

LEMMA ExploreGood ==
    ASSUME edges \in Graph, NEW a, NEW at, SearchGood(at, a)
    PROVE  /\ SearchGood(Z!Explore(at, MaxHops), a)
           /\ at.queue = <<>> => Z!Explore(at, MaxHops) = at
           /\ at.queue # <<>> => Left(Z!Explore(at, MaxHops)) <= Left(at) - 1
<1>1. CASE at.queue = <<>>
  <2>1. Z!Explore(at, MaxHops) = at
    BY <1>1 DEF Z!Explore
  <2> QED BY <1>1, <2>1
<1>2. CASE at.queue # <<>> /\ at.queue[1][2] >= MaxHops
  <2>1. Z!Explore(at, MaxHops) = [at EXCEPT !.queue = Tail(@)]
    BY <1>2 DEF Z!Explore, Z!out_of_hops
  <2> QED BY <1>2, <2>1, PoppedGood
<1>3. CASE at.queue # <<>> /\ ~(at.queue[1][2] >= MaxHops)
  <2>1. PICK c, h, n, popped : /\ c = at.queue[1][1] /\ h = at.queue[1][2]
                               /\ n = Z!Cardinality(Z!Successors(c))
                               /\ popped = [at EXCEPT !.queue = Tail(@)]
    OBVIOUS
  <2>2. c \in Peer /\ h \in Nat
    <3>1. at.queue \in Seq(Peer \X Nat)
      BY DEF SearchGood, Searching
    <3>2. at.queue[1] \in Peer \X Nat
      BY <1>3, <3>1
    <3> QED BY <2>1, <3>2
  <2> DEFINE f == CHOOSE g : TurnRun(g, popped, c, h, n)
  <2>3. n \in Nat
    BY <2>1, <2>2, SuccessorsInOrder
  <2>4. TurnRun(f, popped, c, h, n)
    BY <2>3, TurnRunExists
  <2>5. Z!Explore(at, MaxHops) = f[n]
    BY <1>3, <2>1 DEF Z!Explore, Z!out_of_hops, TurnRun
  <2> HIDE DEF f
  <2>6. at.queue[1][2] < MaxHops
    BY <1>3, <2>1, <2>2, GraphNumbers
  <2>7. SearchGood(f[n], a) /\ Left(f[n]) <= Left(at) - 1
    BY <1>3, <2>1, <2>4, <2>6, ExploredGood
  <2> QED BY <1>3, <2>5, <2>7
<1> QED BY <1>1, <1>2, <1>3

Start(a) == [queue |-> <<<<a, 0>>>>, best |-> [n \in Peer |-> IF n = a THEN Unit ELSE -1]]

LEMMA StartGood ==
    ASSUME edges \in Graph, NEW a \in Peer
    PROVE  SearchGood(Start(a), a) /\ Left(Start(a)) <= Z!Turns /\ Z!Turns \in Nat
<1>0. Unit \in Nat
  BY GraphNumbers
<1>1. PICK q, best : q = <<<<a, 0>>>> /\ best = [n \in Peer |-> IF n = a THEN Unit ELSE -1]
  OBVIOUS
<1>2. /\ q \in Seq(Peer \X Nat) /\ Len(q) = 1 /\ q[1] = <<a, 0>> /\ q[1][1] = a /\ q[1][2] = 0
      /\ \A i \in 1..Len(q) : i = 1
  BY <1>1
<1>3. best \in Found /\ best[a] = Unit /\ \A v \in Peer : best[v] # -1 => v = a
  BY <1>0, <1>1 DEF Found
<1>4. Start(a) \in SearchState /\ Start(a).queue = q /\ Start(a).best = best
  BY <1>1, <1>2, <1>3 DEF Start, SearchState
<1>5. Searching(q, best)
  BY <1>0, <1>2, <1>3 DEF Searching
<1>6. InTurn(q)
  BY <1>2 DEF InTurn
<1>7. Backed(best, a)
  <2> SUFFICES ASSUME NEW v \in Peer, best[v] # -1
               PROVE  \E p : /\ Route(p, Linked, a, v) /\ Strengths(p)[Len(p)] = best[v]
                             /\ \A i \in 1..Len(p) : Strengths(p)[i] <= best[p[i]]
    BY DEF Backed
  <2>1. PICK p : p = <<a>>
    OBVIOUS
  <2>2. Route(p, Linked, a, a) /\ Len(p) = 1 /\ p[1] = a /\ v = a
    BY <1>3, <2>1, Shortest
  <2>3. Strengths(p)[1] = Unit
    BY <2>2, StrengthFacts
  <2>4. \A i \in 1..Len(p) : i = 1
    BY <2>2
  <2>5. \A i \in 1..Len(p) : Strengths(p)[i] <= best[p[i]]
    BY <1>0, <1>3, <2>2, <2>3, <2>4
  <2> QED BY <1>3, <2>2, <2>3, <2>5
<1>8. Settled(q, best)
  BY <1>2, <1>3 DEF Settled, Waiting
<1>9. Covered(q, best, a)
  <2> SUFFICES ASSUME NEW p, NEW b, Route(p, Linked, a, b) PROVE Covers(q, best, p)
    BY DEF Covered
  <2>1. 1 \in 1..Len(p) /\ p[1] = a /\ 1 \in 1..Len(q)
    BY <1>2, RouteFacts DEF Route
  <2>2. Strengths(p)[1] <= best[p[1]]
    BY <1>0, <1>3, <2>1, StrengthFacts
  <2>3. q[1][1] = p[1] /\ q[1][2] <= 1 - 1
    BY <1>2, <2>1
  <2> QED BY <2>1, <2>2, <2>3 DEF Covers
<1>10. SearchGood(Start(a), a)
  BY <1>4, <1>5, <1>6, <1>7, <1>8, <1>9 DEF SearchGood
<1>11. Left(Start(a)) = 1 + Cardinality(Room(best))
  BY <1>2, <1>4 DEF Left
<1>12. Z!Turns = 1 + (Unit + 1) * Cardinality(Peer)
  BY SameCardinality DEF Z!Turns
<1>13. (Unit + 1) * Cardinality(Peer) \in Nat
  BY GraphNumbers
<1>14. Cardinality(Room(best)) \in Nat /\ Cardinality(Room(best)) <= (Unit + 1) * Cardinality(Peer)
  BY RoomFacts
<1> QED BY <1>10, <1>11, <1>12, <1>13, <1>14

TrustRun(f, a) ==
    f = [i \in 0..Z!Turns |-> IF i = 0 THEN Start(a) ELSE Z!Explore(f[i - 1], MaxHops)]

LEMMA TrustRunExists ==
    ASSUME edges \in Graph, NEW a \in Peer
    PROVE  \E f : TrustRun(f, a)
<1> DEFINE States == {s \in SearchState : SearchGood(s, a)}
           step == [s \in States |-> Z!Explore(s, MaxHops)]
<1>1. Start(a) \in States
  BY StartGood DEF SearchGood
<1>2. step \in [States -> States]
  <2>1. \A s \in States : Z!Explore(s, MaxHops) \in States
    BY ExploreGood DEF SearchGood
  <2> QED BY <2>1
<1>3. Z!Turns \in Nat
  BY StartGood
<1>4. PICK f \in [0..Z!Turns -> States] :
         \A i \in 0..Z!Turns : f[i] = IF i = 0 THEN Start(a) ELSE step[f[i - 1]]
  <2>1. PICK all, base, turn, last : /\ all = States /\ base = Start(a) /\ turn = step /\ last = Z!Turns
    OBVIOUS
  <2> HIDE DEF States, step
  <2>2. base \in all /\ turn \in [all -> all] /\ last \in Nat
    BY <1>1, <1>2, <1>3, <2>1
  <2>3. PICK f : Iterates(f, all, base, turn, last)
    BY <2>2, Iterated
  <2> QED BY <2>1, <2>3 DEF Iterates
<1>5. ASSUME NEW i \in 0..Z!Turns PROVE f[i] = IF i = 0 THEN Start(a) ELSE Z!Explore(f[i - 1], MaxHops)
  <2>1. CASE i = 0
    BY <1>4, <2>1
  <2>2. CASE i # 0
    <3>1. i - 1 \in 0..Z!Turns
      BY <1>3, <2>2
    <3>2. f[i - 1] \in States
      BY <3>1
    <3>3. step[f[i - 1]] = Z!Explore(f[i - 1], MaxHops)
      BY <3>2
    <3> QED BY <1>4, <2>2, <3>3
  <2> QED BY <2>1, <2>2
<1>6. TrustRun(f, a)
  BY <1>5 DEF TrustRun
<1> QED BY <1>6

\* After its turns the search is over.
LEMMA SearchEnds ==
    ASSUME edges \in Graph, NEW a \in Peer, NEW f, TrustRun(f, a)
    PROVE  SearchGood(f[Z!Turns], a) /\ f[Z!Turns].queue = <<>>
<1> DEFINE T == Z!Turns
           S == {i \in 0..T : SearchGood(f[i], a) /\ (f[i].queue = <<>> \/ Left(f[i]) <= T - i)}
<1>0. T \in Nat
  BY StartGood
<1>1. \A i \in 0..T : f[i] = IF i = 0 THEN Start(a) ELSE Z!Explore(f[i - 1], MaxHops)
  BY DEF TrustRun
<1>2. \A at : Cardinality(Room(at.best)) \in Nat
  BY RoomFacts
<1>3. ASSUME NEW at, SearchGood(at, a) PROVE Left(at) \in Nat /\ Left(at) >= Len(at.queue) /\ Len(at.queue) \in Nat
  <2>1. Len(at.queue) \in Nat
    BY <1>3 DEF SearchGood, Searching
  <2>2. Cardinality(Room(at.best)) \in Nat
    BY <1>2
  <2> QED BY <2>1, <2>2 DEF Left
<1> HIDE DEF T
<1>4. 0 \in S
  <2>1. f[0] = Start(a) /\ 0 \in 0..T /\ T - 0 = T
    BY <1>0, <1>1
  <2> QED BY <2>1, StartGood DEF T
<1>5. ASSUME NEW i \in 0..(T - 1), i \in S PROVE i + 1 \in S
  <2>1. i + 1 \in 0..T /\ i + 1 # 0 /\ (i + 1) - 1 = i
    BY <1>0
  <2>2. f[i + 1] = Z!Explore(f[i], MaxHops)
    BY <1>1, <2>1
  <2>3. SearchGood(f[i], a) /\ SearchGood(f[i + 1], a)
    BY <1>5, <2>2, ExploreGood
  <2>4. CASE f[i].queue = <<>>
    <3>1. f[i + 1] = f[i]
      BY <2>2, <2>3, <2>4, ExploreGood
    <3> QED BY <2>1, <2>3, <2>4, <3>1
  <2>5. CASE f[i].queue # <<>>
    <3>1. Left(f[i + 1]) <= Left(f[i]) - 1 /\ Left(f[i]) <= T - i
      BY <1>5, <2>2, <2>3, <2>5, ExploreGood
    <3>2. Left(f[i + 1]) \in Nat /\ Left(f[i]) \in Nat
      BY <1>3, <2>3
    <3>3. Left(f[i + 1]) <= T - (i + 1)
      BY <1>0, <3>1, <3>2
    <3> QED BY <2>1, <2>3, <3>3
  <2> QED BY <2>4, <2>5
<1>6. T \in S
  <2> HIDE DEF S
  <2>1. \A i \in 0..T : i \in S
    BY <1>0, <1>4, <1>5, UpTo
  <2> QED BY <1>0, <2>1
<1>7. SearchGood(f[T], a) /\ (f[T].queue = <<>> \/ Left(f[T]) <= 0)
  BY <1>0, <1>6
<1>8. f[T].queue = <<>>
  <2>1. CASE Left(f[T]) <= 0
    <3>1. Len(f[T].queue) = 0
      BY <1>3, <1>7, <2>1
    <3>2. f[T].queue \in Seq(Peer \X Nat)
      BY <1>7 DEF SearchGood, Searching
    <3> QED BY <3>1, <3>2
  <2> QED BY <1>7, <2>1
<1> QED BY <1>7, <1>8 DEF T

\* The transitive trust is no less than that of any path within the limit of
\* hops, and that of some path.
LEMMA TransitiveTrustIs ==
    ASSUME edges \in Graph, NEW n \in Peer, NEW m \in Peer, n # m, edges[n][m] = -1
    PROVE  LET trust == Z!calculate_transitive_trust(n, m, MaxHops) IN
           /\ \A p : Route(p, Linked, n, m) /\ Len(p) - 1 <= MaxHops => Z!calculate_path_strength(p) <= trust
           /\ trust # 0 => \E p : Route(p, Linked, n, m) /\ Z!calculate_path_strength(p) = trust
<1> DEFINE f == CHOOSE g : TrustRun(g, n)
<1>0. Unit \in Nat
  BY GraphNumbers
<1>1. TrustRun(f, n)
  BY TrustRunExists
<1>2. PICK trust : trust = Z!calculate_transitive_trust(n, m, MaxHops)
  OBVIOUS
<1>3. trust = IF f[Z!Turns].best[m] = -1 THEN 0 ELSE f[Z!Turns].best[m]
  BY <1>2 DEF Z!calculate_transitive_trust, Z!Absent, TrustRun, Start
<1> HIDE DEF f
<1>4. SearchGood(f[Z!Turns], n) /\ f[Z!Turns].queue = <<>>
  BY <1>1, SearchEnds
<1>5. PICK best : best = f[Z!Turns].best
  OBVIOUS
<1>6. best \in Found /\ Backed(best, n) /\ Covered(<<>>, best, n)
  BY <1>4, <1>5 DEF SearchGood, Searching
<1>7. ASSUME NEW p, Route(p, Linked, n, m)
      PROVE  Z!calculate_path_strength(p) = Strengths(p)[Len(p)] /\ Strengths(p)[Len(p)] \in 0..Unit /\ p[Len(p)] = m
  <2>1. Len(p) \in Nat /\ Len(p) >= 1 /\ p[1] = n /\ p[Len(p)] = m
    BY <1>7, RouteFacts DEF Route
  <2>2. Len(p) # 1
    BY <2>1
  <2>3. ~(Len(p) < 2) /\ Len(p) \in 1..Len(p)
    BY <2>1, <2>2
  <2>4. Strengths(p)[Len(p)] \in 0..Unit
    BY <1>7, <2>3, StrengthFacts
  <2> QED BY <2>1, <2>3, <2>4, PathStrengthIs
<1>8. ASSUME NEW p, Route(p, Linked, n, m), Len(p) - 1 <= MaxHops PROVE Z!calculate_path_strength(p) <= trust
  <2>1. Covers(<<>>, best, p)
    BY <1>6, <1>8 DEF Covered
  <2>2. Len(<<>>) = 0
    OBVIOUS
  <2>3. Strengths(p)[Len(p)] <= best[p[Len(p)]]
    BY <2>1, <2>2 DEF Covers
  <2>4. Strengths(p)[Len(p)] <= best[m] /\ Strengths(p)[Len(p)] \in 0..Unit
    BY <1>7, <1>8, <2>3
  <2>5. best[m] # -1
    BY <1>0, <2>4
  <2> QED BY <1>3, <1>5, <1>7, <1>8, <2>4, <2>5
<1>9. ASSUME trust # 0 PROVE \E p : Route(p, Linked, n, m) /\ Z!calculate_path_strength(p) = trust
  <2>1. best[m] # -1 /\ trust = best[m]
    BY <1>3, <1>5, <1>9
  <2>2. PICK p : Route(p, Linked, n, m) /\ Strengths(p)[Len(p)] = best[m]
    BY <1>6, <2>1 DEF Backed
  <2> QED BY <1>7, <2>1, <2>2
<1> QED BY <1>2, <1>8, <1>9

LEMMA SearchesFind ==
    ASSUME edges \in Graph
    PROVE  Z!SearchesSound
<1>2. \A n \in Z!find_bridge_nodes(1) : Z!get_trusts(n) # {} /\ n \in Z!find_trust_hubs(1)
  BY BridgesAre
<1>3. ASSUME NEW n \in Peer, NEW m \in Peer, n # m
      PROVE  LET paths == Z!SimplePaths(n, m, Z!HasEdge)
                 short == {p \in paths : Len(p) - 1 <= MaxHops}
                 trusting == Z!SimplePaths(n, m, Z!IsTrusting)
                 trust == Z!calculate_transitive_trust(n, m, MaxHops)
                 strongest == Z!find_strongest_path(n, m, 6)
             IN  /\ edges[n][m] = Z!Absent =>
                      /\ \A p \in short : Z!calculate_path_strength(p) <= trust
                      /\ trust # 0 => \E p \in paths : Z!calculate_path_strength(p) = trust
                 /\ Z!find_all_paths(n, m, MaxHops) = {p \in trusting : Len(p) < MaxHops}
                 /\ strongest # <<>> => strongest \in trusting
                 /\ \A p \in trusting : Len(p) < 6 => Z!calculate_path_strength(p) <= Z!calculate_path_strength(strongest)
                 /\ Z!calculate_trust_distance(n, m) =
                      IF trusting = {} THEN Z!Absent ELSE Z!Min({Len(p) - 1 : p \in trusting})
                 /\ (m \in Z!find_trust_community(n, Trusting + 1)) = (trusting # {})
  <2>1. /\ \A p : p \in Z!SimplePaths(n, m, Z!HasEdge) <=> Route(p, Linked, n, m)
        /\ \A p : p \in Z!SimplePaths(n, m, Z!IsTrusting) <=> Route(p, Trusted, n, m)
    BY RoutesAre
  <2>2. Z!Absent = -1
    BY DEF Z!Absent
  <2>3. PICK paths, trusting, trust, strongest :
             /\ paths = Z!SimplePaths(n, m, Z!HasEdge)
             /\ trusting = Z!SimplePaths(n, m, Z!IsTrusting)
             /\ trust = Z!calculate_transitive_trust(n, m, MaxHops)
             /\ strongest = Z!find_strongest_path(n, m, 6)
    OBVIOUS
  <2>4. /\ \A p : p \in paths <=> Route(p, Linked, n, m)
        /\ \A p : p \in trusting <=> Route(p, Trusted, n, m)
    BY <2>1, <2>3
  <2>5. ASSUME edges[n][m] = -1
        PROVE  /\ \A p \in {r \in paths : Len(r) - 1 <= MaxHops} : Z!calculate_path_strength(p) <= trust
               /\ trust # 0 => \E p \in paths : Z!calculate_path_strength(p) = trust
    BY <1>3, <2>3, <2>4, <2>5, TransitiveTrustIs
  <2>6. Z!find_all_paths(n, m, MaxHops) = {p \in trusting : Len(p) < MaxHops}
    <3>1. \A p : p \in Z!find_all_paths(n, m, MaxHops) <=> Route(p, Trusted, n, m) /\ Len(p) < MaxHops
      BY AllPathsAre, GraphNumbers
    <3> QED BY <2>4, <3>1
  <2>7. strongest # <<>> => strongest \in trusting
    BY <1>3, <2>3, <2>4, StrongestIs
  <2>8. \A p \in trusting : Len(p) < 6 => Z!calculate_path_strength(p) <= Z!calculate_path_strength(strongest)
    BY <1>3, <2>3, <2>4, StrongestIs
  <2>9. Z!calculate_trust_distance(n, m) = IF trusting = {} THEN -1 ELSE Z!Min({Len(p) - 1 : p \in trusting})
    BY <1>3, <2>4, DistanceIs
  <2>10. (m \in Z!find_trust_community(n, Trusting + 1)) = (trusting # {})
    <3>1. m \in Z!find_trust_community(n, Trusting + 1) <=> \E p : Route(p, Trusted, n, m)
      BY <1>3, CommunityIs, ReachedAtLast
    <3> QED BY <2>4, <3>1
  <2> QED BY <2>2, <2>3, <2>5, <2>6, <2>7, <2>8, <2>9, <2>10
<1> QED BY <1>2, <1>3 DEF Z!SearchesSound

\* Whatever edges were added, removed, weakened or pruned, and for any number
\* of nodes and limit of hops: the trust along paths is the best within the
\* limit or better but always that of a path, the depth-first search finds all
\* short paths and a strongest of them, the breadth-first search the length of
\* a shortest, and the community what paths reach; a bridge trusts and is
\* trusted.
THEOREM SearchesSoundHolds == EconomySpec => []SearchesSound
<1> DEFINE J == part = "trust" => edges \in Graph
<1>1. EconomyInit => J
  BY GraphInitially DEF EconomyInit
<1>2. J /\ [EconomyNext]_all_vars => J'
  <2> SUFFICES ASSUME J, [EconomyNext]_all_vars PROVE J' OBVIOUS
  <2>1. CASE part = "trust" /\ Z!Next /\ part' = part
    BY <2>1, GraphStep DEF Graph
  <2>2. CASE part' = part /\ UNCHANGED Z_vars
    BY <2>2 DEF Z_vars, Graph
  <2> QED BY <2>1, <2>2 DEF EconomyNext, all_vars
<1>3. J => SearchesSound
  BY SearchesFind DEF SearchesSound
<1> QED BY <1>1, <1>2, <1>3, PTL DEF EconomySpec

=============================================================================
