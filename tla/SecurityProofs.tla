--------------------------- MODULE SecurityProofs ---------------------------
(***************************************************************************)
(* Proofs about the parts of MCSecurity, for any nodes, keys, policies,    *)
(* limits and bounds.                                                      *)
(***************************************************************************)
EXTENDS MCSecurity, FiniteSetTheorems, NaturalsInduction, WellFoundedInduction, TLAPS

LEMMA LeastNumber ==
    ASSUME NEW S \in SUBSET Nat, S # {}
    PROVE  \E x \in S : \A y \in S : x <= y
<1>1. PICK x \in S : \A y \in S : ~ (<<y, x>> \in OpToRel(<, Nat))
  BY NatLessThanWellFounded, WFMin
<1>2. \A y \in S : ~ (y < x)
  BY <1>1 DEF OpToRel
<1> QED BY <1>2

-----------------------------------------------------------------------------
(* KeyRevocation *)

KeyRecord ==
    [key : SigningKey, revoked_at : Nat, revoker : Peer,
     replacement : SigningKey \cup {NoKey}, cert : {"none", "signed", "unsigned"}]

KeyTables ==
    /\ key_revocations \in [Peer -> [SigningKey -> KeyRecord \cup {NoRevocation}]]
    /\ replacements \in [Peer -> [SigningKey -> SigningKey \cup {NoKey}]]
    /\ key_made \subseteq KeyRecord
    /\ key_now \in Nat

\* Somebody made a revocation of the same key with the same replacement.
Announced(r) == \E q \in key_made : q.key = r.key /\ q.replacement = r.replacement

KeysInv ==
    /\ KeyTables
    /\ \A n \in Peer, k \in SigningKey : key_revocations[n][k] # NoRevocation =>
          key_revocations[n][k].key = k /\ Announced(key_revocations[n][k])
    /\ \A message \in key_wire : \A r \in message.revocations : r \in KeyRecord /\ Announced(r)
    /\ K!ReplacementBacked

LEMMA KeysInitially == K!Init => KeysInv
BY DEF K!Init, KeysInv, KeyTables, K!ReplacementBacked, K!get_replacement_key

LEMMA RevokeKeyStep ==
    ASSUME KeysInv, NEW n \in Peer, NEW k \in SigningKey, NEW new \in SigningKey \cup {NoKey},
           NEW cert \in {"none", "signed"}, K!revoke_key(n, k, new, cert)
    PROVE  KeysInv'
<1>0. PICK r : r = [key |-> k, revoked_at |-> key_now, revoker |-> n, replacement |-> new, cert |-> cert]
  OBVIOUS
<1>1. /\ key_revocations' = [key_revocations EXCEPT ![n][k] = r]
      /\ replacements' = [replacements EXCEPT ![n][k] = K!Replaced(@, r)]
      /\ key_made' = key_made \cup {r}
      /\ key_wire' = key_wire /\ key_now' = key_now
      /\ key_revocations[n][k] = NoRevocation
  BY <1>0 DEF K!revoke_key, K!is_key_revoked
<1>2. r \in KeyRecord /\ r.key = k /\ r.replacement = new
  BY <1>0 DEF KeysInv, KeyTables, KeyRecord
<1>3. K!Replaced(replacements[n][k], r) = IF new = NoKey THEN replacements[n][k] ELSE new
  BY <1>2 DEF K!Replaced
<1>12. K!Replaced(replacements[n][k], r) \in SigningKey \cup {NoKey}
  BY <1>3 DEF KeysInv, KeyTables
<1>4. KeyTables'
  <2> DEFINE v == K!Replaced(replacements[n][k], r)
  <2>1. replacements' = [replacements EXCEPT ![n][k] = v]
    BY <1>1 DEF KeysInv, KeyTables
  <2> HIDE DEF v
  <2>2. replacements' \in [Peer -> [SigningKey -> SigningKey \cup {NoKey}]]
    BY <1>12, <2>1 DEF KeysInv, KeyTables, v
  <2>3. key_revocations' \in [Peer -> [SigningKey -> KeyRecord \cup {NoRevocation}]]
    BY <1>1, <1>2 DEF KeysInv, KeyTables
  <2> QED BY <1>1, <1>2, <2>2, <2>3 DEF KeysInv, KeyTables
<1>5. \A q : Announced(q) => Announced(q)'
  BY <1>1 DEF Announced
<1>6. Announced(r)'
  BY <1>1 DEF Announced
<1>7. /\ key_revocations'[n][k] = r /\ r # NoRevocation
      /\ \A m \in Peer, j \in SigningKey : m # n \/ j # k =>
            /\ key_revocations'[m][j] = key_revocations[m][j]
            /\ replacements'[m][j] = replacements[m][j]
      /\ replacements'[n][k] = IF new = NoKey THEN replacements[n][k] ELSE new
  <2>1. r # NoRevocation
    BY <1>2, KeysAssumption DEF KeyRecord
  <2> QED BY <1>1, <1>3, <2>1 DEF KeysInv, KeyTables
<1>8. \A m \in Peer, j \in SigningKey : key_revocations'[m][j] # NoRevocation =>
        key_revocations'[m][j].key = j /\ Announced(key_revocations[m][j])'
  BY <1>2, <1>5, <1>6, <1>7 DEF KeysInv
<1>9. \A message \in key_wire' : \A q \in message.revocations : q \in KeyRecord /\ Announced(q)'
  BY <1>1, <1>5 DEF KeysInv
<1>10. replacements[n][k] = NoKey
  BY <1>1 DEF KeysInv, K!ReplacementBacked, K!get_replacement_key, K!is_key_revoked
<1>11. K!ReplacementBacked'
  <2> SUFFICES ASSUME NEW m \in Peer, NEW j \in SigningKey, replacements'[m][j] # NoKey
               PROVE  /\ key_revocations'[m][j] # NoRevocation
                      /\ \E q \in key_made' : q.key = j /\ q.replacement = replacements'[m][j]
    BY DEF K!ReplacementBacked, K!get_replacement_key, K!is_key_revoked
  <2>1. CASE m = n /\ j = k
    BY <1>1, <1>2, <1>7, <1>10, <2>1
  <2>2. CASE m # n \/ j # k
    BY <1>1, <1>7, <2>2 DEF KeysInv, K!ReplacementBacked, K!get_replacement_key, K!is_key_revoked
  <2> QED BY <2>1, <2>2
<1> QED BY <1>4, <1>8, <1>9, <1>11 DEF KeysInv

LEMMA ProcessKeysStep ==
    ASSUME KeysInv, NEW n \in Peer, NEW message \in key_wire,
           K!process_revocation_list(n, message.revocations)
    PROVE  KeysInv'
<1> DEFINE list == message.revocations
           accepted == {r \in list : K!get_id(r) \notin key_seen[n] /\ K!should_accept_revocation(r)}
           For(k) == {r \in accepted : r.key = k}
           chosen(k) == CHOOSE r \in For(k) : TRUE
<1>1. /\ key_revocations' = [key_revocations EXCEPT ![n] =
             [k \in SigningKey |-> IF For(k) = {} THEN @[k] ELSE chosen(k)]]
      /\ replacements' = [replacements EXCEPT ![n] =
             [k \in SigningKey |-> IF For(k) = {} THEN @[k] ELSE K!Replaced(@[k], chosen(k))]]
      /\ key_wire' = key_wire /\ key_now' = key_now /\ key_made' = key_made
  BY DEF K!process_revocation_list
<1>2. \A k : For(k) # {} => chosen(k) \in list /\ chosen(k).key = k
  OBVIOUS
<1>3. \A r \in list : r \in KeyRecord /\ Announced(r)
  BY DEF KeysInv
<1> HIDE DEF For
<1>4. \A k \in SigningKey : For(k) # {} =>
        /\ chosen(k) \in KeyRecord /\ chosen(k).key = k /\ Announced(chosen(k))
        /\ chosen(k) # NoRevocation
  BY <1>2, <1>3, KeysAssumption DEF KeyRecord
<1> HIDE DEF chosen
<1>5. \A k \in SigningKey : For(k) # {} =>
         K!Replaced(replacements[n][k], chosen(k)) =
            IF chosen(k).replacement = NoKey THEN replacements[n][k] ELSE chosen(k).replacement
  BY DEF K!Replaced
<1>6. /\ \A k \in SigningKey :
            /\ For(k) = {} => key_revocations'[n][k] = key_revocations[n][k]
                              /\ replacements'[n][k] = replacements[n][k]
            /\ For(k) # {} => key_revocations'[n][k] = chosen(k)
                              /\ replacements'[n][k] =
                                   IF chosen(k).replacement = NoKey THEN replacements[n][k]
                                   ELSE chosen(k).replacement
      /\ \A m \in Peer \ {n} : key_revocations'[m] = key_revocations[m]
                               /\ replacements'[m] = replacements[m]
  BY <1>1, <1>5 DEF KeysInv, KeyTables
<1>7. KeyTables'
  <2>1. [k \in SigningKey |-> IF For(k) = {} THEN key_revocations[n][k] ELSE chosen(k)]
           \in [SigningKey -> KeyRecord \cup {NoRevocation}]
    BY <1>4 DEF KeysInv, KeyTables
  <2>2. [k \in SigningKey |-> IF For(k) = {} THEN replacements[n][k]
                              ELSE K!Replaced(replacements[n][k], chosen(k))]
           \in [SigningKey -> SigningKey \cup {NoKey}]
    BY <1>4, <1>5 DEF KeysInv, KeyTables, KeyRecord
  <2> QED BY <1>1, <2>1, <2>2 DEF KeysInv, KeyTables
<1>8. \A q : Announced(q)' = Announced(q)
  BY <1>1 DEF Announced
<1>9. \A m \in Peer, j \in SigningKey : key_revocations'[m][j] # NoRevocation =>
        key_revocations'[m][j].key = j /\ Announced(key_revocations[m][j])'
  BY <1>4, <1>6, <1>8 DEF KeysInv
<1>10. \A msg \in key_wire' : \A q \in msg.revocations : q \in KeyRecord /\ Announced(q)'
  BY <1>1, <1>8 DEF KeysInv
<1>11. K!ReplacementBacked'
  <2> SUFFICES ASSUME NEW m \in Peer, NEW j \in SigningKey, replacements'[m][j] # NoKey
               PROVE  /\ key_revocations'[m][j] # NoRevocation
                      /\ \E q \in key_made' : q.key = j /\ q.replacement = replacements'[m][j]
    BY DEF K!ReplacementBacked, K!get_replacement_key, K!is_key_revoked
  <2>0. replacements[m][j] # NoKey =>
          /\ key_revocations[m][j] # NoRevocation
          /\ \E q \in key_made : q.key = j /\ q.replacement = replacements[m][j]
    BY DEF KeysInv, K!ReplacementBacked, K!get_replacement_key, K!is_key_revoked
  <2>1. CASE m = n /\ For(j) # {}
    BY <1>1, <1>4, <1>6, <2>0, <2>1 DEF Announced
  <2>2. CASE m # n \/ For(j) = {}
    BY <1>1, <1>6, <2>0, <2>2
  <2> QED BY <2>1, <2>2
<1> QED BY <1>7, <1>9, <1>10, <1>11 DEF KeysInv

LEMMA CleanKeysStep ==
    ASSUME KeysInv, NEW n \in Peer, K!cleanup_expired_revocations(n)
    PROVE  KeysInv'
<1> DEFINE gone == {k \in SigningKey : K!is_key_revoked(n, k) /\ K!is_revocation_expired(key_revocations[n][k])}
<1>1. /\ key_revocations' = [key_revocations EXCEPT ![n] =
             [k \in SigningKey |-> IF k \in gone THEN NoRevocation ELSE @[k]]]
      /\ replacements' = [replacements EXCEPT ![n] =
             [k \in SigningKey |-> IF k \in gone THEN NoKey ELSE @[k]]]
      /\ key_wire' = key_wire /\ key_now' = key_now /\ key_made' = key_made
  BY DEF K!cleanup_expired_revocations
<1> HIDE DEF gone
<1>2. \A m \in Peer, k \in SigningKey :
         \/ key_revocations'[m][k] = NoRevocation /\ replacements'[m][k] = NoKey
         \/ key_revocations'[m][k] = key_revocations[m][k] /\ replacements'[m][k] = replacements[m][k]
  BY <1>1 DEF KeysInv, KeyTables
<1>3. KeyTables'
  BY <1>1 DEF KeysInv, KeyTables
<1>4. K!ReplacementBacked'
  BY <1>1, <1>2 DEF KeysInv, K!ReplacementBacked, K!get_replacement_key, K!is_key_revoked
<1>5. \A m \in Peer, k \in SigningKey : key_revocations'[m][k] # NoRevocation =>
          key_revocations'[m][k].key = k /\ Announced(key_revocations[m][k])'
  BY <1>1, <1>2 DEF KeysInv, Announced
<1> QED BY <1>1, <1>3, <1>4, <1>5 DEF KeysInv, Announced

LEMMA KeysStep == KeysInv /\ K!Next => KeysInv'
<1> SUFFICES ASSUME KeysInv, K!Next PROVE KeysInv' OBVIOUS
<1>1. ASSUME NEW n \in Peer, NEW k \in SigningKey, NEW new \in SigningKey \cup {NoKey},
             NEW cert \in {"none", "signed"}, K!revoke_key(n, k, new, cert)
      PROVE  KeysInv'
  BY <1>1, RevokeKeyStep
<1>2. ASSUME NEW n \in Peer, NEW all \in BOOLEAN, K!Send(n, all) PROVE KeysInv'
  <2>1. /\ key_wire' = key_wire \cup {K!KeyRevocationList(K!create_revocation_list(n, all))}
        /\ UNCHANGED <<key_revocations, replacements, key_now, key_made>>
    BY <1>2 DEF K!Send
  <2>2. ASSUME NEW q \in K!KeyRevocationList(K!create_revocation_list(n, all)).revocations
        PROVE  q \in KeyRecord /\ Announced(q)
    <3>1. PICK k \in SigningKey : /\ key_revocations[n][k] # NoRevocation
                                  /\ q = K!from_bytes(key_revocations[n][k])
      BY <2>2 DEF K!KeyRevocationList, K!create_revocation_list, K!is_key_revoked
    <3> DEFINE r == key_revocations[n][k]
    <3>2. r \in KeyRecord /\ Announced(r)
      BY <3>1 DEF KeysInv, KeyTables
    <3>3. q \in KeyRecord /\ q.key = r.key /\ q.replacement = r.replacement
      BY <3>1, <3>2 DEF K!from_bytes, KeyRecord
    <3> QED BY <3>2, <3>3 DEF Announced
  <2>3. \A message \in key_wire' : \A r \in message.revocations : r \in KeyRecord /\ Announced(r)
    BY <2>1, <2>2 DEF KeysInv
  <2> QED BY <2>1, <2>3 DEF KeysInv, KeyTables, Announced, K!ReplacementBacked,
                           K!get_replacement_key, K!is_key_revoked
<1>3. ASSUME NEW n \in Peer, NEW message \in key_wire, K!process_revocation_list(n, message.revocations)
      PROVE  KeysInv'
  BY <1>3, ProcessKeysStep
<1>4. ASSUME NEW n \in Peer, K!cleanup_expired_revocations(n) PROVE KeysInv'
  BY <1>4, CleanKeysStep
<1>5. ASSUME K!Tick PROVE KeysInv'
  BY <1>5 DEF K!Tick, KeysInv, KeyTables, Announced, K!ReplacementBacked,
              K!get_replacement_key, K!is_key_revoked
<1> QED BY <1>1, <1>2, <1>3, <1>4, <1>5 DEF K!Next

\* get_replacement_key answers for revoked keys only, and with a replacement
\* somebody announced (KeyRevocation): for any number of nodes and keys, and
\* however lists are repeated, delayed and lost.
THEOREM ReplacementBackedHolds == SecuritySpec => []ReplacementBacked
<1> DEFINE I == part = "keys" => KeysInv
<1>1. SecurityInit => I
  BY KeysInitially DEF SecurityInit
<1>2. I /\ [SecurityNext]_all_vars => I'
  <2> SUFFICES ASSUME I, [SecurityNext]_all_vars PROVE I' OBVIOUS
  <2>1. CASE part = "keys" /\ K!Next /\ part' = part
    BY <2>1, KeysStep
  <2>2. CASE part' = part /\ UNCHANGED K_vars
    BY <2>2 DEF K_vars, KeysInv, KeyTables, Announced, K!ReplacementBacked,
                K!get_replacement_key, K!is_key_revoked
  <2> QED BY <2>1, <2>2 DEF SecurityNext, all_vars
<1>3. I => ReplacementBacked
  BY DEF ReplacementBacked, KeysInv
<1> QED BY <1>1, <1>2, <1>3, PTL DEF SecuritySpec

-----------------------------------------------------------------------------
(* TokenRevocation *)

TokenRecord ==
    [node : Holder, context : Context \cup {NoContext}, revoked_at : Nat, revoker : Peer]

TokenTables ==
    /\ revocations \in [Peer -> SUBSET TokenRecord]
    /\ by_node \in [Peer -> [Holder -> SUBSET TokenRecord]]
    /\ \A update \in token_wire : update.revocations \in SUBSET TokenRecord
    /\ stopped \subseteq Peer \X T!Token
    /\ token_now \in Nat

\* The index by node is that of the list.
IndexOfList ==
    \A n \in Peer, h \in Holder : by_node[n][h] = {r \in revocations[n] : r.node = h}

\* A token that was refused and lives still has an entry that refuses it.
StillRefused ==
    \A p \in stopped : token_now < p[2].issued_at + TokensTokenLife =>
        \E r \in revocations[p[1]] : T!matches_token(r, p[2])

TokensInv == TokenTables /\ IndexOfList /\ StillRefused

LEMMA TokensInitially == T!Init => TokensInv
BY DEF T!Init, TokensInv, TokenTables, IndexOfList, StillRefused

\* Entries are added; they stay where they are.
LEMMA MoreTokens ==
    ASSUME TokensInv, NEW n \in Peer, NEW new \in SUBSET TokenRecord,
           revocations' = [revocations EXCEPT ![n] = @ \cup new],
           by_node' = [by_node EXCEPT ![n] = [h \in Holder |-> @[h] \cup {r \in new : r.node = h}]],
           UNCHANGED <<token_wire, stopped, token_now>>
    PROVE  TokensInv'
<1>1. TokenTables'
  BY DEF TokensInv, TokenTables
<1>2. IndexOfList'
  BY DEF TokensInv, TokenTables, IndexOfList
<1>3. \A m \in Peer : revocations[m] \subseteq revocations'[m]
  BY DEF TokensInv, TokenTables
<1>4. StillRefused'
  <2> SUFFICES ASSUME NEW p \in stopped, token_now < p[2].issued_at + TokensTokenLife
               PROVE  \E r \in revocations'[p[1]] : T!matches_token(r, p[2])
    BY DEF StillRefused
  <2>1. p[1] \in Peer
    BY DEF TokensInv, TokenTables
  <2>2. PICK r \in revocations[p[1]] : T!matches_token(r, p[2])
    BY DEF TokensInv, StillRefused
  <2> QED BY <1>3, <2>1, <2>2
<1> QED BY <1>1, <1>2, <1>4 DEF TokensInv

\* An entry that expires outlives the tokens it is about, which are older.
LEMMA CleanTokensStep ==
    ASSUME TokensInv, NEW n \in Peer, T!cleanup_expired_revocations(n)
    PROVE  TokensInv'
<1> DEFINE gone == {r \in revocations[n] : T!is_revocation_expired(r)}
<1>1. /\ revocations' = [revocations EXCEPT ![n] = @ \ gone]
      /\ by_node' = [by_node EXCEPT ![n] = [h \in Holder |-> @[h] \ gone]]
      /\ UNCHANGED <<token_wire, stopped, token_now>>
  BY DEF T!cleanup_expired_revocations
<1>0. \A r \in gone : r \in revocations[n] /\ token_now >= r.revoked_at + TokensRevocationLife
  BY DEF T!is_revocation_expired
<1> HIDE DEF gone
<1>2. TokenTables'
  BY <1>1 DEF TokensInv, TokenTables
<1>3. IndexOfList'
  BY <1>1 DEF TokensInv, TokenTables, IndexOfList
<1>4. StillRefused'
  <2> SUFFICES ASSUME NEW p \in stopped, token_now < p[2].issued_at + TokensTokenLife
               PROVE  \E r \in revocations'[p[1]] : T!matches_token(r, p[2])
    BY <1>1 DEF StillRefused
  <2>1. p[1] \in Peer /\ p[2] \in T!Token
    BY DEF TokensInv, TokenTables
  <2>2. PICK r \in revocations[p[1]] : T!matches_token(r, p[2])
    BY DEF TokensInv, StillRefused
  <2>3. r.revoked_at \in Nat /\ p[2].issued_at \in Int /\ p[2].issued_at < r.revoked_at
    BY <2>1, <2>2 DEF TokensInv, TokenTables, TokenRecord, T!Token, T!matches_token
  <2>4. r \notin gone
    BY <1>0, <2>3, TokensAssumption DEF TokensInv, TokenTables
  <2>5. r \in revocations'[p[1]]
    BY <1>1, <2>1, <2>2, <2>4 DEF TokensInv, TokenTables
  <2> QED BY <2>2, <2>5
<1> QED BY <1>2, <1>3, <1>4 DEF TokensInv

LEMMA TokensStep == TokensInv /\ T!Next => TokensInv'
<1> SUFFICES ASSUME TokensInv, T!Next PROVE TokensInv' OBVIOUS
<1>1. ASSUME NEW n \in Peer, NEW h \in Holder, NEW ctx \in Context \cup {NoContext},
             T!revoke_token(n, h, ctx)
      PROVE  TokensInv'
  <2>1. PICK r : r = T!Revocation(h, ctx, n)
    OBVIOUS
  <2>2. r \in TokenRecord /\ r.node = h
    BY <2>1 DEF T!Revocation, TokenRecord, TokensInv, TokenTables
  <2>3. /\ revocations' = [revocations EXCEPT ![n] = @ \cup {r}]
        /\ by_node' = [by_node EXCEPT ![n][h] = @ \cup {r}]
        /\ UNCHANGED <<token_wire, stopped, token_now>>
    BY <1>1, <2>1 DEF T!revoke_token
  <2>4. by_node' = [by_node EXCEPT ![n] = [k \in Holder |-> @[k] \cup {q \in {r} : q.node = k}]]
    BY <2>2, <2>3 DEF TokensInv, TokenTables
  <2>5. {r} \in SUBSET TokenRecord
    BY <2>2
  <2> QED BY <2>3, <2>4, <2>5, MoreTokens
<1>2. ASSUME NEW n \in Peer, NEW all \in BOOLEAN, T!Send(n, all) PROVE TokensInv'
  <2>1. /\ token_wire' = token_wire \cup {[revocations |-> T!create_revocation_list(n, all)]}
        /\ UNCHANGED <<revocations, by_node, stopped, token_now>>
    BY <1>2 DEF T!Send, T!RevocationListUpdate
  <2>2. T!create_revocation_list(n, all) \in SUBSET TokenRecord
    BY DEF T!create_revocation_list, TokensInv, TokenTables
  <2>3. TokenTables'
    BY <2>1, <2>2 DEF TokensInv, TokenTables
  <2> QED BY <2>1, <2>3 DEF TokensInv, IndexOfList, StillRefused
<1>3. ASSUME NEW n \in Peer, NEW update \in token_wire,
             T!process_revocation_list(n, update.revocations)
      PROVE  TokensInv'
  <2>1. PICK new \in T!should_accept_revocation(n, update.revocations) :
           /\ revocations' = [revocations EXCEPT ![n] = @ \cup new]
           /\ by_node' = [by_node EXCEPT ![n] = [h \in Holder |-> @[h] \cup {r \in new : r.node = h}]]
    BY <1>3 DEF T!process_revocation_list
  <2>2. new \in SUBSET TokenRecord
    BY <2>1 DEF T!should_accept_revocation, TokensInv, TokenTables
  <2>3. UNCHANGED <<token_wire, stopped, token_now>>
    BY <1>3 DEF T!process_revocation_list
  <2> QED BY <2>1, <2>2, <2>3, MoreTokens
<1>4. ASSUME NEW n \in Peer, T!cleanup_expired_revocations(n) PROVE TokensInv'
  BY <1>4, CleanTokensStep
<1>5. ASSUME NEW n \in Peer, NEW t \in T!Token, T!Ask(n, t) PROVE TokensInv'
  <2>1. /\ stopped' = stopped \cup {<<n, t>>} /\ T!is_token_revoked(n, t)
        /\ UNCHANGED <<revocations, by_node, token_wire, token_now>>
    BY <1>5 DEF T!Ask
  <2>2. \E r \in revocations[n] : T!matches_token(r, t)
    BY <2>1 DEF T!is_token_revoked
  <2>3. StillRefused'
    BY <2>1, <2>2 DEF TokensInv, StillRefused
  <2>4. TokenTables'
    BY <2>1 DEF TokensInv, TokenTables
  <2> QED BY <2>1, <2>3, <2>4 DEF TokensInv, IndexOfList
<1>6. ASSUME T!Tick PROVE TokensInv'
  <2>1. token_now' = token_now + 1 /\ UNCHANGED <<revocations, by_node, token_wire, stopped>>
    BY <1>6 DEF T!Tick
  <2>2. \A p \in stopped : p[2].issued_at \in Int
    BY DEF TokensInv, TokenTables, T!Token
  <2>3. StillRefused'
    BY <2>1, <2>2, TokensAssumption DEF TokensInv, TokenTables, StillRefused
  <2> QED BY <2>1, <2>3 DEF TokensInv, TokenTables, IndexOfList
<1> QED BY <1>1, <1>2, <1>3, <1>4, <1>5, <1>6 DEF T!Next

\* A node that refused a revoked token refuses it until the token expires
\* (TokenRevocation): for any number of nodes, contexts and tokens, given only
\* that a revocation is kept at least as long as a token lives.
THEOREM RefusedUntilExpiryHolds == SecuritySpec => []RefusedUntilExpiry
<1> DEFINE I == part = "tokens" => TokensInv
<1>1. SecurityInit => I
  BY TokensInitially DEF SecurityInit
<1>2. I /\ [SecurityNext]_all_vars => I'
  <2> SUFFICES ASSUME I, [SecurityNext]_all_vars PROVE I' OBVIOUS
  <2>1. CASE part = "tokens" /\ T!Next /\ part' = part
    BY <2>1, TokensStep
  <2>2. CASE part' = part /\ UNCHANGED T_vars
    BY <2>2 DEF T_vars, TokensInv, TokenTables, IndexOfList, StillRefused
  <2> QED BY <2>1, <2>2 DEF SecurityNext, all_vars
<1>3. I => RefusedUntilExpiry
  <2> SUFFICES ASSUME TokensInv PROVE T!RefusedUntilExpiry
    BY DEF RefusedUntilExpiry
  <2>1. ASSUME NEW p \in stopped, token_now < p[2].issued_at + TokensTokenLife
        PROVE  T!is_token_revoked(p[1], p[2])
    <3>1. p[1] \in Peer /\ p[2].node \in Holder
      BY DEF TokensInv, TokenTables, T!Token
    <3>2. PICK r \in revocations[p[1]] : T!matches_token(r, p[2])
      BY <2>1 DEF TokensInv, StillRefused
    <3>3. r \in by_node[p[1]][p[2].node]
      BY <3>1, <3>2 DEF TokensInv, IndexOfList, T!matches_token
    <3> QED BY <3>2, <3>3 DEF T!is_token_revoked
  <2>2. ASSUME NEW n \in Peer PROVE UNION {by_node[n][h] : h \in Holder} = revocations[n]
    <3>1. \A r \in revocations[n] : r.node \in Holder
      BY DEF TokensInv, TokenTables, TokenRecord
    <3> QED BY <3>1 DEF TokensInv, IndexOfList
  <2> QED BY <2>1, <2>2 DEF T!RefusedUntilExpiry
<1> QED BY <1>1, <1>2, <1>3, PTL DEF SecuritySpec

-----------------------------------------------------------------------------
(* ConnectionGuard *)

Visitor == [at : {"validated", "open"}, ip : Address, node : Account]

GuardTables ==
    /\ active \in [Address -> Nat]
    /\ callers \in [Caller -> Visitor \cup {G!Idle}]
    /\ node_keys \in [Account -> SUBSET SigningKey]
    /\ claims \in [Account -> SUBSET SigningKey]
    /\ forked \subseteq Account
    /\ switched \in BOOLEAN /\ enabled \in BOOLEAN

Counted ==
    ~switched => enabled /\ \A ip \in Address : active[ip] = Cardinality(G!Open(ip))

\* A key a node came with is recorded, or the node is marked and two keys are
\* known of it.
ForksKnown ==
    \A n \in Account :
        /\ node_keys[n] = {} => claims[n] = {}
        /\ claims[n] \subseteq node_keys[n] \/ n \in forked
        /\ n \in forked => claims[n] # {} /\ \E a, b \in node_keys[n] \cup claims[n] : a # b

GuardInv == GuardTables /\ Counted /\ ForksKnown

LEMMA TwoElements ==
    ASSUME NEW S, IsFiniteSet(S), NEW a \in S, NEW b \in S, a # b
    PROVE  Cardinality(S) > 1
<1>1. PICK A1 : A1 = {a}
  OBVIOUS
<1>2. IsFiniteSet(A1) /\ Cardinality(A1) = 1 /\ b \notin A1
  <2>1. IsFiniteSet({a}) /\ Cardinality({a}) = 1
    BY FS_Singleton, Zenon
  <2> QED BY <1>1, <2>1
<1>3. Cardinality(A1 \cup {b}) = 2
  <2>1. Cardinality(A1 \cup {b}) = IF b \in A1 THEN Cardinality(A1) ELSE Cardinality(A1) + 1
    BY <1>2, FS_AddElement, Zenon
  <2> QED BY <1>2, <2>1
<1>4. (A1 \cup {b}) \subseteq S
  BY <1>1
<1>5. Cardinality(A1 \cup {b}) <= Cardinality(S) /\ Cardinality(S) \in Nat
  BY <1>4, FS_Subset, FS_CardinalityType
<1> QED BY <1>3, <1>5

LEMMA GuardInitially == G!Init => GuardInv
<1> SUFFICES ASSUME G!Init PROVE GuardInv OBVIOUS
<1>1. GuardTables /\ ForksKnown
  BY DEF G!Init, GuardTables, ForksKnown
<1>2. \A ip \in Address : G!Open(ip) = {}
  BY DEF G!Init, G!Open, G!Idle
<1>3. Counted
  BY <1>2, FS_EmptySet DEF G!Init, Counted
<1> QED BY <1>1, <1>3 DEF GuardInv

LEMMA OpenFinite ==
    ASSUME NEW ip
    PROVE  IsFiniteSet(G!Open(ip)) /\ Cardinality(G!Open(ip)) \in Nat
<1>1. G!Open(ip) \in SUBSET Caller
  BY DEF G!Open
<1> QED BY <1>1, GuardAssumption, FS_Subset, FS_CardinalityType

\* Where no connection opens or closes, the counts stay true.
LEMMA SameOpen ==
    ASSUME GuardInv, UNCHANGED <<active, enabled, switched>>,
           \A c \in Caller : callers'[c] = callers[c] \/ (callers[c].at # "open" /\ callers'[c].at # "open")
    PROVE  Counted'
<1>1. \A ip : G!Open(ip)' = G!Open(ip)
  BY DEF G!Open
<1> QED BY <1>1 DEF GuardInv, Counted

LEMMA GuardStep == GuardInv /\ G!Next => GuardInv'
<1> SUFFICES ASSUME GuardInv, G!Next PROVE GuardInv' OBVIOUS
<1>1. ASSUME NEW c \in Caller, NEW ip \in Address, NEW n \in Account,
             G!validate_incoming_connection(c, ip, n)
      PROVE  GuardInv'
  <2>1. /\ callers[c] = G!Idle
        /\ callers' = [callers EXCEPT ![c] = IF (enabled => G!allow_connection(ip)) /\ n \notin forked
                                             THEN G!At("validated", ip, n) ELSE G!Idle]
        /\ UNCHANGED <<active, node_keys, forked, enabled, switched, claims>>
    BY <1>1 DEF G!validate_incoming_connection
  <2>2. G!At("validated", ip, n) \in Visitor /\ G!At("validated", ip, n).at # "open" /\ G!Idle.at # "open"
    BY DEF G!At, Visitor, G!Idle
  <2>3. /\ callers'[c] \in {G!At("validated", ip, n), G!Idle}
        /\ \A d \in Caller \ {c} : callers'[d] = callers[d]
        /\ DOMAIN callers' = Caller /\ callers' = [d \in Caller |-> callers'[d]]
    BY <2>1 DEF GuardInv, GuardTables
  <2>4. GuardTables'
    BY <2>1, <2>2, <2>3 DEF GuardInv, GuardTables
  <2>5. \A d \in Caller : callers'[d] = callers[d] \/ (callers[d].at # "open" /\ callers'[d].at # "open")
    BY <2>1, <2>2, <2>3
  <2>6. Counted'
    BY <2>1, <2>5, SameOpen
  <2> QED BY <2>1, <2>4, <2>6 DEF GuardInv, ForksKnown
<1>2. ASSUME NEW c \in Caller, G!on_connection_established(c) PROVE GuardInv'
  <2>1. /\ callers[c].at = "validated"
        /\ active' = IF enabled THEN [active EXCEPT ![callers[c].ip] = @ + 1] ELSE active
        /\ callers' = [callers EXCEPT ![c] = [@ EXCEPT !.at = "open"]]
        /\ UNCHANGED <<node_keys, forked, enabled, switched, claims>>
    BY <1>2 DEF G!on_connection_established
  <2>2. callers[c] \in Visitor
    BY <2>1 DEF GuardInv, GuardTables, G!Idle
  <2>3. PICK i \in Address : i = callers[c].ip
    BY <2>2 DEF Visitor
  <2>4. [callers[c] EXCEPT !.at = "open"] \in Visitor /\ [callers[c] EXCEPT !.at = "open"].at = "open"
        /\ [callers[c] EXCEPT !.at = "open"].ip = i
    BY <2>2, <2>3 DEF Visitor
  <2>5. /\ callers'[c] \in Visitor /\ callers'[c].at = "open" /\ callers'[c].ip = i
        /\ \A d \in Caller \ {c} : callers'[d] = callers[d]
        /\ callers' = [d \in Caller |-> callers'[d]]
    BY <2>1, <2>4 DEF GuardInv, GuardTables
  <2>6. GuardTables'
    BY <2>1, <2>3, <2>5 DEF GuardInv, GuardTables
  <2>7. /\ G!Open(i)' = G!Open(i) \cup {c} /\ c \notin G!Open(i)
        /\ \A j \in Address \ {i} : G!Open(j)' = G!Open(j)
    BY <2>1, <2>3, <2>5 DEF G!Open
  <2>8. Cardinality(G!Open(i)') = Cardinality(G!Open(i)) + 1
    BY <2>7, OpenFinite, FS_AddElement
  <2>9. Counted'
    <3> SUFFICES ASSUME ~switched
                 PROVE  enabled /\ \A j \in Address : active'[j] = Cardinality(G!Open(j)')
      BY <2>1 DEF Counted
    <3>1. enabled /\ \A j \in Address : active[j] = Cardinality(G!Open(j))
      BY DEF GuardInv, Counted
    <3>2. active' = [active EXCEPT ![i] = @ + 1]
      BY <2>1, <2>3, <3>1
    <3> QED BY <2>7, <2>8, <3>1, <3>2 DEF GuardInv, GuardTables
  <2> QED BY <2>1, <2>6, <2>9 DEF GuardInv, ForksKnown
<1>3. ASSUME NEW c \in Caller, G!on_connection_closed(c) PROVE GuardInv'
  <2>1. /\ callers[c].at = "open"
        /\ active' = IF enabled /\ active[callers[c].ip] > 0
                     THEN [active EXCEPT ![callers[c].ip] = @ - 1] ELSE active
        /\ callers' = [callers EXCEPT ![c] = G!Idle]
        /\ UNCHANGED <<node_keys, forked, enabled, switched, claims>>
    BY <1>3 DEF G!on_connection_closed
  <2>2. callers[c] \in Visitor /\ G!Idle.at # "open"
    BY <2>1 DEF GuardInv, GuardTables, G!Idle
  <2>3. PICK i \in Address : i = callers[c].ip
    BY <2>2 DEF Visitor
  <2>5. /\ callers'[c] = G!Idle
        /\ \A d \in Caller \ {c} : callers'[d] = callers[d]
        /\ callers' = [d \in Caller |-> callers'[d]]
    BY <2>1 DEF GuardInv, GuardTables
  <2>4. active' = IF enabled /\ active[i] > 0 THEN [active EXCEPT ![i] = @ - 1] ELSE active
    BY <2>1, <2>3
  <2>6. GuardTables'
    BY <2>1, <2>3, <2>4, <2>5 DEF GuardInv, GuardTables
  <2>7. /\ G!Open(i)' = G!Open(i) \ {c} /\ c \in G!Open(i)
        /\ \A j \in Address \ {i} : G!Open(j)' = G!Open(j)
    BY <2>1, <2>2, <2>3, <2>5 DEF G!Open
  <2>8. Cardinality(G!Open(i)') = Cardinality(G!Open(i)) - 1 /\ Cardinality(G!Open(i)') \in Nat
    <3>1. IsFiniteSet(G!Open(i)')
      BY <2>7, OpenFinite, FS_RemoveElement
    <3> QED BY <2>7, <3>1, OpenFinite, FS_RemoveElement, FS_CardinalityType
  <2>9. Counted'
    <3> SUFFICES ASSUME ~switched
                 PROVE  enabled /\ \A j \in Address : active'[j] = Cardinality(G!Open(j)')
      BY <2>1 DEF Counted
    <3>1. enabled /\ \A j \in Address : active[j] = Cardinality(G!Open(j))
      BY DEF GuardInv, Counted
    <3>2. active[i] > 0
      BY <2>8, <3>1, OpenFinite
    <3>3. active' = [active EXCEPT ![i] = @ - 1]
      BY <2>4, <3>1, <3>2
    <3> QED BY <2>7, <2>8, <3>1, <3>3 DEF GuardInv, GuardTables
  <2> QED BY <2>1, <2>6, <2>9 DEF GuardInv, ForksKnown
<1>4. ASSUME NEW n \in Account, NEW key \in SigningKey, G!detect_fork(n, key) PROVE GuardInv'
  <2>1. /\ claims' = [claims EXCEPT ![n] = @ \cup {key}]
        /\ node_keys' = IF node_keys[n] = {} THEN [node_keys EXCEPT ![n] = {key}] ELSE node_keys
        /\ forked' = IF node_keys[n] # {} /\ key \notin node_keys[n] THEN forked \cup {n} ELSE forked
        /\ UNCHANGED <<active, enabled, callers, switched>>
    BY <1>4 DEF G!detect_fork
  <2>2. GuardTables'
    BY <2>1 DEF GuardInv, GuardTables
  <2>3. Counted'
    BY <2>1, SameOpen
  <2>4. ForksKnown'
    <3> SUFFICES ASSUME NEW m \in Account
                 PROVE  /\ node_keys'[m] = {} => claims'[m] = {}
                        /\ claims'[m] \subseteq node_keys'[m] \/ m \in forked'
                        /\ m \in forked' =>
                             claims'[m] # {} /\ \E a, b \in node_keys'[m] \cup claims'[m] : a # b
      BY DEF ForksKnown
    <3>0. /\ node_keys[m] = {} => claims[m] = {}
          /\ claims[m] \subseteq node_keys[m] \/ m \in forked
          /\ m \in forked => claims[m] # {} /\ \E a, b \in node_keys[m] \cup claims[m] : a # b
      BY DEF GuardInv, ForksKnown
    <3>1. CASE m # n
      <4>1. claims'[m] = claims[m] /\ node_keys'[m] = node_keys[m] /\ (m \in forked' <=> m \in forked)
        BY <2>1, <3>1 DEF GuardInv, GuardTables
      <4> QED BY <3>0, <4>1
    <3>2. CASE m = n /\ node_keys[n] = {}
      <4>1. claims'[n] = {key} /\ node_keys'[n] = {key} /\ forked' = forked /\ n \notin forked
        BY <2>1, <3>0, <3>2 DEF GuardInv, GuardTables
      <4> QED BY <3>2, <4>1
    <3>3. CASE m = n /\ node_keys[n] # {} /\ key \in node_keys[n]
      <4>1. claims'[n] = claims[n] \cup {key} /\ node_keys'[n] = node_keys[n] /\ forked' = forked
        BY <2>1, <3>3 DEF GuardInv, GuardTables
      <4> QED BY <3>0, <3>3, <4>1
    <3>4. CASE m = n /\ node_keys[n] # {} /\ key \notin node_keys[n]
      <4>1. claims'[n] = claims[n] \cup {key} /\ node_keys'[n] = node_keys[n] /\ n \in forked'
        BY <2>1, <3>4 DEF GuardInv, GuardTables
      <4>2. PICK old \in node_keys[n] : old # key
        BY <3>4
      <4> QED BY <3>4, <4>1, <4>2
    <3> QED BY <3>1, <3>2, <3>3, <3>4
  <2> QED BY <2>2, <2>3, <2>4 DEF GuardInv
<1>5. ASSUME NEW n \in Account, NEW key \in SigningKey, G!record_node_key(n, key) PROVE GuardInv'
  <2>1. /\ node_keys' = [node_keys EXCEPT ![n] = @ \cup {key}]
        /\ UNCHANGED <<active, enabled, callers, switched, forked, claims>>
    BY <1>5 DEF G!record_node_key
  <2>2. GuardTables'
    BY <2>1 DEF GuardInv, GuardTables
  <2>3. Counted'
    BY <2>1, SameOpen
  <2>4. \A m \in Account : node_keys[m] \subseteq node_keys'[m] /\ (node_keys'[m] = {} => node_keys[m] = {})
    BY <2>1 DEF GuardInv, GuardTables
  <2>5. ForksKnown'
    BY <2>1, <2>4 DEF GuardInv, ForksKnown
  <2> QED BY <2>2, <2>3, <2>5 DEF GuardInv
<1>6. ASSUME NEW on \in BOOLEAN, G!enable_ddos_mitigation(on) PROVE GuardInv'
  BY <1>6 DEF G!enable_ddos_mitigation, GuardInv, GuardTables, Counted, ForksKnown
<1>7. ASSUME G!tick \/ G!Tick PROVE GuardInv'
  <2>1. UNCHANGED <<active, enabled, callers, switched, forked, claims, node_keys>>
    BY <1>7 DEF G!tick, G!Tick
  <2>2. Counted'
    BY <2>1, SameOpen
  <2> QED BY <2>1, <2>2 DEF GuardInv, GuardTables, ForksKnown
<1> QED BY <1>1, <1>2, <1>3, <1>4, <1>5, <1>6, <1>7 DEF G!Next

\* The count of connections of an address is the number of its open ones, and
\* a node is marked as forked only with two keys known of it
\* (ConnectionGuard): for any number of callers, addresses and keys.
THEOREM CountsTrueHolds == SecuritySpec => []CountsTrue
<1> DEFINE I == part = "guard" => GuardInv
<1>1. SecurityInit => I
  BY GuardInitially DEF SecurityInit
<1>2. I /\ [SecurityNext]_all_vars => I'
  <2> SUFFICES ASSUME I, [SecurityNext]_all_vars PROVE I' OBVIOUS
  <2>1. CASE part = "guard" /\ G!Next /\ part' = part
    BY <2>1, GuardStep
  <2>2. CASE part' = part /\ UNCHANGED G_vars
    BY <2>2 DEF G_vars, GuardInv, GuardTables, Counted, ForksKnown, G!Open
  <2> QED BY <2>1, <2>2 DEF SecurityNext, all_vars
<1>3. I => CountsTrue
  <2> SUFFICES ASSUME GuardInv PROVE G!CountsTrue
    BY DEF CountsTrue
  <2>1. ~switched => \A ip \in Address : active[ip] = G!Cardinality(G!Open(ip))
    BY DEF GuardInv, Counted, G!Cardinality, Cardinality
  <2>2. ASSUME NEW n \in forked
        PROVE  claims[n] # {} /\ G!Cardinality(node_keys[n] \cup claims[n]) > 1
    <3> DEFINE U == node_keys[n] \cup claims[n]
    <3>1. n \in Account /\ U \in SUBSET SigningKey
      BY DEF GuardInv, GuardTables
    <3>2. PICK a \in U, b \in U : a # b
      BY <3>1 DEF GuardInv, ForksKnown
    <3>3. IsFiniteSet(U)
      BY <3>1, GuardAssumption, FS_Subset
    <3>5. Cardinality(U) > 1
      BY <3>2, <3>3, TwoElements
    <3> HIDE DEF U
    <3>6. G!Cardinality(U) > 1
      BY <3>5 DEF G!Cardinality, Cardinality
    <3> QED BY <3>1, <3>6 DEF U, GuardInv, ForksKnown
  <2>3. ASSUME NEW n \in Account
        PROVE  claims[n] \subseteq {key \in SigningKey : G!verify_signature_consistency(n, key)}
               \/ n \in forked
    BY DEF GuardInv, GuardTables, ForksKnown, G!verify_signature_consistency
  <2> QED BY <2>1, <2>2, <2>3 DEF G!CountsTrue
<1> QED BY <1>1, <1>2, <1>3, PTL DEF SecuritySpec

-----------------------------------------------------------------------------
(* Access *)

\* Only these two policies are ever changed, and neither is for a right inside
\* a network.
PoliciesKnown ==
    /\ DOMAIN policies \subseteq {"HOST_THINGS", "POST_CONTENT"}
    /\ "HOST_THINGS" \in DOMAIN policies => policies["HOST_THINGS"] = A!Free
    /\ "POST_CONTENT" \in DOMAIN policies =>
          policies["POST_CONTENT"] = [A!Free EXCEPT !.requires_pow = TRUE]

AccessTables ==
    /\ balances \in [Account -> [KeyType -> Nat]]
    /\ reputation \in [Account -> Int]

TokensNamed ==
    \A t \in tokens : /\ t.capability \in A!Capability
                      /\ A!default_policies[t.capability].membership => t.network # NoNetwork

AccessInv == PoliciesKnown /\ AccessTables /\ TokensNamed

\* The policies no caller changes.
LEMMA DefaultPolicies ==
    ASSUME PoliciesKnown
    PROVE  /\ A!policy("ROUTE_TRAFFIC") = A!Policy("ROUTING", 1, 0, FALSE, "ANY")
           /\ A!policy("CREATE_NETWORK") = A!Policy("NETWORK", 3, 50, FALSE, "ANY")
           /\ A!policy("VOUCH_FOR_NODES") = A!Policy("ANY", 1, 100, FALSE, "ANY")
           /\ A!policy("JOIN_NETWORKS") = A!Policy("NETWORK", 1, 0, FALSE, "ANY")
           /\ A!policy("ISSUE_INVITATIONS") = A!Policy("NETWORK", 1, 0, TRUE, "ANY")
           /\ A!policy("MODERATE_CONTENT") = A!Policy("ANY", 0, 75, TRUE, "FULL")
           /\ A!policy("REVOKE_KEYS") = A!Policy("ANY", 0, 0, TRUE, "FOUNDER")
           /\ A!policy("DISBAND_NETWORK") = A!Policy("ANY", 0, 0, TRUE, "FOUNDER")
BY DEF PoliciesKnown, A!policy, A!default_policies

LEMMA ChangedPolicies ==
    ASSUME PoliciesKnown
    PROVE  /\ A!policy("HOST_THINGS") \in {A!Free, A!Policy("SERVICE", 1, 0, FALSE, "ANY")}
           /\ A!policy("POST_CONTENT") \in {[A!Free EXCEPT !.requires_pow = TRUE],
                                            A!Policy("ANY", 1, 0, FALSE, "ANY")}
BY DEF PoliciesKnown, A!policy, A!default_policies

\* Rights inside a network keep their policies.
LEMMA MembershipPolicies ==
    ASSUME PoliciesKnown, NEW c \in A!Capability, A!default_policies[c].membership
    PROVE  A!policy(c) = A!default_policies[c]
<1>1. /\ A!default_policies["HOST_THINGS"] = A!Policy("SERVICE", 1, 0, FALSE, "ANY")
      /\ A!default_policies["POST_CONTENT"] = A!Policy("ANY", 1, 0, FALSE, "ANY")
  BY DEF A!default_policies
<1>2. ~A!default_policies["HOST_THINGS"].membership /\ ~A!default_policies["POST_CONTENT"].membership
  BY <1>1 DEF A!Policy
<1>3. c # "HOST_THINGS" /\ c # "POST_CONTENT"
  BY <1>2
<1> QED BY <1>3 DEF PoliciesKnown, A!policy

LEMMA AccessInitially == A!Init => AccessInv
BY DEF A!Init, AccessInv, PoliciesKnown, AccessTables, TokensNamed

LEMMA AccessStep == AccessInv /\ A!Next => AccessInv'
<1> SUFFICES ASSUME AccessInv, A!Next PROVE AccessInv' OBVIOUS
<1>1. ASSUME NEW n \in Account, NEW c \in A!Capability, NEW net \in Network \cup {NoNetwork},
             A!issue_token(n, c, net)
      PROVE  AccessInv'
  <2>1. PICK t : t = [node |-> n, capability |-> c, network |-> net, expires_at |-> access_now + AccessTokenLife]
    OBVIOUS
  <2>2. /\ tokens' = tokens \cup {t} /\ A!check_access(n, c, net, FALSE)
        /\ UNCHANGED <<policies, balances, reputation>>
    BY <1>1, <2>1 DEF A!issue_token
  <2>3. t.capability = c /\ t.network = net
    BY <2>1
  <2>4. A!default_policies[c].membership => net # NoNetwork
    <3> SUFFICES ASSUME A!default_policies[c].membership PROVE net # NoNetwork OBVIOUS
    <3>1. A!policy(c) = A!default_policies[c]
      BY MembershipPolicies DEF AccessInv
    <3> QED BY <2>2, <3>1 DEF A!check_access
  <2>5. TokensNamed'
    BY <2>2, <2>3, <2>4 DEF AccessInv, TokensNamed
  <2> QED BY <2>2, <2>5 DEF AccessInv, PoliciesKnown, AccessTables
<1>2. ASSUME NEW n \in Account, A!LedgerChanges(n) PROVE AccessInv'
  <2>1. UNCHANGED <<policies, tokens>>
    BY <1>2 DEF A!LedgerChanges
  <2>2. balances' = balances \/ \E t \in KeyType, b \in Balance : balances' = [balances EXCEPT ![n][t] = b]
    BY <1>2 DEF A!LedgerChanges
  <2>3. reputation' = reputation \/ \E x \in Score : reputation' = [reputation EXCEPT ![n] = x]
    BY <1>2 DEF A!LedgerChanges
  <2>4. AccessTables'
    <3>1. balances \in [Account -> [KeyType -> Nat]] /\ reputation \in [Account -> Int]
      BY DEF AccessInv, AccessTables
    <3>2. ASSUME NEW t \in KeyType, NEW b \in Balance, balances' = [balances EXCEPT ![n][t] = b]
          PROVE  balances' \in [Account -> [KeyType -> Nat]]
      <4>1. b \in Nat
        BY AccessAssumption
      <4>2. [balances[n] EXCEPT ![t] = b] \in [KeyType -> Nat]
        BY <3>1, <4>1
      <4> QED BY <3>1, <3>2, <4>2
    <3>3. ASSUME NEW x \in Score, reputation' = [reputation EXCEPT ![n] = x]
          PROVE  reputation' \in [Account -> Int]
      <4>1. x \in Int
        BY AccessAssumption
      <4> QED BY <3>1, <3>3, <4>1
    <3> QED BY <2>2, <2>3, <3>1, <3>2, <3>3 DEF AccessTables
  <2> QED BY <2>1, <2>4 DEF AccessInv, PoliciesKnown, TokensNamed
<1>3. ASSUME NEW c, NEW p, A!set_policy(c, p),
             \/ c = "HOST_THINGS" /\ p = A!Free
             \/ c = "POST_CONTENT" /\ p = [A!Free EXCEPT !.requires_pow = TRUE]
      PROVE  AccessInv'
  <2>1. /\ policies' = [d \in DOMAIN policies \cup {c} |-> IF d = c THEN p ELSE policies[d]]
        /\ UNCHANGED <<balances, reputation, tokens>>
    BY <1>3 DEF A!set_policy
  <2>2. PoliciesKnown'
    BY <1>3, <2>1 DEF AccessInv, PoliciesKnown
  <2> QED BY <2>1, <2>2 DEF AccessInv, AccessTables, TokensNamed
<1>4. ASSUME A!Tick PROVE AccessInv'
  BY <1>4 DEF A!Tick, AccessInv, PoliciesKnown, AccessTables, TokensNamed
<1>5. ASSUME A!set_policy("HOST_THINGS", A!Free) PROVE AccessInv'
  BY <1>3, <1>5
<1>6. ASSUME A!set_policy("POST_CONTENT", [A!Free EXCEPT !.requires_pow = TRUE]) PROVE AccessInv'
  BY <1>3, <1>6
<1> QED BY <1>1, <1>2, <1>4, <1>5, <1>6 DEF A!Next

\* What a policy without a network asks of a node.
LEMMA OpenGate ==
    ASSUME NEW n, NEW c, NEW net, NEW type, NEW count, NEW score,
           A!policy(c) = A!Policy(type, count, score, FALSE, "ANY")
    PROVE  A!check_access(n, c, net, FALSE) <=>
             /\ n \in access_active
             /\ \/ count = 0
                \/ type \in KeyType /\ balances[n][type] >= count
                \/ type \notin KeyType /\ A!has_any_keys(n)
             /\ score = 0 \/ reputation[n] >= score
<1>1. PICK p : p = A!policy(c)
  OBVIOUS
<1>2. /\ p.key_type = type /\ p.key_count = count /\ p.min_reputation = score
      /\ p.membership = FALSE /\ p.requires_pow = FALSE
  BY <1>1 DEF A!Policy
<1>3. A!check_access(n, c, net, FALSE) <=>
        n \in access_active /\ A!check_key_requirements(n, p) /\ A!check_reputation_requirements(n, p)
  BY <1>1, <1>2 DEF A!check_access
<1> QED BY <1>2, <1>3 DEF A!check_key_requirements, A!check_reputation_requirements

LEMMA OpenGatesAgree ==
    ASSUME AccessInv, NEW n \in Account, NEW net \in Network \cup {NoNetwork}
    PROVE  /\ A!policy("POST_CONTENT").requires_pow => ~A!check_access(n, "POST_CONTENT", net, FALSE)
           /\ A!check_access(n, "POST_CONTENT", net, FALSE) => A!can_post_content(n)
           /\ A!policy("HOST_THINGS") # A!Free =>
                 A!check_access(n, "HOST_THINGS", net, FALSE) = A!can_host_things(n)
           /\ A!check_access(n, "ROUTE_TRAFFIC", net, FALSE) = A!can_route_traffic(n)
           /\ A!check_access(n, "CREATE_NETWORK", net, FALSE) => A!can_create_network(n)
           /\ A!check_access(n, "VOUCH_FOR_NODES", net, FALSE) => A!can_vouch_for_node(n, n)
           /\ A!get_access_level(n) \in {"KEYED", "TRUSTED"} =>
                 A!policy("POST_CONTENT").requires_pow \/ A!check_access(n, "POST_CONTENT", net, FALSE)
           /\ A!get_access_level(n) = "TRUSTED" => A!check_access(n, "VOUCH_FOR_NODES", net, FALSE)
<1>0. PoliciesKnown
  BY DEF AccessInv
<1>t. /\ "SERVICE" \in KeyType /\ "ROUTING" \in KeyType /\ "ANY" \notin KeyType
      /\ ~(1 = 0) /\ ~(100 = 0)
  BY AccessAssumption
<1>1. /\ A!check_access(n, "POST_CONTENT", net, FALSE) => A!can_post_content(n)
      /\ A!policy("POST_CONTENT").requires_pow => ~A!check_access(n, "POST_CONTENT", net, FALSE)
      /\ (~A!policy("POST_CONTENT").requires_pow /\ n \in access_active /\ A!has_any_keys(n)) =>
            A!check_access(n, "POST_CONTENT", net, FALSE)
  <2>1. CASE A!policy("POST_CONTENT") = [A!Free EXCEPT !.requires_pow = TRUE]
    <3>1. A!policy("POST_CONTENT").requires_pow
      BY <2>1 DEF A!Free, A!Policy
    <3> QED BY <3>1 DEF A!check_access
  <2>2. CASE A!policy("POST_CONTENT") = A!Policy("ANY", 1, 0, FALSE, "ANY")
    <3>1. ~A!policy("POST_CONTENT").requires_pow
      BY <2>2 DEF A!Policy
    <3>2. A!check_access(n, "POST_CONTENT", net, FALSE) <=>
            /\ n \in access_active
            /\ \/ 1 = 0
               \/ "ANY" \in KeyType /\ balances[n]["ANY"] >= 1
               \/ "ANY" \notin KeyType /\ A!has_any_keys(n)
            /\ 0 = 0 \/ reputation[n] >= 0
      BY <2>2, OpenGate, Zenon
    <3> QED BY <1>t, <3>1, <3>2, Zenon DEF A!can_post_content
  <2> QED BY <1>0, <2>1, <2>2, ChangedPolicies
<1>2. A!policy("HOST_THINGS") # A!Free =>
         (A!check_access(n, "HOST_THINGS", net, FALSE) <=> A!can_host_things(n))
  <2> SUFFICES ASSUME A!policy("HOST_THINGS") # A!Free
               PROVE  A!check_access(n, "HOST_THINGS", net, FALSE) <=> A!can_host_things(n)
    OBVIOUS
  <2>1. A!policy("HOST_THINGS") = A!Policy("SERVICE", 1, 0, FALSE, "ANY")
    BY <1>0, ChangedPolicies
  <2>2. A!check_access(n, "HOST_THINGS", net, FALSE) <=>
          /\ n \in access_active
          /\ \/ 1 = 0
             \/ "SERVICE" \in KeyType /\ balances[n]["SERVICE"] >= 1
             \/ "SERVICE" \notin KeyType /\ A!has_any_keys(n)
          /\ 0 = 0 \/ reputation[n] >= 0
    BY <2>1, OpenGate, Zenon
  <2> QED BY <1>t, <2>2, Zenon DEF A!can_host_things, A!HasKey
<1>3. A!check_access(n, "ROUTE_TRAFFIC", net, FALSE) <=> A!can_route_traffic(n)
  <2>1. A!policy("ROUTE_TRAFFIC") = A!Policy("ROUTING", 1, 0, FALSE, "ANY")
    BY <1>0, DefaultPolicies
  <2>2. A!check_access(n, "ROUTE_TRAFFIC", net, FALSE) <=>
          /\ n \in access_active
          /\ \/ 1 = 0
             \/ "ROUTING" \in KeyType /\ balances[n]["ROUTING"] >= 1
             \/ "ROUTING" \notin KeyType /\ A!has_any_keys(n)
          /\ 0 = 0 \/ reputation[n] >= 0
    BY <2>1, OpenGate, Zenon
  <2> QED BY <1>t, <2>2, Zenon DEF A!can_route_traffic, A!HasKey
<1>4. A!check_access(n, "CREATE_NETWORK", net, FALSE) => A!can_create_network(n)
  BY DEF A!check_access, A!can_create_network
<1>5. A!check_access(n, "VOUCH_FOR_NODES", net, FALSE) <=>
        n \in access_active /\ A!has_any_keys(n) /\ reputation[n] >= 100
  <2>1. PICK hundred : hundred = 100
    OBVIOUS
  <2>2. A!policy("VOUCH_FOR_NODES") = A!Policy("ANY", 1, hundred, FALSE, "ANY")
    BY <1>0, <2>1, DefaultPolicies
  <2>3. A!check_access(n, "VOUCH_FOR_NODES", net, FALSE) <=>
          /\ n \in access_active
          /\ \/ 1 = 0
             \/ "ANY" \in KeyType /\ balances[n]["ANY"] >= 1
             \/ "ANY" \notin KeyType /\ A!has_any_keys(n)
          /\ hundred = 0 \/ reputation[n] >= hundred
    BY <2>2, OpenGate, Zenon
  <2>4. ~(hundred = 0)
    BY <2>1
  <2>5. A!check_access(n, "VOUCH_FOR_NODES", net, FALSE) <=>
          n \in access_active /\ A!has_any_keys(n) /\ reputation[n] >= hundred
    BY <1>t, <2>3, <2>4, Zenon
  <2> QED BY <2>1, <2>5
<1>6. A!check_access(n, "VOUCH_FOR_NODES", net, FALSE) => A!can_vouch_for_node(n, n)
  BY <1>5 DEF A!can_vouch_for_node
<1>7. /\ A!get_access_level(n) \in {"KEYED", "TRUSTED"} => n \in access_active /\ A!has_any_keys(n)
      /\ A!get_access_level(n) = "TRUSTED" => reputation[n] >= 100
  BY DEF A!get_access_level
<1>8. A!check_access(n, "HOST_THINGS", net, FALSE) \in BOOLEAN /\ A!can_host_things(n) \in BOOLEAN
      /\ A!check_access(n, "ROUTE_TRAFFIC", net, FALSE) \in BOOLEAN /\ A!can_route_traffic(n) \in BOOLEAN
  BY DEF A!check_access, A!can_host_things, A!can_route_traffic, A!HasKey
<1> QED BY <1>1, <1>2, <1>3, <1>4, <1>5, <1>6, <1>7, <1>8

LEMMA NetworkGatesAgree ==
    ASSUME AccessInv, NEW n \in Account, NEW net \in Network
    PROVE  /\ A!can_join_network(n, net) => A!check_access(n, "JOIN_NETWORKS", net, FALSE)
           /\ A!check_access(n, "ISSUE_INVITATIONS", net, FALSE) => A!can_issue_invitation(n, net)
           /\ A!check_access(n, "MODERATE_CONTENT", net, FALSE) => A!can_moderate_content(n, net)
           /\ A!check_access(n, "REVOKE_KEYS", net, FALSE) => A!can_revoke_keys(n, net)
           /\ A!check_access(n, "DISBAND_NETWORK", net, FALSE) =>
                A!can_disband_network(n, net) /\ A!get_access_level_in_network(n, net) = "FOUNDER"
<1>0. PoliciesKnown
  BY DEF AccessInv
<1>t. "NETWORK" \in KeyType /\ ~(1 = 0)
  BY AccessAssumption
<1>1. A!can_join_network(n, net) => A!check_access(n, "JOIN_NETWORKS", net, FALSE)
  <2>1. A!policy("JOIN_NETWORKS") = A!Policy("NETWORK", 1, 0, FALSE, "ANY")
    BY <1>0, DefaultPolicies
  <2>2. A!check_access(n, "JOIN_NETWORKS", net, FALSE) <=>
          /\ n \in access_active
          /\ \/ 1 = 0
             \/ "NETWORK" \in KeyType /\ balances[n]["NETWORK"] >= 1
             \/ "NETWORK" \notin KeyType /\ A!has_any_keys(n)
          /\ 0 = 0 \/ reputation[n] >= 0
    BY <2>1, OpenGate, Zenon
  <2> QED BY <1>t, <2>2, Zenon DEF A!can_join_network, A!HasKey
<1>2. A!check_access(n, "ISSUE_INVITATIONS", net, FALSE) => A!can_issue_invitation(n, net)
  <2>1. A!policy("ISSUE_INVITATIONS").membership
    BY <1>0, DefaultPolicies DEF A!Policy
  <2> QED BY <2>1 DEF A!check_access, A!can_issue_invitation
<1>3. A!check_access(n, "MODERATE_CONTENT", net, FALSE) => A!can_moderate_content(n, net)
  <2>1. A!policy("MODERATE_CONTENT").membership
    BY <1>0, DefaultPolicies DEF A!Policy
  <2> QED BY <2>1 DEF A!check_access, A!can_moderate_content
<1>4. ASSUME NEW c \in {"REVOKE_KEYS", "DISBAND_NETWORK"}, A!check_access(n, c, net, FALSE)
      PROVE  A!is_network_founder(n, net)
  <2>1. A!policy(c) = A!Policy("ANY", 0, 0, TRUE, "FOUNDER")
    BY <1>0, DefaultPolicies
  <2>2. A!policy(c).membership /\ A!policy(c).role = "FOUNDER"
    BY <2>1 DEF A!Policy
  <2>3. A!check_network_requirements(n, net, A!policy(c))
    BY <1>4, <2>2 DEF A!check_access
  <2> QED BY <2>2, <2>3 DEF A!check_network_requirements, A!is_network_founder
<1> QED BY <1>1, <1>2, <1>3, <1>4 DEF A!can_revoke_keys, A!can_disband_network, A!get_access_level_in_network

\* The two ways to ask for a right agree (Access): for any nodes, networks, key
\* types, balances and scores.
THEOREM GatesAgreeHolds == SecuritySpec => []GatesAgree
<1> DEFINE I == part = "access" => AccessInv
<1>1. SecurityInit => I
  BY AccessInitially DEF SecurityInit
<1>2. I /\ [SecurityNext]_all_vars => I'
  <2> SUFFICES ASSUME I, [SecurityNext]_all_vars PROVE I' OBVIOUS
  <2>1. CASE part = "access" /\ A!Next /\ part' = part
    BY <2>1, AccessStep
  <2>2. CASE part' = part /\ UNCHANGED A_vars
    BY <2>2 DEF A_vars, AccessInv, PoliciesKnown, AccessTables, TokensNamed
  <2> QED BY <2>1, <2>2 DEF SecurityNext, all_vars
<1>3. I => GatesAgree
  <2> SUFFICES ASSUME AccessInv PROVE A!GatesAgree
    BY DEF GatesAgree
  <2>1. ASSUME NEW c \in A!Capability, A!default_policies[c].membership
        PROVE  A!count_nodes_with_capability(c) = 0
    <3>1. A!policy(c) = A!default_policies[c]
      BY <2>1, MembershipPolicies DEF AccessInv
    <3>2. {n \in Account : A!check_access(n, c, NoNetwork, FALSE)} = {}
      BY <2>1, <3>1 DEF A!check_access
    <3>3. A!Cardinality({}) = 0
      BY FS_EmptySet DEF A!Cardinality, Cardinality
    <3> QED BY <3>2, <3>3 DEF A!count_nodes_with_capability
  <2>2. \A t \in tokens : A!verify_token(t) /\ A!default_policies[t.capability].membership =>
                             t.network # NoNetwork
    BY DEF AccessInv, TokensNamed
  <2> QED BY <2>1, <2>2, OpenGatesAgree, NetworkGatesAgree DEF A!GatesAgree
<1> QED BY <1>1, <1>2, <1>3, PTL DEF SecuritySpec

-----------------------------------------------------------------------------
(* Sessions are channels, for any nodes, limits and clock offsets and for
   messages that are lost, repeated, late or crossed.

   The argument is about key pairs.  A key pair is generated for one peer, and
   is either offered in an init or given in a response, never both: a secret is
   a pair of an offered and a given key, so that the direction of a ciphertext
   tells which of the two belongs to its sender, and one session only ever
   counts the nonces of that key. *)


\* The key is one that n generated for p.
Issued(key, n, p) == \E k \in 1..made[n][p] : key = Key(n, p, k)

Offered(key) == \E m \in wire : m.kind = "init" /\ m.key = key
Given(key) == \E m \in wire : m.kind = "response" /\ m.key = key

Tables ==
    /\ now \in 0..MaxTime
    /\ skew \in [Node -> Skew]
    /\ made \in [Node -> [Node -> 0..MaxKeys]]
    /\ failures \in [Node -> [Node -> 0..MaxAttempts]]
    /\ sessions \in [Node -> [Node -> SessionRecord \cup {None}]]
    /\ \A n \in Node : connections[n] = [p \in Node |-> connections[n][p]] /\ connections[n][n] = None
    /\ connections = [n \in Node |-> connections[n]]

MessageGood(m) ==
    /\ m.from \in Node /\ m.to \in Node /\ m.from # m.to
    /\ Issued(m.key, m.from, m.to)

WireGood ==
    /\ \A m \in wire : MessageGood(m)
    /\ \A m, w \in wire : m.kind = "init" /\ w.kind = "response" => m.key # w.key

SessionGood(n, p, s) ==
    /\ n # p
    /\ s.last_activity <= clock(n)
    /\ Issued(s.key, n, p)
    /\ s.state = "HANDSHAKE_INIT" => s.initiator
    /\ s.state = "HANDSHAKE_RESPONSE" => ~s.initiator
    /\ s.remote = None <=> s.state = "HANDSHAKE_INIT"
    /\ s.remote # None => Issued(s.remote, p, n)
    /\ s.initiator => Offered(s.key) /\ (s.remote # None => Given(s.remote))
    /\ ~s.initiator => /\ ~Offered(s.key) /\ Offered(s.remote)
                       /\ s.state = "ESTABLISHED" => Given(s.key)

SessionsGood == \A n, p \in Node : sessions[n][p] # None => SessionGood(n, p, sessions[n][p])

CiphertextGood(c) ==
    /\ c.from \in Node /\ c.to \in Node /\ c.from # c.to /\ c.nonce \in Nat
    /\ \E own, other :
          /\ Issued(own, c.from, c.to) /\ Issued(other, c.to, c.from)
          /\ \/ c.key = <<{own, other}, 1>> /\ Offered(own) /\ Given(other)
             \/ c.key = <<{own, other}, 2>> /\ Given(own) /\ Offered(other)

SentGood == \A c \in sent : CiphertextGood(c)

\* A session has used every nonce its key has been used with.
NoncesBelow ==
    \A n, p \in Node : \A c \in sent :
        sessions[n][p] # None /\ c.from = n /\ c.to = p /\ sessions[n][p].key \in c.key[1] =>
            c.nonce < sessions[n][p].nonce_counter

SessionsInv == Tables /\ WireGood /\ SessionsGood /\ SentGood /\ NoncesBelow /\ NonceNeverReused

-----------------------------------------------------------------------------
(* Keys *)

LEMMA KeysDistinct ==
    ASSUME NEW n, NEW p, NEW k, NEW m, NEW q, NEW j
    PROVE  Key(n, p, k) = Key(m, q, j) <=> n = m /\ p = q /\ k = j
BY DEF Key

\* A node's next key is nobody's yet.
LEMMA NextKeyFresh ==
    ASSUME Tables, NEW n \in Node, NEW p \in Node, NEW m \in Node, NEW q \in Node, NEW key,
           Issued(key, m, q)
    PROVE  key # Key(n, p, made[n][p] + 1)
<1>1. PICK k \in 1..made[m][q] : key = Key(m, q, k)
  BY DEF Issued
<1>2. made[m][q] \in Nat /\ made[n][p] \in Nat
  BY SessionAssumption DEF Tables
<1> SUFFICES ASSUME key = Key(n, p, made[n][p] + 1) PROVE FALSE
  OBVIOUS
<1>3. m = n /\ q = p /\ k = made[n][p] + 1
  BY <1>1, KeysDistinct
<1> QED BY <1>1, <1>2, <1>3

\* The secret of a ciphertext has one key of its sender and one of its receiver.
LEMMA SenderKey ==
    ASSUME NEW c, CiphertextGood(c), WireGood, NEW n \in Node, NEW p \in Node, NEW s, SessionGood(n, p, s),
           s.state = "ESTABLISHED", s.initiator \in BOOLEAN
    PROVE  /\ derive_session_keys(s).rx = c.key => c.from = p /\ c.to = n
           /\ derive_session_keys(s).tx = c.key => c.from = n /\ c.to = p /\ s.key \in c.key[1]
<1>1. PICK own, other :
          /\ Issued(own, c.from, c.to) /\ Issued(other, c.to, c.from)
          /\ \/ c.key = <<{own, other}, 1>> /\ Offered(own) /\ Given(other)
             \/ c.key = <<{own, other}, 2>> /\ Given(own) /\ Offered(other)
  BY DEF CiphertextGood
<1>2. \A key : ~(Offered(key) /\ Given(key))
  BY DEF Offered, Given, WireGood
<1>3. PICK k : own = Key(c.from, c.to, k)
  BY <1>1 DEF Issued
<1>4. PICK j : s.key = Key(n, p, j)
  BY DEF SessionGood, Issued
<1>5. s.remote # None
  BY DEF SessionGood
<1>6. PICK i : s.remote = Key(p, n, i)
  BY <1>5 DEF SessionGood, Issued
<1>7. CASE s.initiator
  <2>1. derive_session_keys(s) = [tx |-> <<{s.key, s.remote}, 1>>, rx |-> <<{s.key, s.remote}, 2>>]
    BY <1>7 DEF derive_session_keys
  <2>2. Offered(s.key) /\ Given(s.remote)
    BY <1>5, <1>7 DEF SessionGood
  <2>3. ASSUME c.key = <<{s.key, s.remote}, 2>> PROVE c.from = p /\ c.to = n
    <3>1. {own, other} = {s.key, s.remote} /\ Given(own)
      BY <1>1, <2>3
    <3>2. own = s.remote
      BY <1>2, <2>2, <3>1
    <3> QED BY <1>3, <1>6, <3>2 DEF Key
  <2>4. ASSUME c.key = <<{s.key, s.remote}, 1>> PROVE c.from = n /\ c.to = p /\ s.key \in c.key[1]
    <3>1. {own, other} = {s.key, s.remote} /\ Offered(own)
      BY <1>1, <2>4
    <3>2. own = s.key
      BY <1>2, <2>2, <3>1
    <3>3. c.key[1] = {s.key, s.remote}
      BY <2>4
    <3> QED BY <1>3, <1>4, <3>2, <3>3 DEF Key
  <2> QED BY <2>1, <2>3, <2>4
<1>8. CASE ~s.initiator
  <2>1. derive_session_keys(s) = [tx |-> <<{s.key, s.remote}, 2>>, rx |-> <<{s.key, s.remote}, 1>>]
    BY <1>8 DEF derive_session_keys
  <2>2. Given(s.key) /\ Offered(s.remote)
    BY <1>5, <1>8 DEF SessionGood
  <2>3. ASSUME c.key = <<{s.key, s.remote}, 1>> PROVE c.from = p /\ c.to = n
    <3>1. {own, other} = {s.key, s.remote} /\ Offered(own)
      BY <1>1, <2>3
    <3>2. own = s.remote
      BY <1>2, <2>2, <3>1
    <3> QED BY <1>3, <1>6, <3>2 DEF Key
  <2>4. ASSUME c.key = <<{s.key, s.remote}, 2>> PROVE c.from = n /\ c.to = p /\ s.key \in c.key[1]
    <3>1. {own, other} = {s.key, s.remote} /\ Given(own)
      BY <1>1, <2>4
    <3>2. own = s.key
      BY <1>2, <2>2, <3>1
    <3>3. c.key[1] = {s.key, s.remote}
      BY <2>4
    <3> QED BY <1>3, <1>4, <3>2, <3>3 DEF Key
  <2> QED BY <2>1, <2>3, <2>4
<1> QED BY <1>7, <1>8

\* SessionsInv says what the properties ask for.
LEMMA InvGivesChannel == SessionsInv => ChannelSound
<1> SUFFICES ASSUME SessionsInv PROVE ChannelSound OBVIOUS
<1> USE DEF SessionsInv
<1>1. TypeOK
  <2>1. ASSUME NEW n \in Node, NEW p \in Node, sessions[n][p] # None
        PROVE  /\ n # p
               /\ sessions[n][p].state \in {"HANDSHAKE_INIT", "HANDSHAKE_RESPONSE", "ESTABLISHED"}
               /\ \E k \in 1..made[n][p] : sessions[n][p].key = Key(n, p, k)
               /\ sessions[n][p].remote = None <=> sessions[n][p].state = "HANDSHAKE_INIT"
               /\ sessions[n][p].state = "HANDSHAKE_INIT" => sessions[n][p].initiator
               /\ sessions[n][p].last_activity <= clock(n)
    <3>1. sessions[n][p] \in SessionRecord
      BY <2>1 DEF Tables
    <3>2. SessionGood(n, p, sessions[n][p])
      BY <2>1 DEF SessionsGood
    <3> QED BY <3>1, <3>2 DEF SessionGood, SessionRecord, Issued
  <2>2. \A n \in Node : sessions[n][n] = None /\ connections[n][n] = None
    BY <2>1 DEF Tables
  <2> QED BY <2>1, <2>2 DEF TypeOK, Tables
<1>2. OnlyPeersMessages
  <2> SUFFICES ASSUME NEW n \in Node, NEW p \in Node, NEW c \in sent, IsEstablished(n, p),
                      derive_session_keys(sessions[n][p]).rx = c.key
               PROVE  c.from = p /\ c.to = n
    BY DEF OnlyPeersMessages
  <2>1. /\ SessionGood(n, p, sessions[n][p]) /\ sessions[n][p].state = "ESTABLISHED"
        /\ sessions[n][p] \in SessionRecord
    BY DEF IsEstablished, SessionsGood, Tables
  <2>2. sessions[n][p].initiator \in BOOLEAN
    BY <2>1 DEF SessionRecord
  <2> QED BY <2>1, <2>2, SenderKey DEF SentGood
<1> QED BY <1>1, <1>2 DEF ChannelSound

LEMMA SessionsInitially == Init => SessionsInv
<1> SUFFICES ASSUME Init PROVE SessionsInv OBVIOUS
<1> USE SessionAssumption DEF Init
<1>1. Tables
  <2>1. sessions \in [Node -> [Node -> SessionRecord \cup {None}]]
    OBVIOUS
  <2>2. made \in [Node -> [Node -> 0..MaxKeys]] /\ failures \in [Node -> [Node -> 0..MaxAttempts]]
    OBVIOUS
  <2> QED BY <2>1, <2>2 DEF Tables
<1>2. \A n, p \in Node : sessions[n][p] = None
  OBVIOUS
<1> QED BY <1>1, <1>2 DEF SessionsInv, WireGood, SessionsGood, SentGood, NoncesBelow, NonceNeverReused

-----------------------------------------------------------------------------
(* Steps *)

\* Keys are generated and messages sent, and clocks go on.
Grows ==
    /\ \A n, p \in Node : made[n][p] <= made'[n][p]
    /\ wire \subseteq wire'
    /\ \A m \in wire' \ wire : m.kind = "init" => \E n, p \in Node : m.key = Key(n, p, made[n][p] + 1)
    /\ \A n \in Node : clock(n) <= clock(n)'

\* The session of n with p is closed, kept, replaced by one with a new key, or
\* goes on with its key and counter.
Continues(n, p) ==
    \A s, t : s = sessions[n][p] /\ t = sessions'[n][p] /\ t # None /\ t # s =>
        /\ SessionGood(n, p, t)'
        /\ \/ t.key = Key(n, p, made[n][p] + 1)
           \/ s # None /\ t.key = s.key /\ s.nonce_counter <= t.nonce_counter

LEMMA Numbers ==
    ASSUME Tables, NEW n \in Node
    PROVE  /\ clock(n) \in Nat
           /\ \A p \in Node : made[n][p] \in Nat
           /\ \A p \in Node : sessions[n][p] # None => sessions[n][p] \in SessionRecord
BY SessionAssumption DEF Tables, clock

LEMMA IssuedStays ==
    ASSUME Tables, Tables', Grows, NEW n \in Node, NEW p \in Node, NEW key, Issued(key, n, p)
    PROVE  Issued(key, n, p)'
<1>1. made[n][p] \in Nat /\ made'[n][p] \in Nat /\ made[n][p] <= made'[n][p]
  BY SessionAssumption DEF Tables, Grows
<1>2. PICK k \in 1..made[n][p] : key = Key(n, p, k)
  BY DEF Issued
<1>3. k \in 1..made'[n][p]
  BY <1>1, <1>2
<1> QED BY <1>2, <1>3 DEF Issued, Key

\* No key that is already in use is offered anew.
LEMMA OffersStay ==
    ASSUME Tables, Grows, NEW key
    PROVE  /\ Offered(key) => Offered(key)'
           /\ Given(key) => Given(key)'
           /\ \A n, p \in Node : Issued(key, n, p) /\ Offered(key)' => Offered(key)
<1>1. wire \subseteq wire'
  BY DEF Grows
<1>2. ASSUME NEW n \in Node, NEW p \in Node, Issued(key, n, p), Offered(key)' PROVE Offered(key)
  <2>1. PICK m \in wire' : m.kind = "init" /\ m.key = key
    BY <1>2 DEF Offered
  <2>2. CASE m \in wire
    BY <2>1, <2>2 DEF Offered
  <2>3. CASE m \notin wire
    <3>1. PICK a \in Node, b \in Node : m.key = Key(a, b, made[a][b] + 1)
      BY <2>1, <2>3 DEF Grows
    <3> QED BY <1>2, <2>1, <3>1, NextKeyFresh
  <2> QED BY <2>2, <2>3
<1> QED BY <1>1, <1>2 DEF Offered, Given

LEMMA SessionStays ==
    ASSUME Tables, Tables', Grows, NEW n \in Node, NEW p \in Node, NEW s \in SessionRecord, SessionGood(n, p, s)
    PROVE  SessionGood(n, p, s)'
<1>1. Issued(s.key, n, p)' /\ (s.remote # None => Issued(s.remote, p, n)')
  BY IssuedStays DEF SessionGood
<1>2. s.last_activity <= clock(n)'
  <2>1. clock(n) \in Nat /\ clock(n)' \in Nat /\ clock(n) <= clock(n)' /\ s.last_activity \in Nat
    BY SessionAssumption DEF Tables, clock, Grows, SessionRecord
  <2> QED BY <2>1 DEF SessionGood
<1>3. /\ s.initiator => Offered(s.key)' /\ (s.remote # None => Given(s.remote)')
      /\ ~s.initiator => /\ ~Offered(s.key)' /\ Offered(s.remote)'
                         /\ s.state = "ESTABLISHED" => Given(s.key)'
  BY OffersStay DEF SessionGood
<1> QED BY <1>1, <1>2, <1>3 DEF SessionGood

LEMMA CiphertextStays ==
    ASSUME Tables, Tables', Grows, NEW c, CiphertextGood(c)
    PROVE  CiphertextGood(c)'
<1>1. PICK own, other :
          /\ Issued(own, c.from, c.to) /\ Issued(other, c.to, c.from)
          /\ \/ c.key = <<{own, other}, 1>> /\ Offered(own) /\ Given(other)
             \/ c.key = <<{own, other}, 2>> /\ Given(own) /\ Offered(other)
  BY DEF CiphertextGood
<1>2. Issued(own, c.from, c.to)' /\ Issued(other, c.to, c.from)'
  BY <1>1, IssuedStays DEF CiphertextGood
<1>3. /\ Offered(own) => Offered(own)'
      /\ Offered(other) => Offered(other)'
      /\ Given(own) => Given(own)'
      /\ Given(other) => Given(other)'
  BY OffersStay
<1>4. \/ c.key = <<{own, other}, 1>> /\ Offered(own)' /\ Given(other)'
      \/ c.key = <<{own, other}, 2>> /\ Given(own)' /\ Offered(other)'
  BY <1>1, <1>3
<1>5. c.from \in Node /\ c.to \in Node /\ c.from # c.to /\ c.nonce \in Nat
  BY DEF CiphertextGood
<1> QED BY <1>2, <1>4, <1>5, Zenon DEF CiphertextGood

\* The keys of a ciphertext are keys in use.
LEMMA SecretIssued ==
    ASSUME NEW c, CiphertextGood(c), Tables, NEW n \in Node, NEW p \in Node
    PROVE  Key(n, p, made[n][p] + 1) \notin c.key[1]
<1>1. PICK own, other :
          /\ Issued(own, c.from, c.to) /\ Issued(other, c.to, c.from)
          /\ c.key[1] = {own, other}
  BY DEF CiphertextGood
<1>2. c.from \in Node /\ c.to \in Node
  BY DEF CiphertextGood
<1>3. own # Key(n, p, made[n][p] + 1) /\ other # Key(n, p, made[n][p] + 1)
  BY <1>1, <1>2, NextKeyFresh
<1> QED BY <1>1, <1>3

\* A step that sends no ciphertext.
LEMMA SessionsKeep ==
    ASSUME SessionsInv, Tables', Grows, WireGood', sent' = sent, \A n, p \in Node : Continues(n, p)
    PROVE  SessionsInv'
<1> USE DEF SessionsInv
<1>1. SessionsGood'
  <2> SUFFICES ASSUME NEW n \in Node, NEW p \in Node, sessions'[n][p] # None
               PROVE  SessionGood(n, p, sessions[n][p])'
    BY DEF SessionsGood
  <2>1. PICK t : t = sessions'[n][p]
    OBVIOUS
  <2>2. CASE t = sessions[n][p]
    <3>1. SessionGood(n, p, t) /\ t \in SessionRecord
      BY <2>1, <2>2 DEF SessionsGood, Tables
    <3>2. SessionGood(n, p, t)'
      BY <3>1, SessionStays
    <3> QED BY <2>1, <3>2 DEF SessionGood, clock
  <2>3. CASE t # sessions[n][p]
    <3>1. SessionGood(n, p, t)'
      BY <2>1, <2>3 DEF Continues
    <3> QED BY <2>1, <3>1 DEF SessionGood, clock
  <2> QED BY <2>2, <2>3
<1>2. SentGood'
  BY CiphertextStays DEF SentGood
<1>3. NoncesBelow'
  <2> SUFFICES ASSUME NEW n \in Node, NEW p \in Node, NEW c \in sent, sessions'[n][p] # None, c.from = n,
                      c.to = p, sessions'[n][p].key \in c.key[1]
               PROVE  c.nonce < sessions'[n][p].nonce_counter
    BY DEF NoncesBelow
  <2>1. CiphertextGood(c)
    BY DEF SentGood
  <2>2. sessions'[n][p].key # Key(n, p, made[n][p] + 1)
    BY <2>1, SecretIssued
  <2>3. CASE sessions'[n][p] = sessions[n][p]
    BY <2>3 DEF NoncesBelow
  <2>4. CASE sessions'[n][p] # sessions[n][p]
    <3>1. /\ sessions[n][p] # None /\ sessions'[n][p].key = sessions[n][p].key
          /\ sessions[n][p].nonce_counter <= sessions'[n][p].nonce_counter
      BY <2>2, <2>4 DEF Continues
    <3>2. c.nonce < sessions[n][p].nonce_counter
      BY <3>1 DEF NoncesBelow
    <3>3. sessions[n][p] \in SessionRecord /\ sessions'[n][p] \in SessionRecord /\ c.nonce \in Nat
      BY <2>1, <3>1 DEF Tables, CiphertextGood
    <3>4. sessions[n][p].nonce_counter \in Nat /\ sessions'[n][p].nonce_counter \in Nat
      BY <3>3 DEF SessionRecord
    <3> QED BY <3>1, <3>2, <3>3, <3>4
  <2> QED BY <2>3, <2>4
<1> QED BY <1>1, <1>2, <1>3 DEF NonceNeverReused

LEMMA SteadyGrows ==
    ASSUME Tables, UNCHANGED <<made, wire, now, skew>>
    PROVE  Grows
BY Numbers DEF Grows, clock

\* What a step leaves alone keeps its good state.
LEMMA WireStays ==
    ASSUME Tables, Tables', Grows, WireGood, wire' = wire
    PROVE  WireGood'
BY IssuedStays DEF WireGood, MessageGood

\* Several sessions are opened at once.
LEMMA ConnectStep ==
    ASSUME SessionsInv, NEW n \in Node, NEW S \in SUBSET Node, NEW conns,
           conns = [p \in Node |-> conns[p]], conns[n] = None, ConnectAll(n, S, conns)
    PROVE  SessionsInv'
<1> DEFINE tried == {p \in S \ {n} : conns[p] = None /\ should_connect_to_peer(n, p)}
           opened == {p \in tried : sessions[n][p] = None}
           NextKey(p) == Key(n, p, made[n][p] + 1)
           Opened(p) == NewSession("HANDSHAKE_INIT", NextKey(p), None, TRUE, clock(n))
<1>1. /\ \A p \in opened : made[n][p] < MaxKeys
      /\ sessions' = [sessions EXCEPT ![n] = [p \in Node |-> IF p \in opened THEN Opened(p) ELSE sessions[n][p]]]
      /\ made' = [made EXCEPT ![n] = [p \in Node |-> IF p \in opened THEN made[n][p] + 1 ELSE made[n][p]]]
      /\ wire' = wire \cup {Handshake("init", n, p, NextKey(p), clock(n)) : p \in opened}
      /\ connections' = [connections EXCEPT ![n] = [p \in Node |->
              IF p \in opened THEN [session |-> NextKey(p), last_activity |-> clock(n)] ELSE conns[p]]]
      /\ failures' = [failures EXCEPT ![n] = [p \in Node |->
              IF p \in opened THEN 0 ELSE IF p \in tried THEN failures[n][p] + 1 ELSE failures[n][p]]]
      /\ UNCHANGED <<sent, now, skew>>
  BY DEF ConnectAll, SessionsInv, Tables
<1>2. opened \subseteq tried /\ tried \subseteq Node \ {n} /\ opened \subseteq Node
  OBVIOUS
<1>3. \A p \in tried : failures[n][p] < MaxAttempts
  BY DEF should_connect_to_peer
<1>4. \A p \in opened : sessions[n][p] = None
  OBVIOUS
<1> HIDE DEF tried, opened
<1>5. Tables /\ clock(n) \in Nat /\ clock(n)' = clock(n)
  BY <1>1, Numbers DEF SessionsInv, clock
<1>6. \A p \in opened : Opened(p) \in SessionRecord /\ Opened(p) # None
  <2> SUFFICES ASSUME NEW p \in opened PROVE Opened(p) \in SessionRecord
    BY NoneAssumption
  <2>1. NextKey(p) \in SessionKey
    BY <1>2, <1>5, Numbers DEF Key, SessionKey
  <2> QED BY <1>5, <2>1 DEF NewSession, SessionRecord
<1>7. Tables'
  <2>1. sessions' \in [Node -> [Node -> SessionRecord \cup {None}]]
    <3> HIDE DEF Opened
    <3>1. \A p \in Node : sessions[n][p] \in SessionRecord \cup {None}
      BY <1>5 DEF Tables
    <3>2. [p \in Node |-> IF p \in opened THEN Opened(p) ELSE sessions[n][p]] \in [Node -> SessionRecord \cup {None}]
      BY <1>6, <3>1
    <3> QED BY <1>1, <1>5, <3>2 DEF Tables
  <2>2. made' \in [Node -> [Node -> 0..MaxKeys]]
    <3>1. \A p \in Node : made[n][p] \in 0..MaxKeys
      BY <1>5 DEF Tables
    <3>2. \A p \in opened : made[n][p] + 1 \in 0..MaxKeys
      BY <1>1, <1>2, <3>1, SessionAssumption
    <3>3. [p \in Node |-> IF p \in opened THEN made[n][p] + 1 ELSE made[n][p]] \in [Node -> 0..MaxKeys]
      BY <3>1, <3>2
    <3> QED BY <1>1, <1>5, <3>3 DEF Tables
  <2>3. failures' \in [Node -> [Node -> 0..MaxAttempts]]
    <3>1. \A p \in Node : failures[n][p] \in 0..MaxAttempts
      BY <1>5 DEF Tables
    <3>2. \A p \in tried : failures[n][p] + 1 \in 0..MaxAttempts
      BY <1>2, <1>3, <3>1, SessionAssumption
    <3>3. [p \in Node |-> IF p \in opened THEN 0 ELSE IF p \in tried THEN failures[n][p] + 1 ELSE failures[n][p]]
             \in [Node -> 0..MaxAttempts]
      BY <3>1, <3>2, SessionAssumption
    <3> QED BY <1>1, <1>5, <3>3 DEF Tables
  <2>4. /\ connections' = [m \in Node |-> connections'[m]]
        /\ \A m \in Node : connections'[m] = [p \in Node |-> connections'[m][p]] /\ connections'[m][m] = None
    BY <1>1, <1>2, <1>5 DEF Tables
  <2> QED BY <1>1, <1>5, <2>1, <2>2, <2>3, <2>4 DEF Tables
<1>8. \A m, q \in Node : made'[m][q] = IF m = n /\ q \in opened THEN made[m][q] + 1 ELSE made[m][q]
  BY <1>1, <1>5 DEF Tables
<1>9. Grows
  <2>1. \A m, q \in Node : made[m][q] <= made'[m][q]
    BY <1>5, <1>8, Numbers
  <2>2. ASSUME NEW m \in wire' \ wire
        PROVE  \E a, b \in Node : m.key = Key(a, b, made[a][b] + 1)
    <3>1. PICK p \in opened : m = Handshake("init", n, p, NextKey(p), clock(n))
      BY <1>1
    <3>2. m.key = NextKey(p)
      BY <3>1 DEF Handshake
    <3> QED BY <1>2, <3>2
  <2>3. \A m \in Node : clock(m) <= clock(m)'
    BY <1>1, <1>5, Numbers DEF clock
  <2> QED BY <1>1, <2>1, <2>2, <2>3 DEF Grows
<1>10. ASSUME NEW p \in opened, NEW key, key = NextKey(p) PROVE Issued(key, n, p)'
  <2>1. made'[n][p] = made[n][p] + 1 /\ made[n][p] \in Nat
    BY <1>2, <1>5, <1>8, Numbers
  <2>2. PICK k : k = made[n][p] + 1
    OBVIOUS
  <2>3. k \in 1..made'[n][p] /\ key = Key(n, p, k)
    BY <1>10, <2>1, <2>2
  <2> QED BY <2>3 DEF Issued, Key
<1>11. ASSUME NEW p \in opened, NEW key, key = NextKey(p) PROVE Offered(key)' /\ ~Given(key)
  <2>1. PICK m : m = Handshake("init", n, p, NextKey(p), clock(n))
    OBVIOUS
  <2>2. m \in wire' /\ m.kind = "init" /\ m.key = key
    BY <1>1, <1>11, <2>1 DEF Handshake
  <2>3. ASSUME NEW w \in wire PROVE w.key # key
    <3>1. w.from \in Node /\ w.to \in Node /\ Issued(w.key, w.from, w.to)
      BY DEF SessionsInv, WireGood, MessageGood
    <3> QED BY <1>2, <1>5, <1>11, <3>1, NextKeyFresh
  <2> QED BY <2>2, <2>3 DEF Offered, Given
<1>12. WireGood'
  <2>1. ASSUME NEW m \in wire' \ wire
        PROVE  MessageGood(m)' /\ m.kind = "init" /\ \A w \in wire : w.key # m.key
    <3>1. PICK p \in opened : m = Handshake("init", n, p, NextKey(p), clock(n))
      BY <1>1
    <3>2. m.key = NextKey(p) /\ m.from = n /\ m.to = p /\ m.kind = "init"
      BY <3>1 DEF Handshake
    <3>3. Issued(m.key, n, p)'
      BY <1>10, <3>2
    <3>4. ASSUME NEW w \in wire PROVE w.key # m.key
      <4>1. w.from \in Node /\ w.to \in Node /\ Issued(w.key, w.from, w.to)
        BY DEF SessionsInv, WireGood, MessageGood
      <4> QED BY <1>2, <1>5, <3>2, <4>1, NextKeyFresh
    <3> QED BY <1>2, <3>2, <3>3, <3>4 DEF MessageGood
  <2>2. ASSUME NEW m \in wire PROVE MessageGood(m)'
    BY <1>5, <1>7, <1>9, IssuedStays DEF SessionsInv, WireGood, MessageGood
  <2>3. \A m, w \in wire : m.kind = "init" /\ w.kind = "response" => m.key # w.key
    BY DEF SessionsInv, WireGood
  <2> QED BY <2>1, <2>2, <2>3 DEF WireGood
<1>13. ASSUME NEW m \in Node, NEW q \in Node PROVE Continues(m, q)
  <2>1. CASE m = n /\ q \in opened
    <3>1. PICK key : key = NextKey(q)
      OBVIOUS
    <3>2. PICK t : t = NewSession("HANDSHAKE_INIT", key, None, TRUE, clock(n))
      OBVIOUS
    <3>3. sessions'[n][q] = t
      BY <1>1, <1>2, <1>5, <2>1, <3>1, <3>2 DEF Tables
    <3>4. /\ t.state = "HANDSHAKE_INIT" /\ t.key = key /\ t.remote = None /\ t.initiator = TRUE
          /\ t.last_activity = clock(n)
      BY <3>2 DEF NewSession
    <3>5. SessionGood(n, q, t)'
      BY <1>2, <1>5, <1>10, <1>11, <2>1, <3>1, <3>4 DEF SessionGood
    <3> QED BY <2>1, <3>1, <3>3, <3>4, <3>5 DEF Continues
  <2>2. CASE ~(m = n /\ q \in opened)
    <3>1. sessions'[m][q] = sessions[m][q]
      BY <1>1, <1>5, <2>2 DEF Tables
    <3> QED BY <3>1 DEF Continues
  <2> QED BY <2>1, <2>2
<1>14. sent' = sent
  BY <1>1
<1> QED BY <1>7, <1>9, <1>12, <1>13, <1>14, SessionsKeep

\* One session changes, and no message is sent.
LEMMA OneSession ==
    ASSUME SessionsInv, NEW n \in Node, NEW p \in Node, NEW t \in SessionRecord \cup {None},
           sessions' = [sessions EXCEPT ![n][p] = t],
           t # None => /\ SessionGood(n, p, t)
                       /\ sessions[n][p] # None
                       /\ t.key = sessions[n][p].key
                       /\ sessions[n][p].nonce_counter <= t.nonce_counter,
           UNCHANGED <<connections, failures, made, wire, sent, now, skew>>
    PROVE  SessionsInv'
<1>1. Tables /\ WireGood
  BY DEF SessionsInv
<1>2. \A m, q \in Node : sessions'[m][q] = IF m = n /\ q = p THEN t ELSE sessions[m][q]
  BY <1>1 DEF Tables
<1>3. Tables'
  <2>1. [sessions[n] EXCEPT ![p] = t] \in [Node -> SessionRecord \cup {None}]
    BY <1>1 DEF Tables
  <2>2. sessions' \in [Node -> [Node -> SessionRecord \cup {None}]]
    BY <1>1, <2>1 DEF Tables
  <2> QED BY <1>1, <2>2 DEF Tables
<1>4. Grows
  BY <1>1, SteadyGrows
<1>5. WireGood'
  BY <1>1, <1>3, <1>4, WireStays
<1>6. t # None => SessionGood(n, p, t)'
  BY <1>1, <1>3, <1>4, SessionStays
<1>7. ASSUME NEW m \in Node, NEW q \in Node PROVE Continues(m, q)
  <2>1. CASE m = n /\ q = p
    <3>1. sessions'[n][p] = t
      BY <1>2
    <3> QED BY <1>6, <2>1, <3>1 DEF Continues
  <2>2. CASE ~(m = n /\ q = p)
    BY <1>2, <2>2 DEF Continues
  <2> QED BY <2>1, <2>2
<1> QED BY <1>3, <1>4, <1>5, <1>7, SessionsKeep

LEMMA CloseStep ==
    ASSUME SessionsInv, NEW n \in Node, NEW p \in Node, close_session(n, p)
    PROVE  SessionsInv'
BY OneSession DEF close_session

LEMMA CleanupStep ==
    ASSUME SessionsInv, NEW n \in Node, cleanup_stale_sessions(n)
    PROVE  SessionsInv'
<1>1. Tables /\ WireGood
  BY DEF SessionsInv
<1>2. /\ sessions' = [sessions EXCEPT ![n] = [p \in Node |->
              IF sessions[n][p] # None /\ has_timed_out(sessions[n][p], n) THEN None ELSE sessions[n][p]]]
      /\ UNCHANGED <<connections, failures, made, wire, sent, now, skew>>
  BY <1>1 DEF cleanup_stale_sessions, Tables
<1>3. \A m, q \in Node : sessions'[m][q] \in {None, sessions[m][q]}
  BY <1>1, <1>2 DEF Tables
<1>4. Tables'
  <2>1. sessions' \in [Node -> [Node -> SessionRecord \cup {None}]]
    BY <1>1, <1>2 DEF Tables
  <2> QED BY <1>1, <1>2, <2>1 DEF Tables
<1>5. Grows
  BY <1>1, <1>2, SteadyGrows
<1>6. WireGood'
  BY <1>1, <1>2, <1>4, <1>5, WireStays
<1>7. \A m, q \in Node : Continues(m, q)
  BY <1>3 DEF Continues
<1> QED BY <1>2, <1>4, <1>5, <1>6, <1>7, SessionsKeep

LEMMA DecryptStep ==
    ASSUME SessionsInv, NEW n \in Node, NEW p \in Node, NEW c \in sent, decrypt_message(n, p, c)
    PROVE  SessionsInv'
<1>1. PICK s : s = sessions[n][p]
  OBVIOUS
<1>2. s # None /\ s \in SessionRecord /\ SessionGood(n, p, s) /\ clock(n) \in Nat
  BY <1>1, Numbers DEF decrypt_message, IsEstablished, SessionsInv, SessionsGood
<1>3. PICK t : t = [s EXCEPT !.last_activity = clock(n)]
  OBVIOUS
<1>4. /\ t \in SessionRecord /\ t # None /\ t.last_activity = clock(n)
      /\ t.state = s.state /\ t.key = s.key /\ t.remote = s.remote /\ t.initiator = s.initiator
      /\ t.nonce_counter = s.nonce_counter /\ s.nonce_counter \in Nat
  BY <1>2, <1>3, NoneAssumption DEF SessionRecord
<1>5. SessionGood(n, p, t)
  BY <1>2, <1>4 DEF SessionGood
<1>6. sessions' = [sessions EXCEPT ![n][p] = t]
  BY <1>1, <1>3 DEF decrypt_message, SessionsInv, Tables
<1>7. /\ sessions[n][p] # None /\ t.key = sessions[n][p].key
      /\ sessions[n][p].nonce_counter <= t.nonce_counter
  BY <1>1, <1>2, <1>4
<1>8. UNCHANGED <<connections, failures, made, wire, sent, now, skew>>
  BY DEF decrypt_message
<1> QED BY <1>4, <1>5, <1>6, <1>7, <1>8, OneSession

\* The answer to an offer completes the session of the node that offered.
LEMMA HandleResponseStep ==
    ASSUME SessionsInv, NEW m \in wire, handle_handshake_response(m)
    PROVE  SessionsInv'
<1>1. /\ m.from \in Node /\ m.to \in Node /\ m.kind = "response"
      /\ Issued(m.key, m.from, m.to) /\ Given(m.key)
  BY DEF SessionsInv, WireGood, MessageGood, handle_handshake_response, Given
<1>2. PICK n \in Node, p \in Node : n = m.to /\ p = m.from
  BY <1>1
<1>3. PICK s : s = sessions[n][p]
  OBVIOUS
<1>4. /\ s # None /\ s \in SessionRecord /\ SessionGood(n, p, s) /\ clock(n) \in Nat
      /\ s.state = "HANDSHAKE_INIT"
  BY <1>2, <1>3, Numbers DEF handle_handshake_response, SessionsInv, SessionsGood
<1>5. PICK t : t = [s EXCEPT !.state = "ESTABLISHED", !.remote = m.key, !.last_activity = clock(n)]
  OBVIOUS
<1>6. m.key \in SessionKey
  <2>1. PICK k \in 1..made[p][n] : m.key = Key(p, n, k)
    BY <1>1, <1>2 DEF Issued
  <2>2. k \in Nat
    BY <2>1, Numbers DEF SessionsInv
  <2> QED BY <2>1, <2>2 DEF Key, SessionKey
<1>7. /\ t \in SessionRecord /\ t # None /\ t.last_activity = clock(n)
      /\ t.state = "ESTABLISHED" /\ t.key = s.key /\ t.remote = m.key /\ t.initiator = s.initiator
      /\ t.nonce_counter = s.nonce_counter /\ s.nonce_counter \in Nat /\ m.key # None
  BY <1>4, <1>5, <1>6, NoneAssumption DEF SessionRecord
<1>8. SessionGood(n, p, t)
  BY <1>1, <1>2, <1>4, <1>7 DEF SessionGood
<1>9. sessions' = [sessions EXCEPT ![n][p] = t]
  BY <1>2, <1>3, <1>5 DEF handle_handshake_response, SessionsInv, Tables
<1>10. /\ sessions[n][p] # None /\ t.key = sessions[n][p].key
      /\ sessions[n][p].nonce_counter <= t.nonce_counter
  BY <1>3, <1>4, <1>7
<1>11. UNCHANGED <<connections, failures, made, wire, sent, now, skew>>
  BY DEF handle_handshake_response
<1> QED BY <1>7, <1>8, <1>9, <1>10, <1>11, OneSession

\* The node that answers gives its key: no key is given and offered.
LEMMA SendResponseStep ==
    ASSUME SessionsInv, NEW n \in Node, NEW p \in Node, send_handshake_response(n, p)
    PROVE  SessionsInv'
<1>1. PICK s : s = sessions[n][p]
  OBVIOUS
<1>2. /\ s # None /\ s \in SessionRecord /\ SessionGood(n, p, s) /\ clock(n) \in Nat
      /\ s.state = "HANDSHAKE_RESPONSE" /\ Tables /\ WireGood
  BY <1>1, Numbers DEF send_handshake_response, SessionsInv, SessionsGood
<1>3. PICK t : t = [s EXCEPT !.state = "ESTABLISHED", !.last_activity = clock(n)]
  OBVIOUS
<1>4. /\ t \in SessionRecord /\ t # None /\ t.last_activity = clock(n)
      /\ t.state = "ESTABLISHED" /\ t.key = s.key /\ t.remote = s.remote /\ t.initiator = s.initiator
      /\ t.nonce_counter = s.nonce_counter /\ s.nonce_counter \in Nat
  BY <1>2, <1>3, NoneAssumption DEF SessionRecord
<1>5. PICK w : w = Handshake("response", n, p, s.key, clock(n))
  OBVIOUS
<1>6. w.kind = "response" /\ w.from = n /\ w.to = p /\ w.key = s.key
  BY <1>5 DEF Handshake
<1>7. /\ sessions' = [sessions EXCEPT ![n][p] = t] /\ wire' = wire \cup {w}
      /\ UNCHANGED <<connections, failures, made, sent, now, skew>>
  BY <1>1, <1>2, <1>3, <1>5 DEF send_handshake_response, Tables
<1>8. Tables'
  <2>1. [sessions[n] EXCEPT ![p] = t] \in [Node -> SessionRecord \cup {None}]
    BY <1>2, <1>4 DEF Tables
  <2>2. sessions' \in [Node -> [Node -> SessionRecord \cup {None}]]
    BY <1>2, <1>7, <2>1 DEF Tables
  <2> QED BY <1>2, <1>7, <2>2 DEF Tables
<1>9. Grows
  BY <1>2, <1>6, <1>7, Numbers DEF Grows, clock
<1>10. Issued(s.key, n, p) /\ ~Offered(s.key) /\ ~s.initiator /\ n # p
  BY <1>2 DEF SessionGood
<1>11. WireGood'
  <2>1. ASSUME NEW m \in wire' PROVE MessageGood(m)'
    <3>1. MessageGood(m)
      BY <1>2, <1>6, <1>7, <1>10 DEF WireGood, MessageGood
    <3> QED BY <1>2, <1>8, <1>9, <3>1, IssuedStays DEF MessageGood
  <2>2. ASSUME NEW m \in wire', NEW v \in wire', m.kind = "init", v.kind = "response" PROVE m.key # v.key
    BY <1>2, <1>6, <1>7, <1>10, <2>2 DEF WireGood, Offered
  <2> QED BY <2>1, <2>2 DEF WireGood
<1>12. SessionGood(n, p, t)'
  <2>1. SessionGood(n, p, s)' /\ clock(n)' = clock(n)
    BY <1>2, <1>7, <1>8, <1>9, SessionStays DEF clock
  <2>2. Given(s.key)'
    BY <1>6, <1>7 DEF Given
  <2> QED BY <1>2, <1>4, <1>10, <2>1, <2>2 DEF SessionGood
<1>13. ASSUME NEW m \in Node, NEW q \in Node PROVE Continues(m, q)
  <2>1. CASE m = n /\ q = p
    <3>1. sessions'[n][p] = t
      BY <1>2, <1>7 DEF Tables
    <3>2. s.nonce_counter <= t.nonce_counter
      BY <1>4
    <3> QED BY <1>1, <1>2, <1>4, <1>12, <2>1, <3>1, <3>2 DEF Continues
  <2>2. CASE ~(m = n /\ q = p)
    <3>1. sessions'[m][q] = sessions[m][q]
      BY <1>2, <1>7, <2>2 DEF Tables
    <3> QED BY <3>1 DEF Continues
  <2> QED BY <2>1, <2>2
<1> QED BY <1>7, <1>8, <1>9, <1>11, <1>13, SessionsKeep

\* An offer makes a session with a new key, or removes one that timed out.
LEMMA InboundStep ==
    ASSUME SessionsInv, NEW m \in wire, handle_inbound_handshake(m)
    PROVE  SessionsInv'
<1>1. /\ m.from \in Node /\ m.to \in Node /\ m.kind = "init" /\ m.from # m.to
      /\ Issued(m.key, m.from, m.to) /\ Offered(m.key)
  BY DEF SessionsInv, WireGood, MessageGood, handle_inbound_handshake, Offered
<1>2. PICK n \in Node, p \in Node : n = m.to /\ p = m.from
  BY <1>1
<1>3. Tables /\ WireGood /\ clock(n) \in Nat /\ made[n][p] \in Nat /\ made[p][n] \in Nat
  BY Numbers DEF SessionsInv
<1>4. CASE ~IsFresh(m, n)
  <2>1. sessions' = [sessions EXCEPT ![n][p] = None] /\ UNCHANGED <<connections, failures, made, wire, sent, now, skew>>
    BY <1>2, <1>4 DEF handle_inbound_handshake
  <2> QED BY <2>1, OneSession
<1>5. CASE IsFresh(m, n)
  <2>1. PICK key : key = Key(n, p, made[n][p] + 1)
    OBVIOUS
  <2>2. PICK t : t = NewSession("HANDSHAKE_RESPONSE", key, m.key, FALSE, clock(n))
    OBVIOUS
  <2>3. /\ made[n][p] < MaxKeys
        /\ made' = [made EXCEPT ![n][p] = made[n][p] + 1]
        /\ sessions' = [sessions EXCEPT ![n][p] = t]
        /\ UNCHANGED <<connections, failures, wire, sent, now, skew>>
    BY <1>2, <1>3, <1>5, <2>1, <2>2 DEF handle_inbound_handshake, Tables
  <2>4. key \in SessionKey /\ m.key \in SessionKey
    <3>1. PICK k \in 1..made[p][n] : m.key = Key(p, n, k)
      BY <1>1, <1>2 DEF Issued
    <3>2. k \in Nat
      BY <1>3, <3>1
    <3> QED BY <1>3, <2>1, <3>1, <3>2 DEF Key, SessionKey
  <2>5. /\ t \in SessionRecord /\ t # None /\ m.key # None /\ t.last_activity = clock(n)
        /\ t.state = "HANDSHAKE_RESPONSE" /\ t.key = key /\ t.remote = m.key /\ t.initiator = FALSE
    <3>1. /\ t \in SessionRecord /\ t.last_activity = clock(n)
          /\ t.state = "HANDSHAKE_RESPONSE" /\ t.key = key /\ t.remote = m.key /\ t.initiator = FALSE
      BY <1>3, <2>2, <2>4 DEF NewSession, SessionRecord
    <3> QED BY <2>4, <3>1, NoneAssumption
  <2>6. \A a, b \in Node : made'[a][b] = IF a = n /\ b = p THEN made[n][p] + 1 ELSE made[a][b]
    BY <1>3, <2>3 DEF Tables
  <2>7. Tables'
    <3>1. [sessions[n] EXCEPT ![p] = t] \in [Node -> SessionRecord \cup {None}]
      BY <1>3, <2>5 DEF Tables
    <3>2. sessions' \in [Node -> [Node -> SessionRecord \cup {None}]]
      BY <1>3, <2>3, <3>1 DEF Tables
    <3>3. made[n][p] + 1 \in 0..MaxKeys
      BY <1>3, <2>3, SessionAssumption
    <3>4. [made[n] EXCEPT ![p] = made[n][p] + 1] \in [Node -> 0..MaxKeys]
      BY <1>3, <3>3 DEF Tables
    <3>5. made' \in [Node -> [Node -> 0..MaxKeys]]
      BY <1>3, <2>3, <3>4 DEF Tables
    <3> QED BY <1>3, <2>3, <3>2, <3>5 DEF Tables
  <2>8. Grows
    BY <1>3, <2>3, <2>6, Numbers DEF Grows, clock
  <2>9. WireGood'
    BY <1>3, <2>3, <2>7, <2>8, WireStays
  <2>10. SessionGood(n, p, t)'
    <3>1. Issued(key, n, p)'
      <4>1. PICK k : k = made[n][p] + 1
        OBVIOUS
      <4>2. k \in 1..made'[n][p] /\ key = Key(n, p, k)
        BY <1>3, <2>1, <2>6, <4>1
      <4> QED BY <4>2 DEF Issued, Key
    <3>2. ~Offered(key)'
      <4>1. ASSUME NEW w \in wire PROVE w.key # key
        <5>1. w.from \in Node /\ w.to \in Node /\ Issued(w.key, w.from, w.to)
          BY <1>3 DEF WireGood, MessageGood
        <5> QED BY <1>3, <2>1, <5>1, NextKeyFresh
      <4> QED BY <2>3, <4>1 DEF Offered
    <3>3. Offered(m.key)' /\ Issued(m.key, p, n)'
      BY <1>1, <1>2, <1>3, <2>7, <2>8, IssuedStays, OffersStay
    <3>4. clock(n)' = clock(n)
      BY <2>3 DEF clock
    <3> QED BY <1>1, <1>2, <1>3, <2>5, <3>1, <3>2, <3>3, <3>4 DEF SessionGood
  <2>11. ASSUME NEW a \in Node, NEW b \in Node PROVE Continues(a, b)
    <3>1. CASE a = n /\ b = p
      <4>1. sessions'[n][p] = t
        BY <1>3, <2>3 DEF Tables
      <4> QED BY <2>1, <2>5, <2>10, <3>1, <4>1 DEF Continues
    <3>2. CASE ~(a = n /\ b = p)
      <4>1. sessions'[a][b] = sessions[a][b]
        BY <1>3, <2>3, <3>2 DEF Tables
      <4> QED BY <4>1 DEF Continues
    <3> QED BY <3>1, <3>2
  <2> QED BY <2>3, <2>7, <2>8, <2>9, <2>11, SessionsKeep
<1> QED BY <1>4, <1>5

\* The direction of the new ciphertext tells its sender's key, and the session
\* has counted every nonce of that key.
LEMMA EncryptStep ==
    ASSUME SessionsInv, NEW n \in Node, NEW p \in Node, NEW d, Encrypt(n, p, d),
           UNCHANGED <<failures, made, wire, now, skew>>,
           connections' = [m \in Node |-> connections'[m]],
           \A m \in Node : connections'[m] = [q \in Node |-> connections'[m][q]] /\ connections'[m][m] = None
    PROVE  SessionsInv'
<1>1. PICK s : s = sessions[n][p]
  OBVIOUS
<1>2. /\ s # None /\ s \in SessionRecord /\ SessionGood(n, p, s) /\ clock(n) \in Nat
      /\ s.state = "ESTABLISHED" /\ Tables /\ WireGood
  BY <1>1, Numbers DEF Encrypt, IsEstablished, SessionsInv, SessionsGood
<1>3. PICK t : t = [s EXCEPT !.nonce_counter = s.nonce_counter + 1, !.last_activity = clock(n)]
  OBVIOUS
<1>4. /\ t \in SessionRecord /\ t # None /\ t.last_activity = clock(n)
      /\ t.state = s.state /\ t.key = s.key /\ t.remote = s.remote /\ t.initiator = s.initiator
      /\ t.nonce_counter = s.nonce_counter + 1 /\ s.nonce_counter \in Nat /\ s.initiator \in BOOLEAN
  <2>1. s.nonce_counter \in Nat /\ s.initiator \in BOOLEAN
    BY <1>2 DEF SessionRecord
  <2>2. PICK k \in Nat : k = s.nonce_counter + 1
    BY <2>1
  <2>3. t = [s EXCEPT !.nonce_counter = k, !.last_activity = clock(n)]
    BY <1>3, <2>2
  <2>4. /\ t \in SessionRecord /\ t.last_activity = clock(n) /\ t.nonce_counter = k
        /\ t.state = s.state /\ t.key = s.key /\ t.remote = s.remote /\ t.initiator = s.initiator
    BY <1>2, <2>3 DEF SessionRecord
  <2> QED BY <2>1, <2>2, <2>4, NoneAssumption
<1>5. PICK c : c = [from |-> n, to |-> p, key |-> derive_session_keys(s).tx, nonce |-> s.nonce_counter, data |-> d]
  OBVIOUS
<1>6. c.from = n /\ c.to = p /\ c.key = derive_session_keys(s).tx /\ c.nonce = s.nonce_counter
  BY <1>5
<1>7. sent' = sent \cup {c} /\ sessions' = [sessions EXCEPT ![n][p] = t]
  BY <1>1, <1>2, <1>3, <1>5 DEF Encrypt, Tables
<1>8. \A m, q \in Node : sessions'[m][q] = IF m = n /\ q = p THEN t ELSE sessions[m][q]
  BY <1>2, <1>7 DEF Tables
<1>9. Tables'
  <2>1. [sessions[n] EXCEPT ![p] = t] \in [Node -> SessionRecord \cup {None}]
    BY <1>2, <1>4 DEF Tables
  <2>2. sessions' \in [Node -> [Node -> SessionRecord \cup {None}]]
    BY <1>2, <1>7, <2>1 DEF Tables
  <2> QED BY <1>2, <2>2 DEF Tables
<1>10. Grows
  BY <1>2, SteadyGrows
<1>11. WireGood'
  BY <1>2, <1>9, <1>10, WireStays
<1>12. SessionsGood'
  <2> SUFFICES ASSUME NEW m \in Node, NEW q \in Node, sessions'[m][q] # None
               PROVE  SessionGood(m, q, sessions[m][q])'
    BY DEF SessionsGood
  <2>1. PICK u : u = sessions'[m][q]
    OBVIOUS
  <2>2. SessionGood(m, q, u) /\ u \in SessionRecord
    <3>1. CASE m = n /\ q = p
      <4>1. u = t
        BY <1>8, <2>1, <3>1
      <4> QED BY <1>2, <1>4, <3>1, <4>1 DEF SessionGood
    <3>2. CASE ~(m = n /\ q = p)
      <4>1. u = sessions[m][q]
        BY <1>8, <2>1, <3>2
      <4> QED BY <1>2, <2>1, <4>1 DEF SessionsInv, SessionsGood, Tables
    <3> QED BY <3>1, <3>2
  <2>3. SessionGood(m, q, u)'
    BY <1>2, <1>9, <1>10, <2>2, SessionStays
  <2> QED BY <2>1, <2>3 DEF SessionGood, clock
<1>13. CiphertextGood(c)
  <2>1. n # p /\ Issued(s.key, n, p) /\ s.remote # None /\ Issued(s.remote, p, n)
    BY <1>2 DEF SessionGood
  <2>2. \/ c.key = <<{s.key, s.remote}, 1>> /\ Offered(s.key) /\ Given(s.remote)
        \/ c.key = <<{s.key, s.remote}, 2>> /\ Given(s.key) /\ Offered(s.remote)
    <3>1. CASE s.initiator
      BY <1>2, <1>6, <2>1, <3>1 DEF SessionGood, derive_session_keys
    <3>2. CASE ~s.initiator
      BY <1>2, <1>6, <2>1, <3>2 DEF SessionGood, derive_session_keys
    <3> QED BY <3>1, <3>2
  <2>3. c.from \in Node /\ c.to \in Node /\ c.from # c.to /\ c.nonce \in Nat
    BY <1>4, <1>6, <2>1
  <2>4. Issued(s.key, c.from, c.to) /\ Issued(s.remote, c.to, c.from)
    BY <1>6, <2>1
  <2> QED BY <2>2, <2>3, <2>4, Zenon DEF CiphertextGood
<1>14. SentGood'
  <2>1. \A e \in sent' : CiphertextGood(e)
    BY <1>7, <1>13 DEF SessionsInv, SentGood
  <2> QED BY <1>2, <1>9, <1>10, <2>1, CiphertextStays DEF SentGood
<1>15. ASSUME NEW e \in sent, e.from = n, e.to = p, s.key \in e.key[1]
       PROVE  e.nonce < s.nonce_counter
  BY <1>1, <1>2, <1>15 DEF SessionsInv, NoncesBelow
<1>16. NoncesBelow'
  <2> SUFFICES ASSUME NEW m \in Node, NEW q \in Node, NEW e \in sent', sessions'[m][q] # None, e.from = m,
                      e.to = q, sessions'[m][q].key \in e.key[1]
               PROVE  e.nonce < sessions'[m][q].nonce_counter
    BY DEF NoncesBelow
  <2>1. CASE m = n /\ q = p
    <3>1. sessions'[m][q] = t
      BY <1>8, <2>1
    <3>2. e = c \/ (e \in sent /\ e.nonce < s.nonce_counter)
      BY <1>4, <1>7, <1>15, <2>1, <3>1
    <3>3. e.nonce \in Nat
      BY <1>7, <1>13 DEF SessionsInv, SentGood, CiphertextGood
    <3> QED BY <1>4, <1>6, <3>1, <3>2, <3>3
  <2>2. CASE ~(m = n /\ q = p)
    <3>1. sessions'[m][q] = sessions[m][q] /\ e \in sent
      BY <1>6, <1>7, <1>8, <2>2
    <3> QED BY <3>1 DEF SessionsInv, NoncesBelow
  <2> QED BY <2>1, <2>2
<1>17. NonceNeverReused'
  <2>1. ASSUME NEW e \in sent, e.key = c.key PROVE e.nonce # c.nonce
    <3>1. CiphertextGood(e)
      BY DEF SessionsInv, SentGood
    <3>2. e.from = n /\ e.to = p /\ s.key \in e.key[1]
      BY <1>2, <1>4, <1>6, <2>1, <3>1, SenderKey
    <3>3. e.nonce < s.nonce_counter /\ e.nonce \in Nat
      BY <1>15, <3>1, <3>2 DEF CiphertextGood
    <3> QED BY <1>4, <1>6, <3>3
  <2> QED BY <1>7, <2>1 DEF SessionsInv, NonceNeverReused
<1> QED BY <1>9, <1>11, <1>12, <1>14, <1>16, <1>17 DEF SessionsInv

LEMMA SessionsStep == SessionsInv /\ [Next]_vars => SessionsInv'
<1> SUFFICES ASSUME SessionsInv, [Next]_vars PROVE SessionsInv' OBVIOUS
<1>0. Tables
  BY DEF SessionsInv
<1>1. \A n \in Node : connections[n] = [p \in Node |-> connections[n][p]] /\ connections[n][n] = None
  BY <1>0 DEF Tables
<1>2. ASSUME NEW n \in Node, NEW p \in Node, connect_to_peer(n, p) PROVE SessionsInv'
  <2>1. {p} \in SUBSET Node /\ ConnectAll(n, {p}, connections[n])
    BY <1>2 DEF connect_to_peer
  <2> QED BY <1>1, <2>1, ConnectStep
<1>3. ASSUME NEW n \in Node, NEW p \in Node \ {n}, disconnect_peer(n, p) PROVE SessionsInv'
  <2>1. /\ connections' = [connections EXCEPT ![n][p] = None]
        /\ UNCHANGED <<sessions, failures, made, wire, sent, now, skew>>
    BY <1>3 DEF disconnect_peer
  <2>2. Tables'
    BY <1>0, <2>1 DEF Tables
  <2>3. Grows
    BY <1>0, <2>1, SteadyGrows
  <2>4. WireGood'
    BY <1>0, <2>1, <2>2, <2>3, WireStays DEF SessionsInv
  <2>5. \A m, q \in Node : Continues(m, q)
    BY <2>1 DEF Continues
  <2> QED BY <2>1, <2>2, <2>3, <2>4, <2>5, SessionsKeep
<1>4. ASSUME NEW n \in Node, NEW p \in Node \ {n}, NEW d, encrypt_message(n, p, d) PROVE SessionsInv'
  <2>1. Encrypt(n, p, d) /\ UNCHANGED <<connections, failures, made, wire, now, skew>>
    BY <1>4 DEF encrypt_message
  <2> QED BY <1>0, <2>1, EncryptStep DEF Tables
<1>5. ASSUME NEW n \in Node, NEW p \in Node \ {n}, NEW d, send_to_peer(n, p, d) PROVE SessionsInv'
  <2>1. /\ Encrypt(n, p, d) /\ UNCHANGED <<failures, made, wire, now, skew>>
        /\ connections' = [connections EXCEPT ![n][p].last_activity = clock(n)]
    BY <1>5 DEF send_to_peer
  <2>2. /\ connections' = [m \in Node |-> connections'[m]]
        /\ \A m \in Node : connections'[m] = [q \in Node |-> connections'[m][q]] /\ connections'[m][m] = None
    BY <1>0, <2>1 DEF Tables
  <2> QED BY <2>1, <2>2, EncryptStep
<1>6. ASSUME NEW n \in Node, maintain_peer_connections(n) PROVE SessionsInv'
  <2>1. PICK S : /\ ConnectAll(n, S, NotIdle(n))
                 /\ S = {} \/ \E k, E : S \in select_peers_to_connect(n, k, E)
    BY <1>6 DEF maintain_peer_connections
  <2>2. S \in SUBSET Node
    BY <2>1 DEF select_peers_to_connect, kSubset
  <2>3. PICK conns : conns = NotIdle(n)
    OBVIOUS
  <2>4. conns = [p \in Node |-> conns[p]] /\ conns[n] = None
    BY <1>1, <2>3 DEF NotIdle
  <2> QED BY <2>1, <2>2, <2>3, <2>4, ConnectStep
<1>7. ASSUME NEW n \in Node, attempt_reconnections(n) PROVE SessionsInv'
  <2>1. PICK S \in SUBSET Node : ConnectAll(n, S, connections[n])
    BY <1>7 DEF attempt_reconnections
  <2> QED BY <1>1, <2>1, ConnectStep
<1>8. ASSUME Tick PROVE SessionsInv'
  <2>1. /\ now < MaxTime /\ now' = now + 1
        /\ UNCHANGED <<sessions, connections, failures, made, wire, sent, skew>>
    BY <1>8 DEF Tick
  <2>2. Tables'
    <3>1. now' \in 0..MaxTime
      BY <1>0, <2>1, SessionAssumption DEF Tables
    <3> QED BY <1>0, <2>1, <3>1 DEF Tables
  <2>3. Grows
    <3>1. ASSUME NEW n \in Node PROVE clock(n) <= clock(n)'
      <4>1. now \in Nat /\ skew[n] \in Nat
        BY <1>0, SessionAssumption DEF Tables
      <4> QED BY <2>1, <4>1 DEF clock
    <3> QED BY <1>0, <2>1, <3>1, Numbers DEF Grows
  <2>4. WireGood'
    BY <1>0, <2>1, <2>2, <2>3, WireStays DEF SessionsInv
  <2>5. \A m, q \in Node : Continues(m, q)
    BY <2>1 DEF Continues
  <2> QED BY <2>1, <2>2, <2>3, <2>4, <2>5, SessionsKeep
<1>9. CASE UNCHANGED vars
  <2>1. UNCHANGED <<sessions, connections, failures, made, wire, sent, now, skew>>
    BY <1>9 DEF vars
  <2>2. Tables'
    BY <1>0, <2>1 DEF Tables
  <2>3. Grows
    BY <1>0, <2>1, SteadyGrows
  <2>4. WireGood'
    BY <1>0, <2>1, <2>2, <2>3, WireStays DEF SessionsInv
  <2>5. \A m, q \in Node : Continues(m, q)
    BY <2>1 DEF Continues
  <2> QED BY <2>1, <2>2, <2>3, <2>4, <2>5, SessionsKeep
<1> QED BY <1>2, <1>3, <1>4, <1>5, <1>6, <1>7, <1>8, <1>9, SendResponseStep, CloseStep, DecryptStep, CleanupStep,
           InboundStep, HandleResponseStep DEF Next

-----------------------------------------------------------------------------

\* Whatever handshakes are lost, repeated, late or crossed and however many
\* sessions two nodes have one after the other, no key and nonce encrypt two
\* messages, and a session decrypts only what its peer encrypted for its node.
THEOREM ChannelSoundHolds == Spec => []ChannelSound
<1>1. Spec => []SessionsInv
  BY SessionsInitially, SessionsStep, PTL DEF Spec
<1> QED BY <1>1, InvGivesChannel, PTL

\* An inbound handshake never displaces a session that has not timed out, and
\* an established session never changes its keys, in any step of any node.
THEOREM ActiveSessionKeptHolds == Spec => ActiveSessionKept
<1> DEFINE Kept(n, p) ==
      LET s == sessions[n][p]
          t == sessions'[n][p]
      IN  s # None /\ t # None =>
              \/ has_timed_out(s, n)
              \/ t.key = s.key /\ (s.state = "ESTABLISHED" => t.remote = s.remote)
<1>1. ASSUME Tables, WireGood, [Next]_vars, NEW n \in Node, NEW p \in Node PROVE Kept(n, p)
  <2> USE DEF Tables
  <2>1. ASSUME NEW m \in Node, NEW S, NEW conns, ConnectAll(m, S, conns) PROVE Kept(n, p)
    BY <1>1, <2>1 DEF ConnectAll
  <2>2. ASSUME NEW m \in Node, NEW q \in Node, NEW d, Encrypt(m, q, d) PROVE Kept(n, p)
    BY <1>1, <2>2 DEF Encrypt, IsEstablished
  <2>3. ASSUME NEW m \in Node, NEW q \in Node, send_handshake_response(m, q) PROVE Kept(n, p)
    BY <1>1, <2>3 DEF send_handshake_response
  <2>4. ASSUME NEW m \in Node, NEW q \in Node, NEW c, decrypt_message(m, q, c) PROVE Kept(n, p)
    BY <1>1, <2>4 DEF decrypt_message, IsEstablished
  <2>5. ASSUME NEW m \in Node, NEW q \in Node, close_session(m, q) PROVE Kept(n, p)
    BY <1>1, <2>5 DEF close_session
  <2>6. ASSUME NEW m \in Node, cleanup_stale_sessions(m) PROVE Kept(n, p)
    BY <1>1, <2>6 DEF cleanup_stale_sessions
  <2>7. ASSUME NEW m \in wire, handle_inbound_handshake(m) PROVE Kept(n, p)
    <3>1. PICK a \in Node, b \in Node : a = m.to /\ b = m.from
      BY <1>1 DEF WireGood, MessageGood
    <3>2. Replaceable(a, b) /\ \E t : sessions' = [sessions EXCEPT ![a][b] = t]
      BY <2>7, <3>1 DEF handle_inbound_handshake
    <3>3. CASE a = n /\ b = p
      BY <3>2, <3>3 DEF Replaceable
    <3>4. CASE ~(a = n /\ b = p)
      BY <1>1, <3>2, <3>4
    <3> QED BY <3>3, <3>4
  <2>8. ASSUME NEW m \in wire, handle_handshake_response(m) PROVE Kept(n, p)
    <3>1. PICK a \in Node, b \in Node : a = m.to /\ b = m.from
      BY <1>1 DEF WireGood, MessageGood
    <3>2. PICK s : s = sessions[a][b]
      OBVIOUS
    <3>3. PICK t : t = [s EXCEPT !.state = "ESTABLISHED", !.remote = m.key, !.last_activity = clock(a)]
      OBVIOUS
    <3>4. s.state = "HANDSHAKE_INIT" /\ s \in SessionRecord /\ sessions' = [sessions EXCEPT ![a][b] = t]
      <4>1. s.state = "HANDSHAKE_INIT" /\ s # None
        BY <2>8, <3>1, <3>2 DEF handle_handshake_response
      <4>2. s \in SessionRecord
        BY <1>1, <3>2, <4>1
      <4>3. sessions' = [sessions EXCEPT ![a][b] = t]
        BY <1>1, <2>8, <3>1, <3>2, <3>3 DEF handle_handshake_response
      <4> QED BY <4>1, <4>2, <4>3
    <3>5. t.key = s.key
      BY <3>3, <3>4 DEF SessionRecord
    <3>6. \A k, q \in Node : sessions'[k][q] = IF k = a /\ q = b THEN t ELSE sessions[k][q]
      BY <1>1, <3>4
    <3> QED BY <3>2, <3>4, <3>5, <3>6
  <2>9. CASE UNCHANGED sessions
    BY <2>9
  <2>10. CASE \E m \in Node : maintain_peer_connections(m) \/ attempt_reconnections(m)
    BY <2>1, <2>10 DEF maintain_peer_connections, attempt_reconnections
  <2>11. CASE \E m \in Node : \E q \in Node \ {m} : connect_to_peer(m, q)
    BY <2>1, <2>11 DEF connect_to_peer
  <2>12. CASE \E m \in Node : \E q \in Node \ {m} : \E d \in Data : encrypt_message(m, q, d) \/ send_to_peer(m, q, d)
    BY <2>2, <2>12 DEF encrypt_message, send_to_peer
  <2> HIDE DEF Kept
  <2>13. CASE \/ \E m \in Node : \E q \in Node \ {m} : disconnect_peer(m, q)
              \/ Tick
              \/ UNCHANGED vars
    BY <2>9, <2>13 DEF disconnect_peer, Tick, vars
  <2> QED BY <1>1, <2>3, <2>4, <2>5, <2>6, <2>7, <2>8, <2>10, <2>11, <2>12, <2>13 DEF Next
<1>2. Tables /\ WireGood /\ [Next]_vars => [\A n, p \in Node : Kept(n, p)]_vars
  BY <1>1
<1>3. Spec => []SessionsInv
  BY SessionsInitially, SessionsStep, PTL DEF Spec
<1>4. SessionsInv => Tables /\ WireGood
  BY DEF SessionsInv
<1> QED BY <1>2, <1>3, <1>4, PTL DEF Spec, ActiveSessionKept


-----------------------------------------------------------------------------
(* RateLimiter *)

LimiterBucket ==
    [tokens : Nat, last_update : Nat, this_minute : Nat, this_hour : Nat, minute_start : Nat, hour_start : Nat]

Full == Burst * Minute

\* The tokens a request at time t would find: a bucket that is not there is as
\* good as a full one.
Level(b, t) ==
    IF b.last_update = 0 THEN Full
    ELSE LET grown == b.tokens + (t - b.last_update) * PerMinute IN IF grown < Full THEN grown ELSE Full

\* The history: what was allowed up to a time, and nothing after t.
History(al, t) ==
    /\ al \in [0..LimiterMaxTime -> Nat]
    /\ t \in 1..LimiterMaxTime
    /\ \A u, v \in 0..LimiterMaxTime : u <= v => al[u] <= al[v]
    /\ \A u \in 0..LimiterMaxTime : u >= t => al[u] = al[t]

\* Whatever was let through and what the bucket still holds are paid for by a
\* full bucket and the refills since.
Paid(b, al, t) ==
    \A s \in 1..t : Minute * (al[t] - al[s - 1]) + Level(b, t) <= Full + (t - s) * PerMinute

\* The hour of a bucket in use: the counter counts it, and the part of the hour
\* before it that still matters is not above the limit either.
HourCounted(b, al, t) ==
    /\ b.hour_start \in 1..b.last_update /\ b.last_update - b.hour_start < Hour
    /\ al[b.last_update] = al[t]
    /\ al[t] - al[b.hour_start - 1] = b.this_hour /\ b.this_hour <= PerHour
    /\ \A s \in 1..b.hour_start : b.hour_start - s < Hour => al[b.hour_start - 1] - al[s - 1] <= PerHour

\* A bucket that is not there: for an hour nothing was allowed.
HourQuiet(al, t) == \A s \in 1..t : t - s < Hour => al[t] = al[s - 1]

BucketGood(b, al, t) ==
    /\ b \in LimiterBucket /\ b.tokens <= Full /\ b.last_update <= t
    /\ Paid(b, al, t)
    /\ IF b.last_update = 0 THEN b.this_hour = 0 /\ HourQuiet(al, t) ELSE HourCounted(b, al, t)

LEMMA LimiterNumbers ==
    /\ Minute \in Nat /\ Minute > 0 /\ Hour \in Nat /\ Hour > 0 /\ LimiterMaxTime \in Nat /\ LimiterMaxTime > 0
    /\ Stale \in Nat /\ PerMinute \in Nat /\ PerHour \in Nat /\ Burst \in Nat /\ Full \in Nat
    /\ Hour <= Stale /\ Full <= Stale * PerMinute
<1>1. /\ Minute \in Nat /\ Minute > 0 /\ Hour \in Nat /\ Hour > 0 /\ LimiterMaxTime \in Nat /\ LimiterMaxTime > 0
      /\ Stale \in Nat /\ PerMinute \in Nat /\ PerHour \in Nat /\ Burst \in Nat
      /\ Hour <= Stale /\ Burst * Minute <= Stale * PerMinute
  BY LimiterAssumption
<1>2. Burst * Minute \in Nat
  BY <1>1
<1> QED BY <1>1, <1>2 DEF Full

LEMMA Products ==
    ASSUME NEW a \in Nat, NEW b \in Nat, NEW c \in Nat
    PROVE  /\ a * c \in Nat
           /\ (a + 1) * c = a * c + c
           /\ c * (a + 1) = c * a + c
           /\ a <= b => a * c <= b * c
           /\ 0 * c = 0
OBVIOUS

LEMMA LevelFacts ==
    ASSUME NEW b \in LimiterBucket, NEW t \in Nat, b.last_update <= t
    PROVE  /\ Level(b, t) \in Nat /\ Level(b, t) <= Full
           /\ Level(b, t + 1) <= Level(b, t) + PerMinute
           /\ b.tokens <= Full /\ b.last_update = t /\ t # 0 => Level(b, t) = b.tokens
           /\ b.last_update # 0 /\ t - b.last_update >= Stale => Level(b, t) = Full
<1> DEFINE d == t - b.last_update
<1>1. b.tokens \in Nat /\ b.last_update \in Nat /\ d \in Nat /\ t + 1 - b.last_update = d + 1
  BY DEF LimiterBucket
<1>2. /\ d * PerMinute \in Nat /\ (d + 1) * PerMinute = d * PerMinute + PerMinute
      /\ Stale <= d => Stale * PerMinute <= d * PerMinute
      /\ 0 * PerMinute = 0
  BY <1>1, LimiterNumbers, Products
<1> DEFINE p == d * PerMinute
<1>3. Level(b, t) = IF b.last_update = 0 THEN Full ELSE IF b.tokens + p < Full THEN b.tokens + p ELSE Full
  BY DEF Level
<1>4. Level(b, t + 1) = IF b.last_update = 0 THEN Full
                        ELSE IF b.tokens + (p + PerMinute) < Full THEN b.tokens + (p + PerMinute) ELSE Full
  BY <1>1, <1>2 DEF Level
<1>5. b.last_update = t => p = 0
  BY <1>1, <1>2
<1>6. p \in Nat /\ (Stale <= d => Full <= p)
  BY <1>1, <1>2, LimiterNumbers
<1>7. t - b.last_update >= Stale => Stale <= d
  BY <1>1, LimiterNumbers
<1> HIDE DEF p, d
<1> QED BY <1>1, <1>3, <1>4, <1>5, <1>6, <1>7, LimiterNumbers

LEMMA LevelNow ==
    ASSUME NEW b \in LimiterBucket, NEW t \in Nat, t # 0, b.last_update = t, b.tokens <= Full
    PROVE  Level(b, t) = b.tokens
BY LevelFacts

\* What allow_request works on: the bucket, refilled and with its windows
\* looked at.
LEMMA BucketReady ==
    ASSUME NEW b, NEW al, History(al, limiter_now), BucketGood(b, al, limiter_now),
           NEW c, c = L!Windows(L!refill_tokens(b))
    PROVE  BucketGood(c, al, limiter_now) /\ c.last_update = limiter_now
<1> DEFINE t == limiter_now
<1>0. t \in Nat /\ t > 0 /\ t \in 1..LimiterMaxTime /\ t \in 0..LimiterMaxTime
  BY LimiterNumbers DEF History
<1>1. /\ b \in LimiterBucket /\ b.tokens <= Full /\ b.last_update <= t /\ b.last_update \in Nat
      /\ Paid(b, al, t)
  BY DEF BucketGood, LimiterBucket
<1>2. PICK f : f = L!refill_tokens(b)
  OBVIOUS
<1>3. Level(b, t) \in Nat /\ Level(b, t) <= Full
  BY <1>0, <1>1, LevelFacts
<1>4. /\ f \in LimiterBucket /\ f.last_update = t /\ f.tokens = Level(b, t) /\ f.this_hour = b.this_hour
      /\ f.hour_start = IF b.last_update = 0 THEN t ELSE b.hour_start
  <2>1. CASE b.last_update = 0
    <3>1. f = [b EXCEPT !.tokens = Full, !.last_update = t, !.minute_start = t, !.hour_start = t]
      BY <1>2, <2>1 DEF L!refill_tokens, Full
    <3>2. Level(b, t) = Full
      BY <2>1 DEF Level
    <3> QED BY <1>0, <1>1, <2>1, <3>1, <3>2, LimiterNumbers DEF LimiterBucket
  <2>2. CASE b.last_update # 0
    <3>1. f = [b EXCEPT !.tokens = Level(b, t), !.last_update = t]
      BY <1>2, <2>2 DEF L!refill_tokens, Level, Full
    <3> QED BY <1>0, <1>1, <1>3, <2>2, <3>1 DEF LimiterBucket
  <2> QED BY <2>1, <2>2
<1>5. PICK m : m = IF t - f.minute_start >= Minute THEN [f EXCEPT !.this_minute = 0, !.minute_start = t] ELSE f
  OBVIOUS
<1>6. /\ m \in LimiterBucket /\ m.last_update = t /\ m.tokens = f.tokens /\ m.this_hour = f.this_hour
      /\ m.hour_start = f.hour_start
  BY <1>0, <1>4, <1>5 DEF LimiterBucket
<1>7. c = IF t - m.hour_start >= Hour THEN [m EXCEPT !.this_hour = 0, !.hour_start = t] ELSE m
  BY <1>2, <1>5 DEF L!Windows
<1>8. /\ c \in LimiterBucket /\ c.last_update = t /\ c.tokens = Level(b, t)
      /\ c.this_hour = IF t - m.hour_start >= Hour THEN 0 ELSE b.this_hour
      /\ c.hour_start = IF t - m.hour_start >= Hour THEN t ELSE m.hour_start
      /\ m.hour_start \in Nat
  <2>1. /\ m.tokens \in Nat /\ m.this_minute \in Nat /\ m.this_hour \in Nat /\ m.minute_start \in Nat
        /\ m.hour_start \in Nat
    BY <1>6 DEF LimiterBucket
  <2>2. CASE t - m.hour_start >= Hour
    <3>1. c = [m EXCEPT !.this_hour = 0, !.hour_start = t]
      BY <1>7, <2>2
    <3>2. c \in LimiterBucket
      <4>1. PICK h : h = t
        OBVIOUS
      <4>2. c = [m EXCEPT !.this_hour = 0, !.hour_start = h] /\ h \in Nat /\ 0 \in Nat
        BY <1>0, <3>1, <4>1
      <4> QED BY <1>6, <4>2 DEF LimiterBucket
    <3>3. c.last_update = m.last_update /\ c.tokens = m.tokens /\ c.this_hour = 0 /\ c.hour_start = t
      BY <1>6, <3>1 DEF LimiterBucket
    <3> QED BY <1>4, <1>6, <2>1, <2>2, <3>2, <3>3
  <2>3. CASE ~(t - m.hour_start >= Hour)
    <3>1. c = m
      BY <1>7, <2>3
    <3> QED BY <1>4, <1>6, <2>1, <2>3, <3>1
  <2> QED BY <2>2, <2>3
<1>9. Paid(c, al, t)
  <2>1. Level(c, t) = c.tokens
    BY <1>0, <1>3, <1>8, LevelFacts
  <2> QED BY <1>1, <1>8, <2>1 DEF Paid
<1>10. /\ \A u \in 0..LimiterMaxTime : al[u] \in Nat
       /\ \A u, v \in 0..LimiterMaxTime : u <= v => al[u] <= al[v]
  BY DEF History
<1>11. HourCounted(c, al, t)
  <2>1. CASE b.last_update = 0
    <3>1. m.hour_start = t /\ ~(t - m.hour_start >= Hour)
      BY <1>0, <1>4, <1>6, <2>1, LimiterNumbers
    <3>2. b.this_hour = 0 /\ HourQuiet(al, t)
      BY <2>1 DEF BucketGood
    <3>3. c.hour_start = t /\ c.this_hour = 0
      BY <1>8, <3>1, <3>2
    <3>4. \A s \in 1..t : t - s < Hour => al[t] = al[s - 1]
      BY <3>2 DEF HourQuiet
    <3>5. t \in 1..t /\ t - t < Hour
      BY <1>0, LimiterNumbers
    <3>6. al[t] = al[t - 1]
      BY <3>4, <3>5
    <3>7. al[t] \in Nat
      BY <1>0, <1>10
    <3> QED BY <1>0, <1>8, <3>3, <3>4, <3>5, <3>6, <3>7, LimiterNumbers DEF HourCounted
  <2>2. CASE b.last_update # 0
    <3>1. HourCounted(b, al, t) /\ m.hour_start = b.hour_start
      BY <1>4, <1>6, <2>2 DEF BucketGood
    <3>2. /\ b.hour_start \in 1..b.last_update /\ b.last_update - b.hour_start < Hour
          /\ al[b.last_update] = al[t]
          /\ al[t] - al[b.hour_start - 1] = b.this_hour /\ b.this_hour <= PerHour /\ b.this_hour \in Nat
          /\ \A s \in 1..b.hour_start : b.hour_start - s < Hour => al[b.hour_start - 1] - al[s - 1] <= PerHour
      BY <1>1, <3>1 DEF HourCounted, LimiterBucket
    <3>3. CASE ~(t - b.hour_start >= Hour)
      <4>1. c.hour_start = b.hour_start /\ c.this_hour = b.this_hour
        BY <1>8, <3>1, <3>3
      <4>2. b.hour_start \in 1..t /\ t - b.hour_start < Hour
        BY <1>0, <1>1, <3>2, <3>3, LimiterNumbers
      <4> QED BY <1>8, <3>2, <4>1, <4>2 DEF HourCounted
    <3>4. CASE t - b.hour_start >= Hour
      <4>1. c.hour_start = t /\ c.this_hour = 0
        BY <1>8, <3>1, <3>4
      <4>2. b.last_update < t /\ b.hour_start + Hour <= t
        BY <1>0, <1>1, <3>2, <3>4, LimiterNumbers
      <4>3. al[t - 1] = al[t]
        <5>1. b.last_update \in 0..LimiterMaxTime /\ t - 1 \in 0..LimiterMaxTime /\ b.last_update <= t - 1
          BY <1>0, <1>1, <4>2, LimiterNumbers
        <5>2. al[b.last_update] <= al[t - 1] /\ al[t - 1] <= al[t] /\ al[t] \in Nat /\ al[t - 1] \in Nat
          BY <1>0, <1>10, <5>1
        <5> QED BY <3>2, <5>2
      <4>4. ASSUME NEW s \in 1..t, t - s < Hour PROVE al[t - 1] - al[s - 1] <= PerHour
        <5>1. s - 1 \in 0..LimiterMaxTime /\ b.hour_start - 1 \in 0..LimiterMaxTime /\ b.hour_start - 1 <= s - 1
          BY <1>0, <1>1, <3>2, <4>2, <4>4, LimiterNumbers
        <5>2. al[b.hour_start - 1] <= al[s - 1] /\ al[b.hour_start - 1] \in Nat /\ al[s - 1] \in Nat /\ al[t] \in Nat
          BY <1>0, <1>10, <5>1
        <5> QED BY <3>2, <4>3, <5>2, LimiterNumbers
      <4>5. al[t] \in Nat
        BY <1>0, <1>10
      <4>6. t \in 1..t /\ t - t < Hour /\ al[t] - al[t - 1] = 0 /\ 0 <= PerHour
        BY <1>0, <4>3, <4>5, LimiterNumbers
      <4> QED BY <1>8, <4>1, <4>4, <4>6 DEF HourCounted
    <3> QED BY <3>3, <3>4
  <2> QED BY <2>1, <2>2
<1> QED BY <1>3, <1>8, <1>9, <1>11, <1>0 DEF BucketGood

\* A request that is let through costs a token and counts in its hour.
LEMMA RequestTaken ==
    ASSUME NEW b, NEW al, NEW t, History(al, t), BucketGood(b, al, t), b.last_update = t,
           b.this_hour < PerHour, b.tokens >= Minute,
           NEW c, c = [b EXCEPT !.tokens = @ - Minute, !.this_minute = @ + 1, !.this_hour = @ + 1],
           NEW more, more = [u \in 0..LimiterMaxTime |-> IF u >= t THEN al[u] + 1 ELSE al[u]]
    PROVE  History(more, t) /\ BucketGood(c, more, t)
<1>0. t \in Nat /\ t > 0 /\ t \in 1..LimiterMaxTime /\ t \in 0..LimiterMaxTime
  BY LimiterNumbers DEF History
<1>1. /\ \A u \in 0..LimiterMaxTime : al[u] \in Nat
      /\ \A u, v \in 0..LimiterMaxTime : u <= v => al[u] <= al[v]
      /\ \A u \in 0..LimiterMaxTime : u >= t => al[u] = al[t]
  BY DEF History
<1>2. /\ \A u \in 0..LimiterMaxTime : more[u] = IF u >= t THEN al[u] + 1 ELSE al[u]
      /\ more[t] = al[t] + 1
      /\ \A s \in 1..t : s - 1 \in 0..LimiterMaxTime /\ more[s - 1] = al[s - 1] /\ al[s - 1] \in Nat
  <2>1. \A u \in 0..LimiterMaxTime : more[u] = IF u >= t THEN al[u] + 1 ELSE al[u]
    OBVIOUS
  <2>2. more[t] = al[t] + 1
    BY <1>0, <2>1
  <2>3. ASSUME NEW s \in 1..t PROVE s - 1 \in 0..LimiterMaxTime /\ more[s - 1] = al[s - 1] /\ al[s - 1] \in Nat
    <3>1. s - 1 \in 0..LimiterMaxTime /\ ~(s - 1 >= t)
      BY <1>0, LimiterNumbers
    <3> QED BY <1>1, <2>1, <3>1
  <2> QED BY <2>1, <2>2, <2>3
<1>3. History(more, t)
  <2>1. more \in [0..LimiterMaxTime -> Nat]
    BY <1>1
  <2>2. ASSUME NEW u \in 0..LimiterMaxTime, NEW v \in 0..LimiterMaxTime, u <= v PROVE more[u] <= more[v]
    BY <1>0, <1>1, <1>2, <2>2
  <2> QED BY <1>0, <1>1, <1>2, <2>1, <2>2 DEF History
<1>4. b \in LimiterBucket /\ b.tokens <= Full /\ Paid(b, al, t) /\ HourCounted(b, al, t)
  BY <1>0 DEF BucketGood
<1>5. /\ c \in LimiterBucket /\ c.last_update = t /\ c.hour_start = b.hour_start
      /\ c.tokens = b.tokens - Minute /\ c.this_hour = b.this_hour + 1 /\ b.this_hour \in Nat
      /\ b.tokens \in Nat /\ b.hour_start \in Nat
  <2>1. /\ b.tokens \in Nat /\ b.this_minute \in Nat /\ b.this_hour \in Nat /\ b.hour_start \in Nat
        /\ b.tokens - Minute \in Nat
    BY <1>4, LimiterNumbers DEF LimiterBucket
  <2>2. PICK x, y, z : x = b.tokens - Minute /\ y = b.this_minute + 1 /\ z = b.this_hour + 1
    OBVIOUS
  <2>3. c = [b EXCEPT !.tokens = x, !.this_minute = y, !.this_hour = z]
    BY <2>2
  <2>4. x \in Nat /\ y \in Nat /\ z \in Nat
    BY <2>1, <2>2
  <2>5. c \in LimiterBucket /\ c.last_update = b.last_update /\ c.hour_start = b.hour_start
        /\ c.tokens = x /\ c.this_hour = z
    BY <1>4, <2>3, <2>4 DEF LimiterBucket
  <2> QED BY <2>1, <2>2, <2>5
<1>6. Paid(c, more, t)
  <2>1. Level(b, t) = b.tokens /\ Level(c, t) = b.tokens - Minute
    <3>1. c.tokens <= Full /\ b.last_update <= t /\ c.last_update <= t
      BY <1>0, <1>4, <1>5, LimiterNumbers
    <3>2. Level(b, t) = b.tokens
      <4>1. t # 0 /\ t \in Nat
        BY <1>0
      <4> QED BY <1>4, <4>1, LevelNow
    <3>3. Level(c, t) = c.tokens
      <4>1. c \in LimiterBucket /\ c.last_update = t /\ t # 0 /\ t \in Nat
        BY <1>0, <1>5
      <4> QED BY <3>1, <4>1, LevelNow
    <3> QED BY <1>5, <3>2, <3>3
  <2>2. ASSUME NEW s \in 1..t
        PROVE  Minute * (more[t] - more[s - 1]) + Level(c, t) <= Full + (t - s) * PerMinute
    <3>1. PICK x : x = al[t] - al[s - 1]
      OBVIOUS
    <3>2. x \in Nat /\ more[t] - more[s - 1] = x + 1
      <4>1. al[s - 1] <= al[t] /\ al[t] \in Nat
        <5>1. s - 1 \in 0..LimiterMaxTime /\ s - 1 <= t
          <6>1. s \in Nat /\ s <= t
            BY <1>0
          <6> QED BY <1>0, <1>2, <6>1
        <5> QED BY <1>0, <1>1, <5>1
      <4> QED BY <1>2, <3>1, <4>1
    <3>3. Minute * (x + 1) = Minute * x + Minute /\ Minute * x \in Nat
      BY <3>2, Products, LimiterNumbers
    <3>4. Minute * x + b.tokens <= Full + (t - s) * PerMinute
      BY <1>4, <2>1, <3>1 DEF Paid
    <3>5. Minute * (more[t] - more[s - 1]) = Minute * x + Minute
      BY <3>2, <3>3
    <3>6. (Minute * x + Minute) + (b.tokens - Minute) = Minute * x + b.tokens
      BY <1>5, <3>3, LimiterNumbers
    <3> QED BY <2>1, <3>4, <3>5, <3>6
  <2> QED BY <2>2 DEF Paid
<1>7. HourCounted(c, more, t)
  <2>1. /\ b.hour_start \in 1..t /\ t - b.hour_start < Hour
        /\ al[t] - al[b.hour_start - 1] = b.this_hour
        /\ \A s \in 1..b.hour_start : b.hour_start - s < Hour => al[b.hour_start - 1] - al[s - 1] <= PerHour
    BY <1>4 DEF HourCounted
  <2>2. \A s \in 1..b.hour_start : s \in 1..t
    BY <1>0, <2>1
  <2>3. more[t] - more[b.hour_start - 1] = b.this_hour + 1
    BY <1>0, <1>1, <1>2, <2>1
  <2>4. b.this_hour + 1 <= PerHour
    BY <1>5, LimiterNumbers
  <2> QED BY <1>2, <1>5, <2>1, <2>2, <2>3, <2>4 DEF HourCounted
<1>8. c.tokens <= Full /\ c.last_update <= t /\ c.last_update # 0
  BY <1>0, <1>4, <1>5, LimiterNumbers
<1> QED BY <1>3, <1>5, <1>6, <1>7, <1>8 DEF BucketGood

\* A second passes.
LEMMA SecondPasses ==
    ASSUME NEW b, NEW al, NEW t, History(al, t), BucketGood(b, al, t), t < LimiterMaxTime
    PROVE  History(al, t + 1) /\ BucketGood(b, al, t + 1)
<1>0. t \in Nat /\ t > 0 /\ t \in 0..LimiterMaxTime /\ t + 1 \in 1..LimiterMaxTime /\ t + 1 \in 0..LimiterMaxTime
  BY LimiterNumbers DEF History
<1>1. /\ \A u \in 0..LimiterMaxTime : al[u] \in Nat
      /\ \A u \in 0..LimiterMaxTime : u >= t => al[u] = al[t]
  BY DEF History
<1>2. al[t + 1] = al[t] /\ al[t] \in Nat
  BY <1>0, <1>1
<1>3. History(al, t + 1)
  <2>1. \A u \in 0..LimiterMaxTime : u >= t + 1 => al[u] = al[t + 1]
    BY <1>0, <1>1, <1>2
  <2> QED BY <1>0, <2>1 DEF History
<1>4. /\ b \in LimiterBucket /\ b.last_update <= t /\ Paid(b, al, t) /\ b.tokens <= Full
      /\ b.last_update \in Nat
  BY DEF BucketGood, LimiterBucket
<1>5. Paid(b, al, t + 1)
  <2>1. /\ Level(b, t + 1) <= Level(b, t) + PerMinute /\ Level(b, t) \in Nat
        /\ Level(b, t + 1) \in Nat /\ Level(b, t + 1) <= Full
    BY <1>0, <1>4, LevelFacts
  <2>2. ASSUME NEW s \in 1..(t + 1)
        PROVE  Minute * (al[t + 1] - al[s - 1]) + Level(b, t + 1) <= Full + ((t + 1) - s) * PerMinute
    <3>1. CASE s = t + 1
      <4>1. al[t + 1] - al[s - 1] = 0 /\ (t + 1) - s = 0
        BY <1>0, <1>2, <3>1
      <4>2. Minute * 0 = 0 /\ 0 * PerMinute = 0
        BY LimiterNumbers
      <4> QED BY <2>1, <4>1, <4>2, LimiterNumbers
    <3>2. CASE s # t + 1
      <4>1. s \in 1..t /\ t - s \in Nat /\ (t + 1) - s = (t - s) + 1
        BY <1>0, <3>2
      <4>2. ((t - s) + 1) * PerMinute = (t - s) * PerMinute + PerMinute /\ (t - s) * PerMinute \in Nat
        BY <4>1, Products, LimiterNumbers
      <4>3. Minute * (al[t] - al[s - 1]) + Level(b, t) <= Full + (t - s) * PerMinute
        BY <1>4, <4>1 DEF Paid
      <4>4. Minute * (al[t] - al[s - 1]) \in Int
        <5>1. s - 1 \in 0..LimiterMaxTime
          BY <1>0, <4>1, LimiterNumbers
        <5> QED BY <1>1, <1>2, <5>1, LimiterNumbers
      <4>5. PICK x, y : x = Minute * (al[t] - al[s - 1]) /\ y = (t - s) * PerMinute
        OBVIOUS
      <4>6. x + Level(b, t + 1) <= Full + (y + PerMinute)
        BY <2>1, <4>2, <4>3, <4>4, <4>5, LimiterNumbers
      <4> QED BY <1>2, <4>1, <4>2, <4>5, <4>6
    <3> QED BY <3>1, <3>2
  <2> QED BY <2>2 DEF Paid
<1>6. CASE b.last_update = 0
  <2>1. b.this_hour = 0 /\ HourQuiet(al, t)
    BY <1>6 DEF BucketGood
  <2>2. ASSUME NEW s \in 1..(t + 1), (t + 1) - s < Hour PROVE al[t + 1] = al[s - 1]
    <3>1. CASE s = t + 1
      BY <1>0, <1>2, <3>1
    <3>2. CASE s # t + 1
      <4>1. s \in 1..t /\ t - s < Hour
        BY <1>0, <2>2, <3>2, LimiterNumbers
      <4> QED BY <1>2, <2>1, <4>1 DEF HourQuiet
    <3> QED BY <3>1, <3>2
  <2>3. HourQuiet(al, t + 1)
    BY <2>2 DEF HourQuiet
  <2>4. b.last_update <= t + 1
    BY <1>0, <1>4
  <2> QED BY <1>3, <1>4, <1>5, <1>6, <2>1, <2>3, <2>4 DEF BucketGood
<1>7. CASE b.last_update # 0
  <2>1. HourCounted(b, al, t)
    BY <1>7 DEF BucketGood
  <2>2. HourCounted(b, al, t + 1)
    BY <1>2, <2>1 DEF HourCounted
  <2>3. b.last_update <= t + 1
    BY <1>0, <1>4
  <2> QED BY <1>3, <1>4, <1>5, <1>7, <2>2, <2>3 DEF BucketGood
<1> QED BY <1>6, <1>7

LEMMA NewBucket ==
    /\ L!TokenBucket \in LimiterBucket /\ L!TokenBucket.tokens = 0
    /\ L!TokenBucket.last_update = 0 /\ L!TokenBucket.this_hour = 0
    /\ \A t : Level(L!TokenBucket, t) = Full
BY DEF L!TokenBucket, LimiterBucket, Level

\* Forgetting a stale bucket: it had filled up, and its hour is long over.
LEMMA StaleForgotten ==
    ASSUME NEW b, NEW al, NEW t, History(al, t), BucketGood(b, al, t), t - b.last_update > Stale
    PROVE  BucketGood(L!TokenBucket, al, t)
<1>0. t \in Nat /\ t > 0 /\ t \in 0..LimiterMaxTime /\ t \in 1..LimiterMaxTime
  BY LimiterNumbers DEF History
<1>1. /\ \A u \in 0..LimiterMaxTime : al[u] \in Nat
      /\ \A u, v \in 0..LimiterMaxTime : u <= v => al[u] <= al[v]
  BY DEF History
<1>2. /\ b \in LimiterBucket /\ b.last_update <= t /\ Paid(b, al, t) /\ b.tokens <= Full
      /\ b.last_update \in Nat
  BY DEF BucketGood, LimiterBucket
<1>3. Level(b, t) = Full
  <2>1. CASE b.last_update = 0
    BY <2>1 DEF Level
  <2>2. CASE b.last_update # 0
    <3>1. t - b.last_update >= Stale
      BY <1>0, <1>2, LimiterNumbers
    <3> QED BY <1>0, <1>2, <2>2, <3>1, LevelFacts
  <2> QED BY <2>1, <2>2
<1>4. Paid(L!TokenBucket, al, t)
  BY <1>2, <1>3, NewBucket DEF Paid
<1>5. HourQuiet(al, t)
  <2>1. CASE b.last_update = 0
    BY <2>1 DEF BucketGood
  <2>2. CASE b.last_update # 0
    <3>1. al[b.last_update] = al[t]
      BY <2>2 DEF BucketGood, HourCounted
    <3>2. ASSUME NEW s \in 1..t, t - s < Hour PROVE al[t] = al[s - 1]
      <4>1. b.last_update \in 0..LimiterMaxTime /\ s - 1 \in 0..LimiterMaxTime
            /\ b.last_update <= s - 1 /\ s - 1 <= t
        BY <1>0, <1>2, <3>2, LimiterNumbers
      <4>2. al[b.last_update] <= al[s - 1] /\ al[s - 1] <= al[t] /\ al[s - 1] \in Nat /\ al[t] \in Nat
        BY <1>0, <1>1, <4>1
      <4> QED BY <3>1, <4>2
    <3> QED BY <3>2 DEF HourQuiet
  <2> QED BY <2>1, <2>2
<1>6. L!TokenBucket.last_update <= t /\ L!TokenBucket.tokens <= Full
  BY <1>0, NewBucket, LimiterNumbers
<1> QED BY <1>4, <1>5, <1>6, NewBucket DEF BucketGood

\* Before anything was let through.
LEMMA NothingAllowed ==
    ASSUME NEW t \in 1..LimiterMaxTime, NEW al, al = [u \in 0..LimiterMaxTime |-> 0]
    PROVE  History(al, t) /\ BucketGood(L!TokenBucket, al, t)
<1>0. t \in Nat /\ t > 0 /\ t \in 0..LimiterMaxTime
  BY LimiterNumbers
<1>1. /\ \A u \in 0..LimiterMaxTime : al[u] = 0
      /\ \A s \in 1..t : s - 1 \in 0..LimiterMaxTime /\ t - s \in Nat
  BY <1>0, LimiterNumbers
<1>2. History(al, t)
  BY <1>0, <1>1 DEF History
<1>3. Paid(L!TokenBucket, al, t)
  <2>1. ASSUME NEW s \in 1..t
        PROVE  Minute * (al[t] - al[s - 1]) + Full <= Full + (t - s) * PerMinute
    <3>1. Minute * (al[t] - al[s - 1]) = 0
      BY <1>0, <1>1, LimiterNumbers
    <3>2. (t - s) * PerMinute \in Nat
      BY <1>1, Products, LimiterNumbers
    <3> QED BY <3>1, <3>2, LimiterNumbers
  <2> QED BY <2>1, NewBucket DEF Paid
<1>4. HourQuiet(al, t)
  BY <1>0, <1>1 DEF HourQuiet
<1>5. L!TokenBucket.last_update <= t /\ L!TokenBucket.tokens <= Full
  BY <1>0, NewBucket, LimiterNumbers
<1> QED BY <1>2, <1>3, <1>4, <1>5, NewBucket DEF BucketGood

\* What RateHolds says of the stretches that end at t.
EndHolds(al, t) ==
    \A s \in 1..t :
        /\ Minute * (al[t] - al[s - 1]) <= Full + (t - s) * PerMinute
        /\ t - s < Hour => al[t] - al[s - 1] <= 2 * PerHour

\* A good bucket vouches for every stretch that ends now: it paid for the
\* requests, and at most two of its hours touch the stretch.
LEMMA BucketVouches ==
    ASSUME NEW b, NEW al, NEW t, History(al, t), BucketGood(b, al, t)
    PROVE  EndHolds(al, t)
<1>0. t \in Nat /\ t > 0 /\ t \in 0..LimiterMaxTime /\ t \in 1..LimiterMaxTime
  BY LimiterNumbers DEF History
<1>1. /\ \A u \in 0..LimiterMaxTime : al[u] \in Nat
      /\ \A u, v \in 0..LimiterMaxTime : u <= v => al[u] <= al[v]
  BY DEF History
<1>2. b \in LimiterBucket /\ b.last_update <= t /\ Paid(b, al, t) /\ b.last_update \in Nat
  BY DEF BucketGood, LimiterBucket
<1>3. ASSUME NEW s \in 1..t
      PROVE  Minute * (al[t] - al[s - 1]) <= Full + (t - s) * PerMinute
  <2>1. Level(b, t) \in Nat
    BY <1>0, <1>2, LevelFacts
  <2>2. s \in Nat /\ s - 1 \in 0..LimiterMaxTime /\ t - s \in Nat
    BY <1>0, LimiterNumbers
  <2>3. al[t] - al[s - 1] \in Int
    BY <1>0, <1>1, <2>2
  <2>4. Minute * (al[t] - al[s - 1]) \in Int /\ (t - s) * PerMinute \in Nat
    BY <2>2, <2>3, Products, LimiterNumbers
  <2>5. PICK x, y : x = Minute * (al[t] - al[s - 1]) /\ y = (t - s) * PerMinute
    OBVIOUS
  <2>6. x + Level(b, t) <= Full + y
    BY <1>2, <2>5 DEF Paid
  <2>7. x <= Full + y
    BY <2>1, <2>4, <2>5, <2>6, LimiterNumbers
  <2> QED BY <2>5, <2>7
<1>4. ASSUME NEW s \in 1..t, t - s < Hour
      PROVE  al[t] - al[s - 1] <= 2 * PerHour
  <2>0. s \in Nat /\ s - 1 \in 0..LimiterMaxTime /\ al[s - 1] \in Nat /\ al[t] \in Nat
    <3>1. s \in Nat /\ s - 1 \in 0..LimiterMaxTime
      BY <1>0, LimiterNumbers
    <3> QED BY <1>0, <1>1, <3>1
  <2>1. CASE b.last_update = 0
    <3>1. al[t] = al[s - 1]
      BY <1>4, <2>1 DEF BucketGood, HourQuiet
    <3> QED BY <2>0, <3>1, LimiterNumbers
  <2>2. CASE b.last_update # 0
    <3>1. PICK h : h = b.hour_start
      OBVIOUS
    <3>2. /\ h \in 1..b.last_update
          /\ al[t] - al[h - 1] <= PerHour
          /\ \A r \in 1..h : h - r < Hour => al[h - 1] - al[r - 1] <= PerHour
      BY <2>2, <3>1 DEF BucketGood, HourCounted
    <3>3. h \in Nat /\ h <= t /\ h - 1 \in 0..LimiterMaxTime
      BY <1>0, <1>2, <3>2, LimiterNumbers
    <3>4. al[h - 1] \in Nat
      BY <1>1, <3>3
    <3>5. CASE h <= s
      <4>1. h - 1 <= s - 1
        BY <2>0, <3>3, <3>5
      <4>2. al[h - 1] <= al[s - 1]
        BY <1>1, <2>0, <3>3, <4>1
      <4> QED BY <2>0, <3>2, <3>4, <4>2, LimiterNumbers
    <3>6. CASE s < h
      <4>1. s \in 1..h /\ h - s < Hour
        BY <1>0, <1>4, <2>0, <3>3, <3>6, LimiterNumbers
      <4>2. al[h - 1] - al[s - 1] <= PerHour
        BY <3>2, <4>1
      <4> QED BY <2>0, <3>2, <3>4, <4>2, LimiterNumbers
    <3> QED BY <2>0, <3>3, <3>5, <3>6
  <2> QED BY <2>1, <2>2
<1> QED BY <1>3, <1>4 DEF EndHolds

LimiterInv ==
    /\ History(allowed, limiter_now)
    /\ BucketGood(bucket, allowed, limiter_now)
    /\ \A t \in 1..limiter_now : EndHolds(allowed, t)

LEMMA LimiterSound == LimiterInv => L!RateHolds
<1> SUFFICES ASSUME LimiterInv, NEW s \in 1..limiter_now, NEW t \in s..limiter_now
             PROVE  /\ Minute * (allowed[t] - allowed[s - 1]) <= Burst * Minute + (t - s) * PerMinute
                    /\ t - s < Hour => allowed[t] - allowed[s - 1] <= 2 * PerHour
  BY DEF L!RateHolds, L!Between
<1>1. limiter_now \in Nat
  BY LimiterNumbers DEF LimiterInv, History
<1>2. t \in 1..limiter_now /\ s \in 1..t
  BY <1>1
<1> QED BY <1>2 DEF LimiterInv, EndHolds, Full

\* What was allowed before now is not touched by a request that passes now.
LEMMA EndsKept ==
    ASSUME NEW al, NEW more, NEW t, t \in 1..LimiterMaxTime,
           \A u \in 0..LimiterMaxTime : u < t => more[u] = al[u],
           \A u \in 1..t : EndHolds(al, u), EndHolds(more, t)
    PROVE  \A u \in 1..t : EndHolds(more, u)
<1> SUFFICES ASSUME NEW u \in 1..t, u # t PROVE EndHolds(more, u)
  OBVIOUS
<1>1. t \in Nat /\ t <= LimiterMaxTime
  BY LimiterNumbers
<1>2. u \in Nat /\ u \in 0..LimiterMaxTime /\ u < t
  BY <1>1, LimiterNumbers
<1>3. more[u] = al[u]
  BY <1>2
<1>4. ASSUME NEW s \in 1..u PROVE more[s - 1] = al[s - 1]
  <2>1. s - 1 \in 0..LimiterMaxTime /\ s - 1 < t
    BY <1>1, <1>2, LimiterNumbers
  <2> QED BY <2>1
<1>5. EndHolds(al, u)
  OBVIOUS
<1> QED BY <1>3, <1>4, <1>5 DEF EndHolds

LEMMA LimiterBegins ==
    ASSUME NEW t \in 1..LimiterMaxTime, NEW al, al = [u \in 0..LimiterMaxTime |-> 0]
    PROVE  /\ History(al, t) /\ BucketGood(L!TokenBucket, al, t)
           /\ \A u \in 1..t : EndHolds(al, u)
<1>1. ASSUME NEW u \in 1..t PROVE EndHolds(al, u)
  <2>1. u \in 1..LimiterMaxTime
    BY LimiterNumbers
  <2> QED BY <2>1, NothingAllowed, BucketVouches
<1> QED BY <1>1, NothingAllowed

LEMMA LimiterStep == LimiterInv /\ L!Next => LimiterInv'
<1> SUFFICES ASSUME LimiterInv, L!Next PROVE LimiterInv' OBVIOUS
<1> USE DEF LimiterInv
<1>0. limiter_now \in 1..LimiterMaxTime /\ limiter_now \in Nat
  BY LimiterNumbers DEF History
<1>1. CASE L!allow_request
  <2>1. PICK b : b = L!Windows(L!refill_tokens(bucket))
    OBVIOUS
  <2>2. BucketGood(b, allowed, limiter_now) /\ b.last_update = limiter_now
    BY <2>1, BucketReady
  <2>3. CASE bucket' = b /\ UNCHANGED <<allowed, limiter_now>>
    BY <2>2, <2>3
  <2>4. CASE /\ b.this_hour < PerHour /\ b.tokens >= Minute
             /\ bucket' = [b EXCEPT !.tokens = @ - Minute, !.this_minute = @ + 1, !.this_hour = @ + 1]
             /\ allowed' = [t \in 0..LimiterMaxTime |->
                              IF t >= limiter_now THEN allowed[t] + 1 ELSE allowed[t]]
             /\ UNCHANGED limiter_now
    <3>1. PICK more : more = [t \in 0..LimiterMaxTime |->
                                IF t >= limiter_now THEN allowed[t] + 1 ELSE allowed[t]]
      OBVIOUS
    <3>2. PICK c : c = [b EXCEPT !.tokens = @ - Minute, !.this_minute = @ + 1, !.this_hour = @ + 1]
      OBVIOUS
    <3>3. History(more, limiter_now) /\ BucketGood(c, more, limiter_now)
      BY <2>2, <2>4, <3>1, <3>2, RequestTaken
    <3>4. EndHolds(more, limiter_now)
      BY <3>3, BucketVouches
    <3>5. \A u \in 0..LimiterMaxTime : u < limiter_now => more[u] = allowed[u]
      <4>1. ASSUME NEW u \in 0..LimiterMaxTime, u < limiter_now PROVE ~(u >= limiter_now)
        BY <1>0, <4>1, LimiterNumbers
      <4> QED BY <3>1, <4>1
    <3>6. \A u \in 1..limiter_now : EndHolds(more, u)
      BY <1>0, <3>4, <3>5, EndsKept
    <3>7. bucket' = c /\ allowed' = more /\ limiter_now' = limiter_now
      BY <2>4, <3>1, <3>2
    <3> QED BY <3>3, <3>6, <3>7
  <2> QED BY <1>1, <2>1, <2>3, <2>4 DEF L!allow_request
<1>2. CASE L!cleanup_stale_entries
  BY <1>2, StaleForgotten DEF L!cleanup_stale_entries
<1>3. CASE L!reset
  <2>1. PICK al : al = [u \in 0..LimiterMaxTime |-> 0]
    OBVIOUS
  <2>2. bucket' = L!TokenBucket /\ allowed' = al /\ limiter_now' = limiter_now
    BY <1>3, <2>1 DEF L!reset
  <2>3. /\ History(al, limiter_now) /\ BucketGood(L!TokenBucket, al, limiter_now)
        /\ \A u \in 1..limiter_now : EndHolds(al, u)
    BY <1>0, <2>1, LimiterBegins
  <2>4. L!TokenBucket' = L!TokenBucket
    BY DEF L!TokenBucket
  <2> QED BY <2>2, <2>3, <2>4
<1>4. CASE L!Tick
  <2>1. limiter_now < LimiterMaxTime /\ limiter_now' = limiter_now + 1 /\ UNCHANGED <<bucket, allowed>>
    BY <1>4 DEF L!Tick
  <2>2. History(allowed, limiter_now + 1) /\ BucketGood(bucket, allowed, limiter_now + 1)
    BY <2>1, SecondPasses
  <2>3. EndHolds(allowed, limiter_now + 1)
    BY <2>2, BucketVouches
  <2>4. ASSUME NEW u \in 1..(limiter_now + 1) PROVE EndHolds(allowed, u)
    <3>1. u \in 1..limiter_now \/ u = limiter_now + 1
      BY <1>0
    <3> QED BY <2>3, <3>1
  <2> QED BY <2>1, <2>2, <2>4
<1> QED BY <1>1, <1>2, <1>3, <1>4 DEF L!Next

\* No stretch of time sees more requests pass the RateLimiter than a burst and
\* the rate pay for, and no stretch of an hour more than two windows hold: a
\* bucket that goes stale and is forgotten had filled up by itself, and was
\* quiet for more than the hour it forgets.
THEOREM RateHoldsAlways == SecuritySpec => []RateHolds
<1> DEFINE I == part = "limiter" => LimiterInv
<1>1. SecurityInit => I
  <2> SUFFICES ASSUME L!Init PROVE LimiterInv
    BY DEF SecurityInit
  <2>1. limiter_now \in 1..LimiterMaxTime
    BY LimiterNumbers DEF L!Init
  <2> QED BY <2>1, LimiterBegins DEF L!Init, LimiterInv
<1>2. I /\ [SecurityNext]_all_vars => I'
  <2> SUFFICES ASSUME I, [SecurityNext]_all_vars PROVE I' OBVIOUS
  <2>1. CASE part = "limiter" /\ L!Next /\ part' = part
    BY <2>1, LimiterStep
  <2>2. CASE part' = part /\ UNCHANGED L_vars
    BY <2>2 DEF L_vars, LimiterInv
  <2> QED BY <2>1, <2>2 DEF SecurityNext, all_vars
<1>3. I => RateHolds
  BY LimiterSound DEF RateHolds
<1> QED BY <1>1, <1>2, <1>3, PTL DEF SecuritySpec


-----------------------------------------------------------------------------
(* SybilDefense *)

Searched == Y!Range(Nodes)

\* What holds of a search that has given the first k nodes their turn.
SearchGood(acc, k) ==
    /\ acc.consumed \subseteq Searched
    /\ \A g \in acc.groups :
          /\ g \subseteq acc.consumed /\ Cardinality(g) >= 2
          /\ \E seed \in g : \A m \in g \ {seed} : Y!Similar(seed, m)
    /\ \A g, h \in acc.groups : g # h => g \cap h = {}
    /\ \A n \in acc.consumed, m \in Searched :
          n # m /\ Y!Similar(n, m) => n \in UNION acc.groups \/ m \in UNION acc.groups
    /\ \A i \in 1..k : activity_log[Nodes[i]] # <<>> => Nodes[i] \in acc.consumed

LEMMA SearchedFacts ==
    /\ Nodes \in Seq(Searched) /\ Len(Nodes) \in Nat
    /\ \A n \in Searched : \E i \in 1..Len(Nodes) : n = Nodes[i]
    /\ \A i \in 1..Len(Nodes) : Nodes[i] \in Searched
    /\ IsFiniteSet(Searched)
<1>1. Searched = {Nodes[i] : i \in DOMAIN Nodes}
  BY DEF Searched, Y!Range
<1>2. Nodes \in Seq(Searched)
  BY <1>1, SearchAssumption
<1>3. Len(Nodes) \in Nat /\ DOMAIN Nodes = 1..Len(Nodes)
  BY <1>2
<1>4. IsFiniteSet(1..Len(Nodes))
  BY <1>3, FS_Interval
<1>5. Nodes \in Surjection(1..Len(Nodes), Searched)
  BY <1>1, <1>2, <1>3 DEF Surjection
<1>6. IsFiniteSet(Searched)
  BY <1>4, <1>5, FS_Surjection
<1> QED BY <1>1, <1>2, <1>3, <1>6

LEMMA SimilarFacts ==
    ASSUME activity_log \in [Searched -> Seq(Activity)], NEW n \in Searched, NEW m \in Searched,
           Y!Similar(n, m)
    PROVE  Y!Similar(m, n) /\ activity_log[n] # <<>>
<1>1. PICK a, b : a = activity_log[n] /\ b = activity_log[m] /\ a \in Seq(Activity) /\ b \in Seq(Activity)
  OBVIOUS
<1>2. Len(a) \in Nat /\ Len(b) \in Nat
  BY <1>1
<1>3. /\ Y!Overlap(n, m) = IF Len(a) < Len(b) THEN Len(a) ELSE Len(b)
      /\ Y!Overlap(m, n) = IF Len(b) < Len(a) THEN Len(b) ELSE Len(a)
  BY <1>1 DEF Y!Overlap
<1>4. Y!Overlap(m, n) = Y!Overlap(n, m)
  BY <1>2, <1>3
<1>5. Y!Same(m, n) = Y!Same(n, m)
  <2>1. PICK o : o = Y!Overlap(n, m) /\ o = Y!Overlap(m, n)
    BY <1>4
  <2>2. Y!Same(n, m) = Y!Cardinality({i \in 0..(o - 1) : a[Len(a) - i] = b[Len(b) - i]})
    BY <1>1, <2>1 DEF Y!Same
  <2>3. Y!Same(m, n) = Y!Cardinality({i \in 0..(o - 1) : b[Len(b) - i] = a[Len(a) - i]})
    BY <1>1, <2>1 DEF Y!Same
  <2>4. {i \in 0..(o - 1) : b[Len(b) - i] = a[Len(a) - i]} = {i \in 0..(o - 1) : a[Len(a) - i] = b[Len(b) - i]}
    OBVIOUS
  <2> QED BY <2>2, <2>3, <2>4
<1>6. Y!Similar(m, n)
  BY <1>4, <1>5 DEF Y!Similar
<1>7. Len(a) >= 3
  BY <1>2, <1>3 DEF Y!Similar
<1>8. a # <<>>
  BY <1>7
<1> QED BY <1>1, <1>6, <1>8

\* The turn of one node.
LEMMA GatherGood ==
    ASSUME activity_log \in [Searched -> Seq(Activity)], NEW k \in 1..Len(Nodes), NEW acc,
           SearchGood(acc, k - 1), NEW new, new = Y!Gather(acc, Nodes[k])
    PROVE  SearchGood(new, k)
<1>0. PICK n : n = Nodes[k] /\ n \in Searched
  BY SearchedFacts
<1>1. PICK cluster : cluster = {n} \cup {m \in Searched \ (acc.consumed \cup {n}) : Y!Similar(n, m)}
  OBVIOUS
<1>2. new = IF n \in acc.consumed \/ activity_log[n] = <<>> THEN acc
            ELSE [consumed |-> acc.consumed \cup cluster,
                  groups |-> IF Y!Cardinality(cluster) >= 2 THEN acc.groups \cup {cluster} ELSE acc.groups]
  BY <1>0, <1>1 DEF Y!Gather, Searched
<1>3. /\ acc.consumed \subseteq Searched
      /\ \A g \in acc.groups :
            /\ g \subseteq acc.consumed /\ Cardinality(g) >= 2
            /\ \E seed \in g : \A m \in g \ {seed} : Y!Similar(seed, m)
      /\ \A g, h \in acc.groups : g # h => g \cap h = {}
      /\ \A x \in acc.consumed, m \in Searched :
            x # m /\ Y!Similar(x, m) => x \in UNION acc.groups \/ m \in UNION acc.groups
      /\ \A i \in 1..(k - 1) : activity_log[Nodes[i]] # <<>> => Nodes[i] \in acc.consumed
  BY DEF SearchGood
<1>4. \A i \in 1..k : i \in 1..(k - 1) \/ i = k
  BY SearchedFacts
<1>5. CASE n \in acc.consumed \/ activity_log[n] = <<>>
  <2>1. new = acc
    BY <1>2, <1>5
  <2>2. \A i \in 1..k : activity_log[Nodes[i]] # <<>> => Nodes[i] \in acc.consumed
    BY <1>0, <1>3, <1>4, <1>5
  <2> QED BY <1>3, <2>1, <2>2 DEF SearchGood
<1>6. CASE n \notin acc.consumed /\ activity_log[n] # <<>>
  <2>1. new.consumed = acc.consumed \cup cluster
    BY <1>2, <1>6
  <2>2. /\ n \in cluster /\ cluster \subseteq Searched /\ cluster \cap acc.consumed = {}
        /\ \A m \in cluster \ {n} : Y!Similar(n, m)
        /\ \A m \in Searched : m # n /\ Y!Similar(n, m) => m \in acc.consumed \/ m \in cluster
    BY <1>0, <1>1, <1>6
  <2>3. new.consumed \subseteq Searched
    BY <1>3, <2>1, <2>2
  <2>4. ASSUME NEW i \in 1..k, activity_log[Nodes[i]] # <<>> PROVE Nodes[i] \in new.consumed
    BY <1>0, <1>3, <1>4, <2>1, <2>2, <2>4
  <2>5. CASE Cardinality(cluster) >= 2
    <3>1. new.groups = acc.groups \cup {cluster}
      <4>1. Y!Cardinality(cluster) >= 2
        BY <2>5 DEF Y!Cardinality, Cardinality
      <4> QED BY <1>2, <1>6, <4>1
    <3>2. ASSUME NEW g \in new.groups
          PROVE  /\ g \subseteq new.consumed /\ Cardinality(g) >= 2
                 /\ \E seed \in g : \A m \in g \ {seed} : Y!Similar(seed, m)
      <4>1. CASE g = cluster
        BY <2>1, <2>2, <2>5, <4>1
      <4>2. CASE g \in acc.groups
        BY <1>3, <2>1, <4>2
      <4> QED BY <3>1, <3>2, <4>1, <4>2
    <3>3. ASSUME NEW g \in new.groups, NEW h \in new.groups, g # h PROVE g \cap h = {}
      <4>1. \A d \in acc.groups : d \cap cluster = {}
        BY <1>3, <2>2
      <4> QED BY <1>3, <3>1, <3>3, <4>1
    <3>4. ASSUME NEW x \in new.consumed, NEW m \in Searched, x # m, Y!Similar(x, m)
          PROVE  x \in UNION new.groups \/ m \in UNION new.groups
      <4>1. CASE x \in cluster
        BY <3>1, <4>1
      <4>2. CASE x \in acc.consumed
        BY <1>3, <3>1, <3>4, <4>2
      <4> QED BY <2>1, <4>1, <4>2
    <3> QED BY <2>3, <2>4, <3>2, <3>3, <3>4 DEF SearchGood
  <2>6. CASE ~(Cardinality(cluster) >= 2)
    <3>1. new.groups = acc.groups
      <4>1. ~(Y!Cardinality(cluster) >= 2)
        BY <2>6 DEF Y!Cardinality, Cardinality
      <4> QED BY <1>2, <1>6, <4>1
    <3>2. cluster = {n}
      <4>1. IsFiniteSet(cluster)
        BY <2>2, SearchedFacts, FS_Subset
      <4>2. ASSUME NEW m \in cluster, m # n PROVE FALSE
        <5>1. Cardinality(cluster) > 1 /\ Cardinality(cluster) \in Nat
          BY <2>2, <4>1, <4>2, TwoElements, FS_CardinalityType
        <5> QED BY <2>6, <5>1
      <4> QED BY <2>2, <4>2
    <3>3. ASSUME NEW x \in new.consumed, NEW m \in Searched, x # m, Y!Similar(x, m)
          PROVE  x \in UNION new.groups \/ m \in UNION new.groups
      <4>1. CASE x \in acc.consumed
        BY <1>3, <3>1, <3>3, <4>1
      <4>2. CASE x = n
        <5>1. m \in acc.consumed
          BY <2>2, <3>2, <3>3, <4>2
        <5>2. Y!Similar(m, n)
          BY <1>0, <3>3, <4>2, SimilarFacts
        <5> QED BY <1>0, <1>3, <3>1, <3>3, <4>2, <5>1, <5>2
      <4> QED BY <2>1, <3>2, <4>1, <4>2
    <3>4. \A g \in acc.groups : g \subseteq new.consumed
      BY <1>3, <2>1
    <3> QED BY <1>3, <2>3, <2>4, <3>1, <3>3, <3>4 DEF SearchGood
  <2> QED BY <2>5, <2>6
<1> QED BY <1>5, <1>6

\* What the search has found after each of the first k nodes.
SearchRun(f, k) ==
    f = [i \in 0..k |-> IF i = 0 THEN [consumed |-> {}, groups |-> {}] ELSE Y!Gather(f[i - 1], Nodes[i])]

LEMMA SearchRunExists == \E f : SearchRun(f, Len(Nodes))
<1> DEFINE Z == {k \in 0..Len(Nodes) : ~ \E f : SearchRun(f, k)}
<1>0. Len(Nodes) \in Nat
  BY SearchedFacts
<1>1. SUFFICES ASSUME Z # {} PROVE FALSE
  BY <1>0
<1>2. Z \in SUBSET Nat
  BY <1>0
<1>3. PICK k \in Z : \A j \in Z : k <= j
  <2> HIDE DEF Z
  <2> QED BY <1>1, <1>2, LeastNumber
<1>4. k # 0
  <2>1. SearchRun([i \in 0..0 |-> [consumed |-> {}, groups |-> {}]], 0)
    BY DEF SearchRun
  <2> QED BY <2>1
<1>5. k - 1 \in 0..Len(Nodes) /\ k \in 1..Len(Nodes)
  BY <1>0, <1>4
<1>6. PICK f : SearchRun(f, k - 1)
  BY <1>3, <1>5
<1>7. f = [i \in 0..(k - 1) |->
             IF i = 0 THEN [consumed |-> {}, groups |-> {}] ELSE Y!Gather(f[i - 1], Nodes[i])]
  BY <1>6 DEF SearchRun
<1> DEFINE new == Y!Gather(f[k - 1], Nodes[k])
           g == [i \in 0..k |-> IF i = k THEN new ELSE f[i]]
<1>8. ASSUME NEW i \in 0..k
      PROVE  g[i] = IF i = 0 THEN [consumed |-> {}, groups |-> {}] ELSE Y!Gather(g[i - 1], Nodes[i])
  <2>1. CASE i = k
    <3>1. g[k - 1] = f[k - 1] /\ g[k] = new
      BY <1>5
    <3> QED BY <1>4, <2>1, <3>1
  <2>2. CASE i # k
    <3>1. g[i] = f[i] /\ i \in 0..(k - 1) /\ (i # 0 => g[i - 1] = f[i - 1])
      BY <1>5, <2>2
    <3>2. f[i] = IF i = 0 THEN [consumed |-> {}, groups |-> {}] ELSE Y!Gather(f[i - 1], Nodes[i])
      BY <1>7, <3>1
    <3> QED BY <3>1, <3>2
  <2> QED BY <2>1, <2>2
<1>9. g = [i \in 0..k |-> g[i]]
  OBVIOUS
<1> HIDE DEF g, new
<1>10. SearchRun(g, k)
  BY <1>8, <1>9 DEF SearchRun
<1> QED BY <1>10

\* The whole search.
LEMMA SearchEndsGood ==
    ASSUME activity_log \in [Searched -> Seq(Activity)]
    PROVE  \E acc : SearchGood(acc, Len(Nodes)) /\ Y!detect_sybil_groups = acc.groups
<1> DEFINE f == CHOOSE h : SearchRun(h, Len(Nodes))
           Z == {k \in 0..Len(Nodes) : ~SearchGood(f[k], k)}
<1>0. Len(Nodes) \in Nat
  BY SearchedFacts
<1>1. SearchRun(f, Len(Nodes))
  BY SearchRunExists
<1>2. Y!detect_sybil_groups = f[Len(Nodes)].groups
  BY DEF Y!detect_sybil_groups, SearchRun
<1> HIDE DEF f
<1>3. ASSUME Z # {} PROVE FALSE
  <2>1. Z \in SUBSET Nat
    BY <1>0
  <2>2. PICK k \in Z : \A j \in Z : k <= j
    <3> HIDE DEF Z
    <3> QED BY <1>3, <2>1, LeastNumber
  <2>3. f[k] = IF k = 0 THEN [consumed |-> {}, groups |-> {}] ELSE Y!Gather(f[k - 1], Nodes[k])
    BY <1>1 DEF SearchRun
  <2>4. k # 0
    <3>1. SearchGood([consumed |-> {}, groups |-> {}], 0)
      BY DEF SearchGood
    <3> QED BY <2>2, <2>3, <3>1
  <2>5. k \in 1..Len(Nodes) /\ k - 1 \in 0..Len(Nodes) /\ ~(k <= k - 1)
    BY <1>0, <2>4
  <2>6. SearchGood(f[k - 1], k - 1)
    BY <2>2, <2>5
  <2>7. SearchGood(f[k], k)
    BY <2>3, <2>4, <2>5, <2>6, GatherGood
  <2> QED BY <2>2, <2>7
<1>4. Len(Nodes) \in 0..Len(Nodes)
  BY <1>0
<1> QED BY <1>2, <1>3, <1>4

LEMMA GroupsFound ==
    ASSUME activity_log \in [Searched -> Seq(Activity)]
    PROVE  Y!GroupsSound
<1>1. PICK acc, groups : /\ SearchGood(acc, Len(Nodes)) /\ groups = Y!detect_sybil_groups
                         /\ groups = acc.groups
  BY SearchEndsGood
<1>2. \A g, h \in groups : g # h => g \cap h = {}
  BY <1>1 DEF SearchGood
<1>3. ASSUME NEW g \in groups
      PROVE  Y!Cardinality(g) >= 2 /\ \E seed \in g : \A m \in g \ {seed} : Y!Similar(seed, m)
  <2>1. Cardinality(g) >= 2 /\ \E seed \in g : \A m \in g \ {seed} : Y!Similar(seed, m)
    BY <1>1 DEF SearchGood
  <2> QED BY <2>1 DEF Y!Cardinality, Cardinality
<1>4. ASSUME NEW n \in Searched, NEW m \in Searched, n # m, Y!Similar(n, m)
      PROVE  {n, m} \cap UNION groups # {}
  <2>1. activity_log[n] # <<>>
    BY <1>4, SimilarFacts
  <2>2. n \in acc.consumed
    <3>1. PICK i \in 1..Len(Nodes) : n = Nodes[i]
      BY SearchedFacts
    <3>2. \A j \in 1..Len(Nodes) : activity_log[Nodes[j]] # <<>> => Nodes[j] \in acc.consumed
      BY <1>1 DEF SearchGood
    <3> QED BY <2>1, <3>1, <3>2
  <2> QED BY <1>1, <1>4, <2>2 DEF SearchGood
<1> QED BY <1>1, <1>2, <1>3, <1>4 DEF Y!GroupsSound, Searched

\* Whatever nodes recorded, the groups detect_sybil_groups finds are disjoint
\* and of at least two, each is similar to one member, and no similar pair is
\* left out altogether: a node whose turn finds nobody left had its likes taken
\* by earlier groups.
THEOREM GroupsSoundHolds == SecuritySpec => []GroupsSound
<1> DEFINE I == part = "sybil" => activity_log \in [Searched -> Seq(Activity)]
<1>1. SecurityInit => I
  <2>1. <<>> \in Seq(Activity)
    OBVIOUS
  <2> QED BY <2>1 DEF SecurityInit, Y!Init, Searched
<1>2. I /\ [SecurityNext]_all_vars => I'
  <2> SUFFICES ASSUME I, [SecurityNext]_all_vars PROVE I' OBVIOUS
  <2>1. CASE part = "sybil" /\ Y!Next /\ part' = part
    <3>1. PICK n \in Searched, activity \in Activity : Y!record_node_activity(n, activity)
      BY <2>1 DEF Y!Next, Searched
    <3>2. PICK entry : entry = Append(activity_log[n], activity)
      OBVIOUS
    <3>3. entry \in Seq(Activity) /\ entry # <<>>
      BY <2>1, <3>2
    <3>4. Tail(entry) \in Seq(Activity)
      BY <3>3
    <3>5. activity_log' = [activity_log EXCEPT ![n] = IF Len(entry) > MaxLog THEN Tail(entry) ELSE entry]
      BY <3>1, <3>2 DEF Y!record_node_activity
    <3>6. Searched' = Searched
      BY DEF Searched, Y!Range
    <3> QED BY <2>1, <3>3, <3>4, <3>5, <3>6
  <2>2. CASE part' = part /\ UNCHANGED Y_vars
    BY <2>2 DEF Y_vars, Searched, Y!Range
  <2> QED BY <2>1, <2>2 DEF SecurityNext, all_vars
<1>3. I => GroupsSound
  BY GroupsFound DEF GroupsSound
<1> QED BY <1>1, <1>2, <1>3, PTL DEF SecuritySpec
=============================================================================
