-------------------------------- MODULE Keys --------------------------------
(***************************************************************************)
(* KeyManager of core/keys/key.cpp, called by several threads.             *)
(*                                                                         *)
(* Every method takes the mutex by itself, but execute_transfer and        *)
(* execute_vouch are sequences of such methods, and other threads come in  *)
(* between: their steps are separate actions.  A signed transfer or vouch  *)
(* is a paper that can be executed again, by anybody, at any time.         *)
(* A key is its nonce; the counter is atomic and never repeats in one      *)
(* process.  The epoch of vouch_counts_this_epoch_ never ends: nothing     *)
(* clears it.                                                              *)
(***************************************************************************)
EXTENDS Integers, FiniteSetsExt

CONSTANTS
    Node,
    KeyType,
    Thread,
    KeyCount,        \* key_count of a vouch
    MaxVouch,        \* MAX_VOUCH_PER_EPOCH (3)
    MaxKeys,         \* bound: keys ever created
    MaxPapers        \* bound: transfers and vouches ever signed

ASSUME KeysAssumption ==
    /\ MaxVouch \in Nat /\ MaxKeys \in Nat /\ MaxPapers \in Nat
    /\ KeyCount \subseteq Nat
    /\ IsFiniteSet(Thread)

VARIABLES
    keys,            \* keys_: set of [nonce, owner, type]
    key_index,       \* key_index_: key_index[n] is the set of nonces of n
    nonce,           \* key_nonce_counter
    papers,          \* transfers and vouches signed
    vouch_counts,    \* vouch_counts_this_epoch_
    pc,              \* pc[t]: what thread t has done of a call
    minted,          \* keys issued or vouched for so far (history)
    retired          \* keys removed by remove_key so far (history)

vars == <<keys, key_index, nonce, papers, vouch_counts, pc, minted, retired>>

Idle == [at |-> "idle"]

Nonces == {k.nonce : k \in keys}

\* Key::create and add_key.
Created(type, owner) ==
    /\ nonce < MaxKeys
    /\ nonce' = nonce + 1
    /\ keys' = keys \cup {[nonce |-> nonce, owner |-> owner, type |-> type]}
    /\ key_index' = [key_index EXCEPT ![owner] = @ \cup {nonce}]

\* Mutant: the index keeps the id.
WithoutKeepsIndex(id) ==
    /\ keys' = {k \in keys : k.nonce # id}
    /\ UNCHANGED key_index

\* The map and the index, in one critical section.
Without(id) ==
    /\ keys' = {k \in keys : k.nonce # id}
    /\ key_index' = [n \in Node |-> key_index[n] \ {id}]

count_keys(n, type) ==
    Cardinality({k \in keys : k.nonce \in key_index[n] /\ k.type = type})

can_vouch(voucher, vouchee) ==
    /\ voucher # vouchee
    /\ vouch_counts[voucher] < MaxVouch

-----------------------------------------------------------------------------
(* Actions *)

Init ==
    /\ keys = {}
    /\ key_index = [n \in Node |-> {}]
    /\ nonce = 0
    /\ papers = {}
    /\ vouch_counts = [n \in Node |-> 0]
    /\ pc = [t \in Thread |-> Idle]
    /\ minted = 0
    /\ retired = 0

add_key(n, type) ==
    /\ Created(type, n)
    /\ minted' = minted + 1
    /\ UNCHANGED <<papers, vouch_counts, pc, retired>>

remove_key(id) ==
    /\ Without(id)
    /\ retired' = retired + 1
    /\ UNCHANGED <<nonce, papers, vouch_counts, pc, minted>>

\* MIN_KEYS_TO_TRANSFER is 1, so the owner of a key always has enough.
create_transfer(k, to) ==
    /\ Cardinality(papers) < MaxPapers
    /\ count_keys(k.owner, k.type) >= 1
    /\ papers' = papers \cup {[kind |-> "transfer", key |-> k.nonce, from |-> k.owner, to |-> to,
                               type |-> k.type]}
    /\ UNCHANGED <<keys, key_index, nonce, vouch_counts, pc, minted, retired>>

create_vouch(voucher, vouchee, type, count) ==
    /\ Cardinality(papers) < MaxPapers
    /\ can_vouch(voucher, vouchee)
    /\ papers' = papers \cup {[kind |-> "vouch", from |-> voucher, to |-> vouchee, type |-> type,
                               count |-> count]}
    /\ UNCHANGED <<keys, key_index, nonce, vouch_counts, pc, minted, retired>>

\* execute_transfer: get_key, and the key belongs to the sender.
TransferCheck(t, p) ==
    /\ pc[t] = Idle
    /\ p.kind = "transfer"
    /\ \E k \in keys : k.nonce = p.key /\ k.owner = p.from
    /\ pc' = [pc EXCEPT ![t] = [at |-> "remove", paper |-> p]]
    /\ UNCHANGED <<keys, key_index, nonce, papers, vouch_counts, minted, retired>>

\* Mutant: the result of remove_key is not looked at.
TransferRemoveUnchecked(t) ==
    /\ pc[t].at = "remove"
    /\ Without(pc[t].paper.key)
    /\ pc' = [pc EXCEPT ![t].at = "add"]
    /\ UNCHANGED <<nonce, papers, vouch_counts, minted, retired>>

\* remove_key fails if another thread was first, and the transfer with it.
TransferRemove(t) ==
    /\ pc[t].at = "remove"
    /\ Without(pc[t].paper.key)
    /\ pc' = [pc EXCEPT ![t] = IF pc[t].paper.key \in Nonces THEN [@ EXCEPT !.at = "add"] ELSE Idle]
    /\ UNCHANGED <<nonce, papers, vouch_counts, minted, retired>>

\* The new key; transfer_history_ is appended to without the mutex and left
\* out.
TransferAdd(t) ==
    /\ pc[t].at = "add"
    /\ Created(pc[t].paper.type, pc[t].paper.to)
    /\ pc' = [pc EXCEPT ![t] = Idle]
    /\ UNCHANGED <<papers, vouch_counts, minted, retired>>

\* execute_vouch: no test of the limit, which create_vouch made earlier.
VouchStart(t, p) ==
    /\ pc[t] = Idle
    /\ p.kind = "vouch"
    /\ pc' = [pc EXCEPT ![t] = [at |-> "vouch", paper |-> p, left |-> p.count]]
    /\ UNCHANGED <<keys, key_index, nonce, papers, vouch_counts, minted, retired>>

VouchAdd(t) ==
    /\ pc[t].at = "vouch"
    /\ pc[t].left > 0
    /\ Created(pc[t].paper.type, pc[t].paper.to)
    /\ minted' = minted + 1
    /\ pc' = [pc EXCEPT ![t].left = @ - 1]
    /\ UNCHANGED <<papers, vouch_counts, retired>>

VouchRecord(t) ==
    /\ pc[t].at = "vouch"
    /\ pc[t].left = 0
    /\ vouch_counts' = [vouch_counts EXCEPT ![pc[t].paper.from] = @ + 1]
    /\ pc' = [pc EXCEPT ![t] = Idle]
    /\ UNCHANGED <<keys, key_index, nonce, papers, minted, retired>>

Next ==
    \/ \E n \in Node, type \in KeyType :
          \/ add_key(n, type)
          \/ \E m \in Node, count \in KeyCount : create_vouch(n, m, type, count)
    \/ \E k \in keys :
          \/ remove_key(k.nonce)
          \/ \E to \in Node : create_transfer(k, to)
    \/ \E t \in Thread :
          \/ \E p \in papers : TransferCheck(t, p) \/ VouchStart(t, p)
          \/ TransferRemove(t)
          \/ TransferAdd(t)
          \/ VouchAdd(t)
          \/ VouchRecord(t)

Spec == Init /\ [][Next]_vars

-----------------------------------------------------------------------------
(* Properties *)

\* Threads that have removed a key and not yet added the one that replaces it.
InTransit == {t \in Thread : pc[t].at = "add"}

\* No transfer creates or destroys a key: what was issued or vouched for is
\* there, was removed, or is between the two halves of a running transfer,
\* however often and from however many threads the same transfer is executed.
KeysConserved == Cardinality(keys) + Cardinality(InTransit) + retired = minted

\* A key is in the index of its owner and of nobody else, and no nonce is in
\* use twice.
IndexAgrees ==
    /\ \A k, l \in keys : k.nonce = l.nonce => k = l
    /\ \A n \in Node : key_index[n] = {k.nonce : k \in {l \in keys : l.owner = n}}
=============================================================================
