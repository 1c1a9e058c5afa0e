----------------------------- MODULE Connection -----------------------------
(***************************************************************************)
(* ConnectionManager, the TCP connections it makes and the bandwidth       *)
(* limiter they share.                                                     *)
(*                                                                         *)
(* send() asks the limiter whether there are tokens, writes to the socket  *)
(* and only then takes the tokens, so that several connections may pass    *)
(* on the same tokens.  A peer that went away is noticed by nobody:        *)
(* receive() and send() fail, but the connection stays CONNECTED, and      *)
(* cleanup_dead_connections, which looks for others, finds none.           *)
(*                                                                         *)
(* A tick is a second; the fraction of a byte that refill_tokens drops     *)
(* every time it runs, which only lowers the rate, is not modelled.        *)
(***************************************************************************)
EXTENDS Integers, FiniteSets, FiniteSetsExt

CONSTANTS
    Address,   \* remote addresses, each of one node
    Limits,    \* the limits set_limit may be given, in bytes per tick
    Bytes,     \* size of a message
    MaxTime    \* bound: ticks of the clock

VARIABLES
    connections, \* the keys of connections_
    link,        \* the addresses whose socket still reaches the peer
    sending,     \* connections inside send(), past the limiter
    tokens,      \* tx_tokens_
    limit,       \* bytes_per_second_
    last_update,
    clock,
    sent         \* history: bytes sent, by time

vars == <<connections, link, sending, tokens, limit, last_update, clock, sent>>

MaxLimit == Max(Limits)

Init ==
    /\ connections = {} /\ link = {} /\ sending = {}
    /\ limit = MaxLimit /\ tokens = limit /\ last_update = 0
    /\ clock = 0 /\ sent = [t \in 0..MaxTime |-> 0]

-----------------------------------------------------------------------------
\* Mutant: the bucket has no size.
refill_uncapped == tokens + limit * (clock - last_update)

\* refill_tokens, the first thing every operation of the limiter does.
refill_tokens == Min({tokens + limit * (clock - last_update), limit})

\* last_update_ moves only when time has passed.
Refilled(t) == tokens' = t /\ last_update' = clock

\* A socket that reaches the peer.  One that fails to changes nothing.
connect(a) == link' = link \cup {a}

\* disconnect() waits for no sender; a send in progress fails on the closed
\* socket.
disconnect(closed) == link' = link \ closed /\ sending' = sending \ closed

\* A connection that is in the map is returned as it is, dead or alive; a new
\* one is kept if connect() succeeds.
create_connection(a) ==
    /\ a \notin connections
    /\ connections' = connections \cup {a}
    /\ connect(a)
    /\ UNCHANGED <<sending, tokens, limit, last_update, clock, sent>>

close_connection(a) ==
    /\ a \in connections
    /\ connections' = connections \ {a}
    /\ disconnect({a})
    /\ UNCHANGED <<tokens, limit, last_update, clock, sent>>

close_all_connections ==
    /\ connections # {}
    /\ connections' = {}
    /\ disconnect(connections)
    /\ UNCHANGED <<tokens, limit, last_update, clock, sent>>

\* The peer goes away, or the network does.
peer_gone(a) ==
    /\ a \in link
    /\ link' = link \ {a}
    /\ UNCHANGED <<connections, sending, tokens, limit, last_update, clock, sent>>

\* send() up to the limiter: one message at a time on each connection.
can_send(a) ==
    /\ a \in connections \ sending
    /\ Refilled(refill_tokens)
    /\ tokens' >= Bytes
    /\ sending' = sending \cup {a}
    /\ UNCHANGED <<connections, link, limit, clock, sent>>

send_blocked(a) ==
    /\ a \in connections \ sending
    /\ Refilled(refill_tokens)
    /\ tokens' < Bytes
    /\ UNCHANGED <<connections, link, sending, limit, clock, sent>>

\* The end of a send that got through: record_sent takes what tokens it finds.
record_sent(a) ==
    /\ a \in sending /\ a \in link
    /\ Refilled(IF refill_tokens >= Bytes THEN refill_tokens - Bytes ELSE 0)
    /\ sending' = sending \ {a}
    /\ sent' = [sent EXCEPT ![clock] = @ + Bytes]
    /\ UNCHANGED <<connections, link, limit, clock>>

\* The end of a send that did not: nothing is recorded and the connection is
\* kept.
send_failed(a) ==
    /\ a \in sending /\ a \notin link
    /\ sending' = sending \ {a}
    /\ UNCHANGED <<connections, link, tokens, limit, last_update, clock, sent>>

\* The tokens of the old limit stay until the next refill.
set_limit(l) ==
    /\ l \in Limits \ {limit} /\ limit' = l
    /\ UNCHANGED <<connections, link, sending, tokens, last_update, clock, sent>>

Tick ==
    /\ clock < MaxTime /\ clock' = clock + 1
    /\ UNCHANGED <<connections, link, sending, tokens, limit, last_update, sent>>

Next ==
    \/ \E a \in Address :
        \/ create_connection(a) \/ close_connection(a) \/ peer_gone(a)
        \/ can_send(a) \/ send_blocked(a) \/ record_sent(a) \/ send_failed(a)
    \/ \E l \in Limits : set_limit(l)
    \/ close_all_connections \/ Tick

Spec == Init /\ [][Next]_vars

-----------------------------------------------------------------------------
\* Connections that passed the limiter on the same tokens exceed the limit,
\* whatever becomes of it meanwhile, by no more than one message each but one:
\* in one tick at most a full bucket is paid for, and a sender that finds too
\* little left must have passed while there was enough.
SharedLimitHolds ==
    \A t \in 0..MaxTime : sent[t] <= MaxLimit + (Cardinality(Address) - 1) * Bytes
=============================================================================
