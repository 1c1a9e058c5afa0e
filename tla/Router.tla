------------------------------- MODULE Router -------------------------------
(***************************************************************************)
(* Router of network/router.cpp: requests for content that travel from     *)
(* node to node, and the answers that go straight back.                    *)
(*                                                                         *)
(* The next hop is what RoutingTable selects at that moment: here any node *)
(* or Nobody.  Nobody is the zero id, which the test for an empty id does  *)
(* not recognise (an array is never empty), so a request without a route   *)
(* is sent into the void and ends by its timeout, which only an owner that *)
(* calls update_statistics brings about.  The transport is the callbacks': *)
(* it loses, delays and repeats.                                           *)
(***************************************************************************)
EXTENDS Integers, Sequences

CONSTANTS
    Node,
    Content,
    HopLimit,        \* hop limits asked for
    MaxHopLimit,     \* ContentRequest::MAX_HOP_LIMIT (16)
    Path,            \* routes given to request_content_with_onion_routing
    Timeout,         \* PendingRequest::TIMEOUT_SECONDS (30)
    Nobody,
    MaxRequests,     \* bound: requests made
    MaxTime          \* bound: last time explored

VARIABLES
    local_content,   \* local_content[n]
    pending,         \* pending[n]: pending_requests_
    wire,            \* requests and responses under way
    clock,
    asked,           \* asked[id]: the content of request id (history)
    told             \* told[id]: callbacks of its requester, in order (history)

vars == <<local_content, pending, wire, clock, asked, told>>

Id == 1..MaxRequests

Request(to, id, c, from, hops, onion) ==
    [kind |-> "request", to |-> to, id |-> id, content |-> c, from |-> from, hops |-> hops,
     onion |-> onion]

Response(to, id, c, intact) ==
    [kind |-> "response", to |-> to, id |-> id, content |-> c, intact |-> intact]

send_to_peer(m) == IF m.to = Nobody THEN {} ELSE {m}

Init ==
    /\ local_content = [n \in Node |-> {}]
    /\ pending = [n \in Node |-> {}]
    /\ wire = {}
    /\ clock = 0
    /\ asked = <<>>
    /\ told = [id \in Id |-> <<>>]

-----------------------------------------------------------------------------
(* The requester *)

Track(n, c) ==
    /\ Len(asked) < MaxRequests
    /\ asked' = Append(asked, c)
    /\ pending' = [pending EXCEPT ![n] = @ \cup {[id |-> Len(asked'), content |-> c, time |-> clock]}]
    /\ UNCHANGED <<local_content, clock, told>>

request_content(n, c, limit) ==
    /\ Track(n, c)
    /\ \E next \in Node \cup {Nobody} :
          LET hops == IF limit > MaxHopLimit THEN MaxHopLimit ELSE limit
          IN  wire' = wire \cup send_to_peer(Request(next, Len(asked'), c, n, hops, <<>>))

\* The layers are for the nodes of path, outermost first.
request_content_with_onion_routing(n, c, path) ==
    /\ Track(n, c)
    /\ wire' = IF path = <<>> THEN wire
               ELSE wire \cup {Request(path[1], Len(asked'), c, n, Len(path) + 2, path)}

cancel_request(n, p) ==
    /\ p \in pending[n]
    /\ pending' = [pending EXCEPT ![n] = @ \ {p}]
    /\ UNCHANGED <<local_content, wire, clock, asked, told>>

\* An answer counts only if its data have the digest it names and its
\* signature is right (intact).  The digest is not compared with the request.
handle_content_response(m) ==
    /\ m \in wire /\ m.kind = "response"
    /\ \E p \in pending[m.to] :
          /\ p.id = m.id /\ m.intact
          /\ told' = [told EXCEPT ![m.id] = Append(@, [kind |-> "received", content |-> m.content])]
          /\ pending' = [pending EXCEPT ![m.to] = @ \ {p}]
    /\ UNCHANGED <<local_content, wire, clock, asked>>

has_timed_out(p) == clock - p.time > Timeout

\* Mutant: the callback is called but the request stays.
cleanup_keeps_requests(n) ==
    /\ told' = [id \in Id |->
          IF \E p \in pending[n] : p.id = id /\ has_timed_out(p)
          THEN Append(told[id], [kind |-> "not_found", content |-> asked[id]]) ELSE told[id]]
    /\ Len(told'[1]) < 3
    /\ UNCHANGED <<local_content, wire, clock, asked, pending>>

cleanup_timed_out_requests(n) ==
    /\ told' = [id \in Id |->
          IF \E p \in pending[n] : p.id = id /\ has_timed_out(p)
          THEN Append(told[id], [kind |-> "not_found", content |-> asked[id]]) ELSE told[id]]
    /\ pending' = [pending EXCEPT ![n] = {p \in @ : ~has_timed_out(p)}]
    /\ UNCHANGED <<local_content, wire, clock, asked>>

-----------------------------------------------------------------------------
(* The others *)

advertise_local_content(n, c) ==
    /\ local_content' = [local_content EXCEPT ![n] = @ \cup {c}]
    /\ UNCHANGED <<pending, wire, clock, asked, told>>

remove_local_content(n, c) ==
    /\ local_content' = [local_content EXCEPT ![n] = @ \ {c}]
    /\ UNCHANGED <<pending, wire, clock, asked, told>>

\* What is left of a request once its outer layer is off, or nothing: only
\* the innermost layer holds a request, a deeper one does not parse.
decrypt_onion_layer(m) ==
    IF m.onion = <<>> THEN {m}
    ELSE IF m.onion = <<m.to>> THEN {[m EXCEPT !.onion = <<>>]} ELSE {}

can_serve_locally(n, c) == c \in local_content[n]

should_forward_request(m) == m.hops > 1 /\ m.from # m.to

\* A fetch may fail, and what it finds may be damaged.
Serve(m) ==
    /\ can_serve_locally(m.to, m.content)
    /\ \E r \in {{}} \cup {send_to_peer(Response(m.from, m.id, m.content, intact)) : intact \in BOOLEAN} :
          wire' = wire \cup r

Forward(m) ==
    /\ ~can_serve_locally(m.to, m.content) /\ should_forward_request(m)
    /\ \E next \in Node \cup {Nobody} :
          wire' = wire \cup send_to_peer([m EXCEPT !.to = next, !.hops = @ - 1])

handle_content_request(m) ==
    /\ m \in wire /\ m.kind = "request" /\ m.hops # 0
    /\ \E inner \in decrypt_onion_layer(m) : Serve(inner) \/ Forward(inner)
    /\ UNCHANGED <<local_content, pending, clock, asked, told>>

Lose(m) ==
    /\ m \in wire
    /\ wire' = wire \ {m}
    /\ UNCHANGED <<local_content, pending, clock, asked, told>>

Tick ==
    /\ clock < MaxTime
    /\ clock' = clock + 1
    /\ UNCHANGED <<local_content, pending, wire, asked, told>>

Next ==
    \/ \E n \in Node :
          \/ \E c \in Content :
                \/ \E limit \in HopLimit : request_content(n, c, limit)
                \/ \E path \in Path : request_content_with_onion_routing(n, c, path)
                \/ advertise_local_content(n, c)
                \/ remove_local_content(n, c)
          \/ \E p \in pending[n] : cancel_request(n, p)
          \/ cleanup_timed_out_requests(n)
    \/ \E m \in wire : handle_content_request(m) \/ handle_content_response(m) \/ Lose(m)
    \/ Tick

Spec == Init /\ [][Next]_vars

-----------------------------------------------------------------------------

\* A requester hears of a request at most once, and of no other content than
\* it asked for, whatever answers come late, twice, damaged or after the
\* timeout or the cancellation.
AnsweredOnce ==
    \A id \in DOMAIN asked :
        Len(told[id]) <= 1 /\ \A i \in DOMAIN told[id] : told[id][i].content = asked[id]
=============================================================================
