----------------------------- MODULE MCServices -----------------------------
(***************************************************************************)
(* The services that run on threads of their own inside a node: Decay with *)
(* its runner, Gateway, WebSocket and Router. None calls another, so each  *)
(* behaviour follows one of them, chosen by part: a behaviour of all       *)
(* together projects to one of each. The values TLC checks it for are in   *)
(* the .cfg file.                                                          *)
(***************************************************************************)
EXTENDS Decay, Sequences

CONSTANTS
    Thread, Client, Nobody, ClientId, Event, Relay, Content, Minute, Hour,
    PerMinute, PerHour, MaxSessions, GatewayMaxRequests, GatewayMaxTime,
    MaxConnections, MaxPerClient, MaxObjects, MaxCount, HopLimit, MaxHopLimit,
    Path, Timeout, RouterMaxRequests, RouterMaxTime

ASSUME RatesAssumption == {Minute, Hour, PerMinute, PerHour} \subseteq Nat

ASSUME RoutesAssumption ==
    HopLimit \subseteq Nat /\ MaxHopLimit \in Nat /\ RouterMaxRequests \in Nat
    /\ \A p \in Path : p \in Seq(Relay)

VARIABLES
    part,
    http_running, pc, request, session, stats_mutex, sessions_mutex, sessions,
    authenticated, client_rates, total, clock, admitted,
    web_running, id, connections, web_held, subscriptions, touched, count,
    local_content, pending, wire, router_clock, router_asked, told

\* A route of one layer, and routes of two.
Paths == {<<n>> : n \in Relay} \cup {<<n, m>> : n, m \in Relay}

H == INSTANCE Gateway WITH
    MaxRequests <- GatewayMaxRequests, MaxTime <- GatewayMaxTime,
    running <- http_running

W == INSTANCE WebSocket WITH
    Id <- ClientId, running <- web_running, held <- web_held

O == INSTANCE Router WITH
    Node <- Relay, MaxRequests <- RouterMaxRequests, MaxTime <- RouterMaxTime,
    clock <- router_clock, asked <- router_asked

H_vars == <<http_running, pc, request, session, stats_mutex, sessions_mutex,
        sessions, authenticated, client_rates, total, clock, admitted>>
W_vars == <<web_running, id, connections, web_held, subscriptions, touched, count>>
O_vars == <<local_content, pending, wire, router_clock, router_asked, told>>

all_vars == <<part, vars, H_vars, W_vars, O_vars>>

ServicesInit ==
    /\ part \in {"decay", "gateway", "websocket", "router"}
    /\ Init
    /\ H!Init /\ W!Init /\ O!Init

ServicesNext ==
    \/ part = "decay" /\ Next /\ UNCHANGED <<part, H_vars, W_vars, O_vars>>
    \/ part = "gateway" /\ H!Next /\ UNCHANGED <<part, vars, W_vars, O_vars>>
    \/ part = "websocket" /\ W!Next /\ UNCHANGED <<part, vars, H_vars, O_vars>>
    \/ part = "router" /\ O!Next /\ UNCHANGED <<part, vars, H_vars, W_vars>>

\* The worker of the runner runs, and so does whoever has begun a call; the
\* threads of the gateway run and get a mutex that is free in the end.
ServicesFairness ==
    /\ WF_vars(part = "decay" /\ Worker) /\ WF_vars(part = "decay" /\ join)
    /\ WF_vars(part = "decay" /\ SetTrigger)
    /\ \A t \in Thread :
          /\ WF_H_vars(part = "gateway" /\ H!handle_request(t))
          /\ WF_H_vars(part = "gateway" /\ H!get_or_create_session(t))
          /\ WF_H_vars(part = "gateway" /\ H!answer(t))
          /\ WF_H_vars(part = "gateway" /\ H!handle_status(t))

ServicesSpec == ServicesInit /\ [][ServicesNext]_all_vars /\ ServicesFairness

\* A key type that has to be used, as NODE, SERVICE and ROUTING keys.
NodePolicy == [NODE |-> [max_age |-> 3, threshold |-> 1, requires_activity |-> TRUE,
                         min_actions |-> 1]]

\* What the scheduler keeps of nodes and of the Thing it keeps apart: states
\* with both are skipped.
NodesOrThing ==
    \/ thing = None /\ thing_activity = None
    \/ \A n \in Node : held[n] = None /\ node_activity[n] = None

\* The callbacks of a content request are called at most once and for the
\* content asked for, whatever answers come late, twice, damaged, after the
\* time-out or the cancellation (Router).
AnsweredOnce == part = "router" => O!AnsweredOnce

\* check_rate_limit lets no client through more often than its limits in any
\* minute or hour, wherever the window starts (Gateway).
ClientRateHolds == part = "gateway" => H!ClientRateHolds

\* Every request is answered, unless a thread waits for a mutex it holds
\* itself: in handle_status or on opening a session beyond the limit
\* (Gateway).
AnsweredUnlessBlocked == H!AnsweredUnlessBlocked

\* The unsigned subscription_count never falls below the subscriptions that
\* are there, so that it cannot wrap, though dead connections are dropped
\* without counting (WebSocket).
CountCoversSubscribers == part = "websocket" => W!CountCoversSubscribers
=============================================================================
