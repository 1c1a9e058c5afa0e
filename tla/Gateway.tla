------------------------------ MODULE Gateway ------------------------------
(***************************************************************************)
(* The HTTP gateway of a node: a pool of server threads runs               *)
(* handle_request, which holds the non-recursive stats_mutex_ for the      *)
(* whole request and takes sessions_mutex_ inside it.  A handler or a      *)
(* session look-up that asks for a mutex its own thread already holds      *)
(* never gets it (std::mutex as pthread provides it): the thread is        *)
(* "blocked" and keeps what it holds.                                      *)
(*                                                                         *)
(* last_activity of a session is read only by validate_session, which      *)
(* nothing calls, and by cleanup_sessions, which nothing completes (its    *)
(* one reachable caller holds the mutex it asks for), so it is left out:   *)
(* sessions are never removed.                                             *)
(***************************************************************************)
EXTENDS Integers, FiniteSets, Sequences

CONSTANTS
    Thread,      \* the threads of the HTTP server's pool
    Client,      \* client addresses
    Minute,      \* 60 seconds, in ticks of the model
    Hour,        \* 3600 seconds
    PerMinute,   \* config_.max_requests_per_minute
    PerHour,     \* config_.max_requests_per_hour
    MaxSessions, \* config_.max_sessions
    Nobody,      \* a mutex that is free
    MaxRequests, \* bound: requests received
    MaxTime      \* bound: ticks of the clock

\* status: /api/status; auth: a login whose signature verifies; page: any
\* other request, whatever its answer (200, 401, 404, or 500 after a throw).
Kind == {"status", "auth", "page"}

VARIABLES
    running,       \* "no", "yes", "stopping": running_ and where stop() is
    pc,            \* where each thread of the pool is
    request,       \* the request each thread works on
    session,       \* the session it was given
    stats_mutex,   \* the thread that holds it, or Nobody
    sessions_mutex,
    sessions,      \* the keys of sessions_
    authenticated, \* the sessions whose capabilities were raised
    client_rates,  \* [Client -> last request and the two counters]
    total,         \* stats_.total_requests
    clock,
    admitted       \* history: when each client was let through

vars == <<running, pc, request, session, stats_mutex, sessions_mutex, sessions,
          authenticated, client_rates, total, clock, admitted>>

NoSession == 0
Request == [client : Client, path : Kind, cookie : sessions \cup {NoSession}]

Init ==
    /\ running = "no"
    /\ pc = [t \in Thread |-> "idle"]
    /\ request = [t \in Thread |-> [client |-> CHOOSE c \in Client : TRUE,
                                    path |-> CHOOSE k \in Kind : TRUE,
                                    cookie |-> NoSession]]
    /\ session = [t \in Thread |-> NoSession]
    /\ stats_mutex = Nobody /\ sessions_mutex = Nobody
    /\ sessions = {} /\ authenticated = {}
    /\ client_rates = [c \in Client |-> [last |-> -Hour, minute |-> 0, hour |-> 0]]
    /\ total = 0 /\ clock = 0
    /\ admitted = [c \in Client |-> <<>>]

-----------------------------------------------------------------------------
\* start() spawns the listening thread; a second call is refused.
start ==
    /\ running = "no" /\ running' = "yes"
    /\ UNCHANGED <<pc, request, session, stats_mutex, sessions_mutex, sessions,
                   authenticated, client_rates, total, clock, admitted>>

\* stop() clears running_ and stops the server, which takes no more requests.
stop ==
    /\ running = "yes" /\ running' = "stopping"
    /\ UNCHANGED <<pc, request, session, stats_mutex, sessions_mutex, sessions,
                   authenticated, client_rates, total, clock, admitted>>

\* It returns when listen() does, after every thread of the pool has finished.
stop_joined ==
    /\ running = "stopping" /\ \A t \in Thread : pc[t] = "idle"
    /\ running' = "no"
    /\ UNCHANGED <<pc, request, session, stats_mutex, sessions_mutex, sessions,
                   authenticated, client_rates, total, clock, admitted>>

\* The server hands a request to a free thread.  The cookie names a session
\* the client was told of, or none (an unknown id counts as none).
setup_http_routes(t, r) ==
    /\ running = "yes" /\ pc[t] = "idle"
    /\ total + Cardinality({u \in Thread : pc[u] = "arrived"}) < MaxRequests
    /\ pc' = [pc EXCEPT ![t] = "arrived"]
    /\ request' = [request EXCEPT ![t] = r]
    /\ UNCHANGED <<running, session, stats_mutex, sessions_mutex, sessions,
                   authenticated, client_rates, total, clock, admitted>>

\* Mutant: one reset for both counters.
counted_hour_with_minute(info) ==
    LET elapsed == clock - info.last IN
    [last   |-> clock,
     minute |-> (IF elapsed >= Minute THEN 0 ELSE info.minute) + 1,
     hour   |-> (IF elapsed >= Minute THEN 0 ELSE info.hour) + 1]

\* The counters fall back to zero after that long without any request of the
\* client, refused ones included.
counted(info) ==
    LET elapsed == clock - info.last IN
    [last   |-> clock,
     minute |-> (IF elapsed >= Minute THEN 0 ELSE info.minute) + 1,
     hour   |-> (IF elapsed >= Hour THEN 0 ELSE info.hour) + 1]

within_limits(info) == info.minute <= PerMinute /\ info.hour <= PerHour

\* handle_request up to the session: takes stats_mutex_, counts the request
\* and either goes on with the mutex held or answers 503 and releases it.
handle_request(t) ==
    /\ pc[t] = "arrived" /\ stats_mutex = Nobody
    /\ total' = total + 1
    /\ LET c == request[t].client
           info == counted(client_rates[c])
           passed == within_limits(info)
       IN /\ client_rates' = [client_rates EXCEPT ![c] = info]
          /\ pc' = [pc EXCEPT ![t] = IF passed THEN "session" ELSE "idle"]
          /\ stats_mutex' = IF passed THEN t ELSE Nobody
          /\ admitted' = [admitted EXCEPT ![c] = IF passed THEN Append(@, clock) ELSE @]
    /\ UNCHANGED <<running, request, session, sessions_mutex, sessions, authenticated, clock>>

known_session(t) ==
    /\ request[t].cookie \in sessions
    /\ session' = [session EXCEPT ![t] = request[t].cookie]
    /\ pc' = [pc EXCEPT ![t] = "handler"]
    /\ UNCHANGED <<sessions, sessions_mutex>>

new_session(t) ==
    /\ request[t].cookie \notin sessions
    /\ session' = [session EXCEPT ![t] = Cardinality(sessions) + 1]
    /\ sessions' = sessions \cup {session'[t]}
    /\ pc' = [pc EXCEPT ![t] = "handler"]
    /\ UNCHANGED sessions_mutex

\* cleanup_sessions asks for the mutex get_or_create_session holds.
cleanup_sessions(t) ==
    /\ request[t].cookie \notin sessions
    /\ sessions_mutex' = t
    /\ pc' = [pc EXCEPT ![t] = "blocked"]
    /\ UNCHANGED <<session, sessions>>

\* Mutant: every new session cleans up first.
get_or_create_sweeping(t) ==
    /\ pc[t] = "session" /\ sessions_mutex = Nobody
    /\ \/ known_session(t)
       \/ Cardinality(sessions) = 0 /\ new_session(t)
       \/ Cardinality(sessions) > 0 /\ cleanup_sessions(t)
    /\ UNCHANGED <<running, request, stats_mutex, authenticated, client_rates, total,
                   clock, admitted>>

get_or_create_session(t) ==
    /\ pc[t] = "session" /\ sessions_mutex = Nobody
    /\ \/ known_session(t)
       \/ Cardinality(sessions) < MaxSessions /\ new_session(t)
       \/ Cardinality(sessions) >= MaxSessions /\ cleanup_sessions(t)
    /\ UNCHANGED <<running, request, stats_mutex, authenticated, client_rates, total,
                   clock, admitted>>

\* find_handler, the handler it finds and the end of handle_request.  Every
\* outcome, a throw included, releases stats_mutex_; a good login raises the
\* capabilities of the session first.
answer(t) ==
    /\ pc[t] = "handler" /\ request[t].path # "status"
    /\ authenticated' = IF request[t].path = "auth" THEN authenticated \cup {session[t]}
                                                    ELSE authenticated
    /\ stats_mutex' = Nobody
    /\ pc' = [pc EXCEPT ![t] = "idle"]
    /\ UNCHANGED <<running, request, session, sessions_mutex, sessions, client_rates,
                   total, clock, admitted>>

\* handle_status calls get_statistics, which asks for stats_mutex_ again.
handle_status(t) ==
    /\ pc[t] = "handler" /\ request[t].path = "status"
    /\ pc' = [pc EXCEPT ![t] = IF stats_mutex = Nobody THEN "idle" ELSE "blocked"]
    /\ UNCHANGED <<running, request, session, stats_mutex, sessions_mutex, sessions,
                   authenticated, client_rates, total, clock, admitted>>

Tick ==
    /\ clock < MaxTime /\ clock' = clock + 1
    /\ UNCHANGED <<running, pc, request, session, stats_mutex, sessions_mutex, sessions,
                   authenticated, client_rates, total, admitted>>

Next ==
    \/ start \/ stop \/ stop_joined \/ Tick
    \/ \E t \in Thread :
        \/ \E r \in Request : setup_http_routes(t, r)
        \/ handle_request(t) \/ get_or_create_session(t)
        \/ answer(t) \/ handle_status(t)

\* A thread that can go on does; the number of requests is bounded, so that
\* nobody waits for a mutex because others keep taking it.
Fairness ==
    \A t \in Thread : /\ WF_vars(handle_request(t))
                      /\ WF_vars(get_or_create_session(t))
                      /\ WF_vars(answer(t))
                      /\ WF_vars(handle_status(t))

Spec == Init /\ [][Next]_vars /\ Fairness

-----------------------------------------------------------------------------
\* The limits of check_rate_limit hold for every window: no client is let
\* through more often than PerMinute within a minute or PerHour within an
\* hour, wherever the window starts.
ClientRateHolds ==
    \A c \in Client : \A start_time \in 0..MaxTime :
        LET Within(span) == {i \in DOMAIN admitted[c] :
                               start_time <= admitted[c][i] /\ admitted[c][i] < start_time + span}
        IN /\ Cardinality(Within(Minute)) <= PerMinute
           /\ Cardinality(Within(Hour)) <= PerHour

\* Every request is answered, unless a thread has run into one of the two
\* mutexes it already holds: by asking for /api/status, or by opening one
\* session more than MaxSessions.  Nothing else stops the gateway.
AnsweredUnlessBlocked ==
    \A t \in Thread :
        pc[t] = "arrived" ~>
            \/ pc[t] = "idle"
            \/ \E u \in Thread : /\ pc[u] = "blocked"
                                 /\ \/ request[u].path = "status"
                                    \/ Cardinality(sessions) >= MaxSessions

\* README.md:232 offers "/api/status - JSON with node info": a request for it
\* that passed the rate limit and got a session is answered.
StatusAnswered ==
    \A t \in Thread :
        (pc[t] = "handler" /\ request[t].path = "status") ~> pc[t] = "idle"
=============================================================================
