-------------------------- MODULE ContentRenderer --------------------------
(***************************************************************************)
(* The content cache between storage and the gateway, with the check the   *)
(* gateway makes on what it serves.  A caller reads the cache, fetches     *)
(* when it misses and adds what it fetched, each under cache_mutex_ of its *)
(* own, so that other callers, prefetches, invalidations and evictions     *)
(* come in between.  prefetch stores what it fetched unverified.  Entries  *)
(* do not expire: cleanup_expired is private and nothing calls it.         *)
(*                                                                         *)
(* Bytes are abstracted to what the checks tell apart: "true" bytes hash   *)
(* to the name asked for, "false" bytes do not, and sanitising a page that *)
(* has something to remove turns either into "cut" bytes, which do not.    *)
(*                                                                         *)
(* Storage is composed with it as run_node wires them: the fetch callback  *)
(* reads the files that "cashew content add", a process of its own, may be *)
(* writing at that moment.                                                 *)
(***************************************************************************)
EXTENDS Integers, FiniteSets, FiniteSetsExt

CONSTANTS
    Hash,      \* content hashes
    Active,    \* the hashes of HTML that sanitize_html changes
    Size,      \* [Hash -> Nat] bytes of a content
    Caller,    \* threads that call the renderer
    MaxItems,  \* config_.max_cached_items
    MaxBytes,  \* config_.max_cache_size_bytes
    MaxTime,   \* bound: accesses with a time of their own
    MaxCalls,  \* bound: calls made
    Writer, NoHash, MaxPuts   \* of Storage

VARIABLES
    cache,   \* cache_: a function on the cached hashes
    job,     \* what each caller is doing
    served,  \* what the gateway answered 200 with
    clock, calls,
    file, meta, writer, puts, cut   \* of Storage

S == INSTANCE Storage

renderer == <<cache, job, served, clock, calls>>
store == <<file, meta, writer, puts, cut>>
vars == <<renderer, store>>

Idle == [op |-> "none", hash |-> CHOOSE h \in Hash : TRUE, at |-> "idle", data |-> "none"]

Init ==
    /\ cache = [h \in {} |-> 0]
    /\ job = [c \in Caller |-> Idle]
    /\ served = {} /\ clock = 0 /\ calls = 0
    /\ S!Init

-----------------------------------------------------------------------------
is_cached(h) == h \in DOMAIN cache

verify_content(data) == data = "true"

\* Metadata calls a content HTML from its bytes; sanitising changes the pages
\* that hold scripts, handlers or embedded frames and leaves the rest alone.
sanitize_html(h, data) == IF h \in Active THEN "cut" ELSE data

Without(h) == [k \in DOMAIN cache \ {h} |-> cache[k]]
Bytes == MapThenSumSet(LAMBDA h : Size[h], DOMAIN cache)

\* The clock moves with every access, so that accesses have an order.
Call(c, h, op, at, data) ==
    /\ job[c].at = "idle" /\ calls < MaxCalls /\ calls' = calls + 1
    /\ job' = [job EXCEPT ![c] = [op |-> op, hash |-> h, at |-> at, data |-> data]]

Pass == clock' = IF clock < MaxTime THEN clock + 1 ELSE clock

\* render_content up to the cache look-up: get_from_cache.  The counters of
\* stats_ are left out.
render_content(c, h, op) ==
    /\ op \in {"serve", "stream"}
    /\ Pass
    /\ \/ /\ is_cached(h)
          /\ Call(c, h, op, "reply", cache[h].data)
          /\ cache' = [cache EXCEPT ![h].last_accessed = clock']
       \/ /\ ~is_cached(h)
          /\ Call(c, h, op, "fetch", "none")
          /\ UNCHANGED cache
    /\ UNCHANGED served

prefetch(c, h) ==
    /\ ~is_cached(h)
    /\ Call(c, h, "prefetch", "fetch", "none")
    /\ Pass
    /\ UNCHANGED <<cache, served>>

\* fetch_from_network: storage answers with the content, with bytes that were
\* damaged on disk, or with nothing.  A render verifies what came and gives
\* up on nothing or on damage; a prefetch gives up on nothing only.
fetch_from_network(c, data) ==
    LET kept == IF job[c].op = "prefetch" THEN data # "none" ELSE verify_content(data) IN
    /\ job[c].at = "fetch"
    /\ job' = [job EXCEPT ![c] = IF kept THEN [@ EXCEPT !.at = "add", !.data = data] ELSE Idle]
    /\ UNCHANGED <<cache, served, clock, calls>>

\* evict_lru removes one entry, the least recently used.
evict_lru ==
    {[k \in DOMAIN cache \ {h} |-> cache[k]] :
        h \in {x \in DOMAIN cache : \A y \in DOMAIN cache : cache[x].last_accessed <= cache[y].last_accessed}}

must_evict(h) == Bytes + Size[h] > MaxBytes \/ Cardinality(DOMAIN cache) >= MaxItems

\* At most one entry makes room for the new one, whatever its size.
add_to_cache(c) ==
    LET h == job[c].hash
        Added(room) == [k \in DOMAIN room \cup {h} |->
            IF k = h THEN [data |-> job[c].data, last_accessed |-> clock']
                     ELSE room[k]]
    IN
    /\ job[c].at = "add"
    /\ Pass
    /\ \/ /\ must_evict(h) /\ DOMAIN cache # {}
          /\ \E room \in evict_lru : cache' = Added(room)
       \/ /\ ~(must_evict(h) /\ DOMAIN cache # {})
          /\ cache' = Added(cache)
    /\ job' = [job EXCEPT ![c] = IF @.op = "prefetch" THEN Idle ELSE [@ EXCEPT !.at = "reply"]]
    /\ UNCHANGED <<served, calls>>

\* Mutant: the cache is trusted.
handle_thing_content_trusting(c) ==
    /\ job[c].at = "reply" /\ job[c].op = "serve"
    /\ LET data == sanitize_html(job[c].hash, job[c].data)
       IN served' = served \cup {<<job[c].hash, data>>}
    /\ job' = [job EXCEPT ![c] = Idle]
    /\ UNCHANGED <<cache, clock, calls>>

\* The end of render_content and handle_thing_content: the gateway verifies
\* what it is about to serve once more, and answers 500 when it fails.
handle_thing_content(c) ==
    /\ job[c].at = "reply" /\ job[c].op = "serve"
    /\ LET data == sanitize_html(job[c].hash, job[c].data)
       IN served' = IF verify_content(data) THEN served \cup {<<job[c].hash, data>>} ELSE served
    /\ job' = [job EXCEPT ![c] = Idle]
    /\ UNCHANGED <<cache, clock, calls>>

\* stream_content cuts the same result into chunks; nobody verifies them.
stream_content(c) ==
    /\ job[c].at = "reply" /\ job[c].op = "stream"
    /\ job' = [job EXCEPT ![c] = Idle]
    /\ UNCHANGED <<cache, served, clock, calls>>

\* invalidate_cache of one hash or, with no argument, of all.
invalidate_cache(h) ==
    /\ is_cached(h)
    /\ cache' = Without(h)
    /\ UNCHANGED <<job, served, clock, calls>>

invalidate_all ==
    /\ cache # [h \in {} |-> 0]
    /\ cache' = [h \in {} |-> 0]
    /\ UNCHANGED <<job, served, clock, calls>>

\* The renderer gets what the file holds at this instant.
fetch_callback(c) ==
    /\ fetch_from_network(c, S!get_content(job[c].hash))
    /\ UNCHANGED store

\* The node stops, orderly or not, and comes back with an empty cache.
restart ==
    /\ cache' = [h \in {} |-> 0]
    /\ job' = [c \in Caller |-> Idle]
    /\ UNCHANGED <<served, clock, calls>>
    /\ UNCHANGED store

Next ==
    \/ \E c \in Caller : fetch_callback(c)
    \/ /\ \/ \E c \in Caller :
              \/ \E h \in Hash : \E op \in {"serve", "stream"} : render_content(c, h, op)
              \/ \E h \in Hash : prefetch(c, h)
              \/ add_to_cache(c) \/ handle_thing_content(c) \/ stream_content(c)
          \/ \E h \in Hash : invalidate_cache(h)
          \/ invalidate_all
       /\ UNCHANGED store
    \/ restart
    \/ S!Next /\ UNCHANGED renderer

Spec == Init /\ [][Next]_vars

-----------------------------------------------------------------------------
\* Whatever a prefetch left in the cache, however the calls interleave, the
\* gateway answers 200 only with bytes that hash to the name in the path.
ServedGenuine == \A s \in served : s[2] = "true"

\* What is served is the content that was asked for, though its file may be
\* half written, cut short or deleted when the renderer reads it; and writers
\* that come to their end leave files that load.
ContentSound == ServedGenuine /\ S!WholeUnlessCut
=============================================================================
