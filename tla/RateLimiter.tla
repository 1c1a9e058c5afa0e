----------------------------- MODULE RateLimiter -----------------------------
(***************************************************************************)
(* RateLimiter of security/attack_prevention.cpp, for one identifier (each *)
(* has a bucket of its own): a token bucket together with counters over a  *)
(* minute and an hour.                                                     *)
(*                                                                         *)
(* Tokens are counted in parts of 1/Minute, so that a second adds exactly  *)
(* PerMinute parts and a request costs Minute parts.                       *)
(***************************************************************************)
EXTENDS Integers, FiniteSets

CONSTANTS
    Minute, Hour,    \* 60, 3600 seconds
    Stale,           \* 7200 seconds
    PerMinute,       \* max_requests_per_minute
    PerHour,         \* max_requests_per_hour
    Burst,           \* burst_size
    MaxTime          \* bound: last time explored

VARIABLES
    bucket,          \* buckets_[identifier]
    now,
    allowed          \* allowed[t]: requests allowed up to time t (history)

vars == <<bucket, now, allowed>>

\* A bucket that the map has just made, or does not have.
TokenBucket == [tokens |-> 0, last_update |-> 0, this_minute |-> 0, this_hour |-> 0, minute_start |-> 0, hour_start |-> 0]

refill_tokens(b) ==
    IF b.last_update = 0
    THEN [b EXCEPT !.tokens = Burst * Minute, !.last_update = now, !.minute_start = now, !.hour_start = now]
    ELSE LET tokens == b.tokens + (now - b.last_update) * PerMinute
         IN  [b EXCEPT !.tokens = IF tokens < Burst * Minute THEN tokens ELSE Burst * Minute, !.last_update = now]

\* The counters restart when their window is over.
Windows(b) ==
    LET m == IF now - b.minute_start >= Minute THEN [b EXCEPT !.this_minute = 0, !.minute_start = now] ELSE b
    IN  IF now - m.hour_start >= Hour THEN [m EXCEPT !.this_hour = 0, !.hour_start = now] ELSE m

Init ==
    /\ bucket = TokenBucket
    /\ now = 1
    /\ allowed = [t \in 0..MaxTime |-> 0]

allow_request ==
    LET b == Windows(refill_tokens(bucket)) IN
    /\ \/ /\ b.this_minute >= PerMinute \/ b.this_hour >= PerHour \/ b.tokens < Minute
          /\ bucket' = b
          /\ UNCHANGED allowed
       \/ /\ b.this_minute < PerMinute /\ b.this_hour < PerHour /\ b.tokens >= Minute
          /\ bucket' = [b EXCEPT !.tokens = @ - Minute, !.this_minute = @ + 1, !.this_hour = @ + 1]
          /\ allowed' = [t \in 0..MaxTime |-> IF t >= now THEN allowed[t] + 1 ELSE allowed[t]]
    /\ UNCHANGED now

\* Mutant: a bucket counts as stale after a minute.
cleanup_soon ==
    /\ now - bucket.last_update > Minute
    /\ bucket' = TokenBucket
    /\ UNCHANGED <<now, allowed>>

cleanup_stale_entries ==
    /\ now - bucket.last_update > Stale
    /\ bucket' = TokenBucket
    /\ UNCHANGED <<now, allowed>>

\* reset by the caller, or set_rate_limit_policy, which makes a new limiter: the
\* history starts again.
reset ==
    /\ bucket' = TokenBucket
    /\ allowed' = [t \in 0..MaxTime |-> 0]
    /\ UNCHANGED now

Tick == now < MaxTime /\ now' = now + 1 /\ UNCHANGED <<bucket, allowed>>

Next == allow_request \/ cleanup_stale_entries \/ reset \/ Tick

Spec == Init /\ [][Next]_vars

-----------------------------------------------------------------------------

\* Requests allowed from s to t.
Between(s, t) == allowed[t] - allowed[s - 1]

\* "Allow bursts up to this size" (attack_prevention.hpp): over any stretch of
\* time, wherever it starts and whatever cleaning happened in it, no more
\* requests pass than a burst and the rate allow, and in no stretch of an hour
\* more than two windows hold.  Forgetting a stale bucket is never a way to a
\* second burst.
RateHolds ==
    \A s \in 1..now : \A t \in s..now :
        /\ Minute * Between(s, t) <= Burst * Minute + (t - s) * PerMinute
        /\ t - s < Hour => Between(s, t) <= 2 * PerHour
=============================================================================
