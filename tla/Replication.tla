---------------------------- MODULE Replication -----------------------------
(***************************************************************************)
(* ReplicationCoordinator of src/network/network.cpp: the job list, and    *)
(* the workers that take jobs from it.                                     *)
(*                                                                         *)
(* A worker asks get_next_job for a copy of a job, calls mark_job_started, *)
(* transfers the Thing and reports with mark_job_completed.  These are     *)
(* separate calls, so anything may happen between them.  A worker may also *)
(* stop without a report.  A job is looked up by its network and target    *)
(* node, here one Target value, never by identity.                         *)
(***************************************************************************)
EXTENDS Integers, Sequences, FiniteSetsExt

CONSTANTS
    Target,          \* (network_id, target_node) pairs
    Worker,
    Priority,        \* the priorities requests carry
    MaxConcurrent,   \* MAX_CONCURRENT_JOBS (5)
    MaxRetries,      \* max_retries of retry_failed_jobs (3)
    MaxAge,          \* max_age_seconds of cleanup_old_jobs (86400)
    NanosPerSecond,  \* system_clock counts nanoseconds
    None,
    MaxJobs,         \* bound: jobs in the list
    MaxRequests,     \* bound: calls of request_replication
    MaxLost,         \* bound: workers that stop without a report, for each target
    MaxTime          \* bound: last clock value explored, in seconds

VARIABLES
    jobs,            \* jobs_
    worker,          \* worker[w]: what worker w is doing, and for which target
    clock,           \* in seconds
    requested,       \* calls of request_replication so far
    lost             \* history: lost[t]: workers that stopped with a job for t in hand

vars == <<jobs, worker, clock, requested, lost>>

Active == {"PENDING", "IN_PROGRESS"}
Status == Active \cup {"COMPLETED", "FAILED", "CANCELLED"}

Idle == [phase |-> "idle", target |-> None]

-----------------------------------------------------------------------------
(* The job list *)

\* The order of prioritize_jobs: pending jobs first, then by priority.
Before(a, b) ==
    IF (a.status = "PENDING") # (b.status = "PENDING")
    THEN a.status = "PENDING"
    ELSE a.priority > b.priority

\* std::stable_sort: the k-th job is the one that k - 1 others precede.
prioritize_jobs(s) ==
    LET Precedes(i, j) == Before(s[i], s[j]) \/ (~Before(s[j], s[i]) /\ i < j)
        Rank(i) == 1 + Cardinality({j \in DOMAIN s : Precedes(j, i)})
    IN  [k \in DOMAIN s |-> s[CHOOSE i \in DOMAIN s : Rank(i) = k]]

With(s, status) == {i \in DOMAIN s : s[i].status = status}

First(S) == CHOOSE i \in S : \A j \in S : i <= j

\* The jobs for t that are in one of the states, first match first.
Matching(t, states) == {i \in DOMAIN jobs : jobs[i].target = t /\ jobs[i].status \in states}

\* Mutant: one slot less than there are.
can_start_but_one == Cardinality(With(jobs, "IN_PROGRESS")) + 1 < MaxConcurrent

can_start_new_job == Cardinality(With(jobs, "IN_PROGRESS")) < MaxConcurrent

\* cleanup_old_jobs subtracts nanoseconds and compares with seconds; a job
\* cancelled before it ever finished still has completed_timestamp 0.
IsOld(job) ==
    /\ job.status \notin Active
    /\ job.completed = None \/ (clock - job.completed) * NanosPerSecond > MaxAge

\* What cleanup_old_jobs leaves of s, in its order.
NotOld(s) ==
    LET kept[i \in 0..Len(s)] ==
            IF i = 0 THEN <<>> ELSE IF IsOld(s[i]) THEN kept[i - 1] ELSE Append(kept[i - 1], s[i])
    IN  kept[Len(s)]

-----------------------------------------------------------------------------
(* Actions *)

Init ==
    /\ jobs = <<>>
    /\ worker = [w \in Worker |-> Idle]
    /\ clock = 0
    /\ requested = 0
    /\ lost = [t \in Target |-> 0]

request_replication(t, p) ==
    /\ requested < MaxRequests
    /\ Len(jobs) < MaxJobs
    /\ requested' = requested + 1
    /\ jobs' = IF Matching(t, Active) # {} THEN jobs
               ELSE prioritize_jobs(Append(jobs, [target |-> t, priority |-> p,
                                                  status |-> "PENDING", retry_count |-> 0,
                                                  completed |-> None]))
    /\ UNCHANGED <<worker, clock, lost>>

cancel_replication(t) ==
    /\ jobs' = [i \in DOMAIN jobs |->
                  IF i \in Matching(t, Active) THEN [jobs[i] EXCEPT !.status = "CANCELLED"]
                  ELSE jobs[i]]
    /\ UNCHANGED <<worker, clock, requested, lost>>

get_next_job(w) ==
    /\ worker[w] = Idle
    /\ can_start_new_job
    /\ With(jobs, "PENDING") # {}
    /\ worker' = [worker EXCEPT ![w] =
                    [phase |-> "fetched", target |-> jobs[First(With(jobs, "PENDING"))].target]]
    /\ UNCHANGED <<jobs, clock, requested, lost>>

\* Without a pending job for the target the call does nothing, and the worker
\* goes on with the copy it holds.
mark_job_started(w) ==
    LET found == Matching(worker[w].target, {"PENDING"}) IN
    /\ worker[w].phase = "fetched"
    /\ jobs' = IF found = {} THEN jobs ELSE [jobs EXCEPT ![First(found)].status = "IN_PROGRESS"]
    /\ worker' = [worker EXCEPT ![w].phase = "running"]
    /\ UNCHANGED <<clock, requested, lost>>

mark_job_completed(w, outcome) ==
    LET found == Matching(worker[w].target, {"IN_PROGRESS"}) IN
    /\ worker[w].phase = "running"
    /\ jobs' = IF found = {} THEN jobs
               ELSE [jobs EXCEPT ![First(found)].status = outcome,
                                 ![First(found)].completed = clock]
    /\ worker' = [worker EXCEPT ![w] = Idle]
    /\ UNCHANGED <<clock, requested, lost>>

\* The worker stops without a report and is replaced by a fresh one.
WorkerStops(w) ==
    /\ worker[w] # Idle
    /\ lost[worker[w].target] < MaxLost
    /\ lost' = [lost EXCEPT ![worker[w].target] = @ + 1]
    /\ worker' = [worker EXCEPT ![w] = Idle]
    /\ UNCHANGED <<jobs, clock, requested>>

\* Mutant: the list is not sorted afterwards.
retry_unsorted ==
    /\ jobs' = [i \in DOMAIN jobs |->
                    IF jobs[i].status = "FAILED" /\ jobs[i].retry_count < MaxRetries
                    THEN [jobs[i] EXCEPT !.status = "PENDING", !.retry_count = @ + 1]
                    ELSE jobs[i]]
    /\ UNCHANGED <<worker, clock, requested, lost>>

retry_failed_jobs ==
    /\ jobs' = prioritize_jobs(
                 [i \in DOMAIN jobs |->
                    IF jobs[i].status = "FAILED" /\ jobs[i].retry_count < MaxRetries
                    THEN [jobs[i] EXCEPT !.status = "PENDING", !.retry_count = @ + 1]
                    ELSE jobs[i]])
    /\ UNCHANGED <<worker, clock, requested, lost>>

cleanup_old_jobs ==
    /\ jobs' = NotOld(jobs)
    /\ UNCHANGED <<worker, clock, requested, lost>>

Tick ==
    /\ clock < MaxTime
    /\ clock' = clock + 1
    /\ UNCHANGED <<jobs, worker, requested, lost>>

Work(w) ==
    \/ get_next_job(w)
    \/ mark_job_started(w)
    \/ \E outcome \in {"COMPLETED", "FAILED"} : mark_job_completed(w, outcome)

Next ==
    \/ \E t \in Target, p \in Priority : request_replication(t, p)
    \/ \E t \in Target : cancel_replication(t)
    \/ \E w \in Worker : Work(w) \/ WorkerStops(w)
    \/ retry_failed_jobs
    \/ cleanup_old_jobs
    \/ Tick

Spec == Init /\ [][Next]_vars

\* A worker that has not stopped goes on to its next call.
FairSpec == Spec /\ \A w \in Worker : WF_vars(Work(w))

-----------------------------------------------------------------------------
(* Properties *)

TypeOK ==
    /\ jobs \in Seq([target : Target, priority : Priority, status : Status,
                     retry_count : 0..MaxRetries, completed : 0..MaxTime \cup {None}])
    /\ worker \in [Worker -> [phase : {"idle", "fetched", "running"}, target : Target \cup {None}]]
    /\ clock \in 0..MaxTime
    /\ requested \in 0..MaxRequests
    /\ lost \in [Target -> 0..MaxLost]

\* "Find highest priority pending job" (network.cpp, get_next_job): the first
\* pending job in the list has the highest priority of all pending ones,
\* although only two calls sort the list and all the others change states or
\* remove jobs in place.
NextIsMostUrgent ==
    \A i \in With(jobs, "PENDING") :
        jobs[First(With(jobs, "PENDING"))].priority >= jobs[i].priority

Running(t) == {w \in Worker : worker[w] = [phase |-> "running", target |-> t]}

\* The slots can_start_new_job counts are all accounted for: a target has no
\* more jobs in progress than workers that run for it or stopped on the way.
\* Cancelled jobs, late reports that end another job of the same target, and
\* retries never leave a slot taken with nobody to free it.
SlotsAccounted ==
    \A t \in Target :
        Cardinality(Matching(t, {"IN_PROGRESS"})) <= Cardinality(Running(t)) + lost[t]

\* As long as fewer workers stopped than there are slots, no target waits for
\* ever (without the JOB_TIMEOUT_SECONDS of network.hpp, which no code reads,
\* every stopped worker costs a slot for good).
PendingServed ==
    \A t \in Target :
        Matching(t, {"PENDING"}) # {} ~>
            \/ Matching(t, {"PENDING"}) = {}
            \/ MapThenSumSet(LAMBDA u : lost[u], Target) >= MaxConcurrent

\* The job list stays in order and its slots accounted for under concurrent
\* workers, cancellations, retries and clean-ups.
QueueSound == TypeOK /\ NextIsMostUrgent /\ SlotsAccounted
=============================================================================
