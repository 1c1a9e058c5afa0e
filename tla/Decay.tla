------------------------------- MODULE Decay --------------------------------
(***************************************************************************)
(* DecayScheduler of core/decay/decay.cpp: what it has seen of nodes and   *)
(* of a Thing, and which keys and Things it finds due for decay; and       *)
(* DecayRunner of core/decay/decay_runner.cpp: the thread that checks for  *)
(* decay.                                                                  *)
(*                                                                         *)
(* The scheduler decides and keeps a history; taking keys away is left to  *)
(* a layer that is not in the repository, so balances change only by       *)
(* NodeChanges, which stands for the state manager.  Things share nothing, *)
(* and one is enough.  Times start at 1: a timestamp of 0 means never.     *)
(*                                                                         *)
(* One thread calls start and stop of the runner, another trigger_check;   *)
(* running_ and trigger_ are atomics, and every load and store of them     *)
(* that matters to another thread is a step.  The interval may elapse at   *)
(* any time.  The statistics are left out.  The callback does not call the *)
(* runner (stop would join its own thread).                                *)
(***************************************************************************)
EXTENDS Integers

CONSTANTS
    Node,
    KeyType,
    Policy,          \* Policy[k]: key_policies_, [max_age, threshold, requires_activity, min_actions]
    ThingIdle,       \* inactivity_threshold of ThingDecayPolicy (30 days)
    ThingAge,        \* max_age_seconds of ThingDecayPolicy (90 days)
    MinHosts,        \* min_hosts_required (2)
    ForgetAfter,     \* threshold of cleanup_inactive_nodes (30 days)
    None,
    MaxActions,      \* bound: uses of a key type counted in an epoch
    MaxHosts,        \* bound: hosts of the Thing
    MaxTime          \* bound: last time explored

ASSUME DecayAssumption ==
    /\ Policy \in [KeyType -> [max_age : Nat, threshold : Nat, requires_activity : BOOLEAN,
                               min_actions : Nat]]
    /\ ThingIdle \in Nat /\ ThingAge \in Nat /\ MinHosts \in Nat
    /\ ForgetAfter \in Nat /\ MaxActions \in Nat /\ MaxHosts \in Nat /\ MaxTime \in Nat \ {0}

\* A node is not forgotten before its keys may decay: by default after 30 days,
\* the thresholds being 7 and 14.
ASSUME ForgetAssumption ==
    \A k \in KeyType : Policy[k].max_age # 0 => Policy[k].threshold <= ForgetAfter

ASSUME NoneAssumption ==
    /\ None \notin Nat
    /\ None # "INACTIVITY"
    /\ None \notin [last_seen : Nat, last_use : [KeyType -> Nat \cup {None}], actions : [KeyType -> Nat]]
    /\ None \notin [created_at : Nat, last_accessed : Nat, accessed : BOOLEAN, hosts : Nat]

VARIABLES
    held,            \* held[n]: key types an active node has a balance of, or None
    thing,           \* things_ of the state manager: [created_at, hosts], or None
    node_activity,   \* node_activities_[n], or None
    thing_activity,  \* thing_activities_ of the Thing, or None
    now,
    reported,        \* reported[n]: last record_node_activity (history)
    used,            \* used[n][k]: last use of k, unless n was silent for longer
                     \* than ForgetAfter since then (history)
    visited,         \* last access of the Thing but for the first (history)
    running,         \* running_
    trigger,         \* trigger_
    worker,          \* where the worker thread is, "none" without a thread
    stopping,        \* the controller is in join
    calling,         \* a caller of trigger_check has seen that running_ is true
    asked            \* a trigger_check has returned and no check began since (history)

scheduler_vars == <<held, thing, node_activity, thing_activity, now, reported, used, visited>>
runner_vars == <<running, trigger, worker, stopping, calling, asked>>

vars == <<scheduler_vars, runner_vars>>

NewNodeActivity ==
    [last_seen |-> 0, last_use |-> [k \in KeyType |-> None], actions |-> [k \in KeyType |-> 0]]

NewThingActivity == [created_at |-> 0, last_accessed |-> 0, accessed |-> FALSE, hosts |-> 0]

NodeActivityOf(n) == IF node_activity[n] = None THEN NewNodeActivity ELSE node_activity[n]

ThingActivityOf == IF thing_activity = None THEN NewThingActivity ELSE thing_activity

-----------------------------------------------------------------------------
(* What is due *)

is_inactive(last, threshold) == now - last > threshold

has_used_key_type(a, k, threshold) ==
    a.last_use[k] # None /\ ~is_inactive(a.last_use[k], threshold)

\* check_key_decay starts to follow the active nodes it does not know.
Tracked ==
    [n \in Node |-> IF node_activity[n] = None /\ held[n] # None
                    THEN [NewNodeActivity EXCEPT !.last_seen = now] ELSE node_activity[n]]

\* The reason for a decay, or None.  A policy without a maximal age is for
\* keys that never decay.
should_decay_key(a, k) ==
    LET policy == Policy[k]
        idle   == \/ is_inactive(a.last_seen, policy.threshold)
                  \/ policy.requires_activity /\ ~has_used_key_type(a, k, policy.threshold)
        poor   == policy.requires_activity /\ a.actions[k] < policy.min_actions
    IN  IF policy.max_age # 0 /\ idle THEN "INACTIVITY"
        ELSE IF policy.max_age # 0 /\ poor THEN "POOR_PERFORMANCE"
        ELSE None

\* The reason check_key_decay gives for a key of a node, or None.
KeyDecay(n, k) ==
    IF held[n] # None /\ k \in held[n] THEN should_decay_key(Tracked[n], k) ELSE None

\* The first time, the time of the access is replaced by that of the creation.
update_thing_activity_from_state(a) ==
    IF thing = None THEN a
    ELSE [a EXCEPT !.hosts = thing.hosts,
                   !.last_accessed = IF a.created_at = 0 THEN thing.created_at ELSE @,
                   !.created_at = IF @ = 0 THEN thing.created_at ELSE @]

IsAvailable == thing # None /\ thing.hosts > 0

TrackedThing ==
    IF IsAvailable /\ thing_activity = None
    THEN update_thing_activity_from_state(NewThingActivity) ELSE thing_activity

\* The reason for a decay, or None.  hosts is what it was at the last access,
\* not what it is.
should_decay_thing(a) ==
    IF is_inactive(a.last_accessed, ThingIdle) THEN "INACTIVITY"
    ELSE IF a.hosts < MinHosts THEN "RESOURCE_SHORTAGE"
    ELSE IF now - a.created_at > ThingAge /\ ~a.accessed THEN "EXPIRATION"
    ELSE None

ThingDecay == IF IsAvailable THEN should_decay_thing(TrackedThing) ELSE None

-----------------------------------------------------------------------------
(* Actions of the scheduler *)

SchedulerInit ==
    /\ held = [n \in Node |-> None]
    /\ thing = None
    /\ node_activity = [n \in Node |-> None]
    /\ thing_activity = None
    /\ now = 1
    /\ reported = [n \in Node |-> None]
    /\ used = [n \in Node |-> [k \in KeyType |-> None]]
    /\ visited = None

InTouch(n) == reported[n] # None /\ now - reported[n] <= ForgetAfter

record_node_activity(n) ==
    /\ node_activity' = [node_activity EXCEPT ![n] = [NodeActivityOf(n) EXCEPT !.last_seen = now]]
    /\ reported' = [reported EXCEPT ![n] = now]
    /\ UNCHANGED <<held, thing, thing_activity, now, used, visited>>

\* last_seen stays: a node known only by the use of a key was never seen.
record_key_use(n, k) ==
    /\ NodeActivityOf(n).actions[k] < MaxActions
    /\ node_activity' = [node_activity EXCEPT ![n] =
          [NodeActivityOf(n) EXCEPT !.last_use[k] = now, !.actions[k] = @ + 1]]
    /\ used' = IF InTouch(n) THEN [used EXCEPT ![n][k] = now] ELSE used
    /\ UNCHANGED <<held, thing, thing_activity, now, reported, visited>>

record_thing_access ==
    /\ thing_activity' = update_thing_activity_from_state(
          [ThingActivityOf EXCEPT !.last_accessed = now, !.accessed = TRUE])
    /\ visited' = IF ThingActivityOf.created_at # 0 THEN now ELSE visited
    /\ UNCHANGED <<held, thing, node_activity, now, reported, used>>

check_key_decay ==
    /\ node_activity' = Tracked
    /\ UNCHANGED <<held, thing, thing_activity, now, reported, used, visited>>

check_thing_decay ==
    /\ thing_activity' = TrackedThing
    /\ UNCHANGED <<held, thing, node_activity, now, reported, used, visited>>

\* Also force_decay_check.  Only this call clears actions_this_epoch.
process_epoch ==
    /\ node_activity' = [n \in Node |->
          IF Tracked[n] = None THEN None ELSE [Tracked[n] EXCEPT !.actions = NewNodeActivity.actions]]
    /\ thing_activity' = TrackedThing
    /\ UNCHANGED <<held, thing, now, reported, used, visited>>

\* Mutant: a node is forgotten as soon as one of its keys may decay.
cleanup_too_soon ==
    /\ node_activity' = [n \in Node |->
          IF node_activity[n] # None /\ \E k \in KeyType :
                 now - node_activity[n].last_seen >= Policy[k].threshold
          THEN None ELSE node_activity[n]]
    /\ UNCHANGED <<held, thing, thing_activity, now, reported, used, visited>>

cleanup_inactive_nodes ==
    /\ node_activity' = [n \in Node |->
          IF node_activity[n] # None /\ is_inactive(NodeActivityOf(n).last_seen, ForgetAfter)
          THEN None ELSE node_activity[n]]
    /\ UNCHANGED <<held, thing, thing_activity, now, reported, used, visited>>

\* The state manager: nodes come, go and get keys.
NodeChanges ==
    /\ \E n \in Node, h \in (SUBSET KeyType) \cup {None} : held' = [held EXCEPT ![n] = h]
    /\ UNCHANGED <<thing, node_activity, thing_activity, now, reported, used, visited>>

\* Every replication sets created_at anew; without hosts the Thing is kept.
ThingChanges ==
    /\ \/ thing' = [created_at |-> now, hosts |-> IF thing = None THEN 1 ELSE thing.hosts + 1]
       \/ IsAvailable /\ thing' = [thing EXCEPT !.hosts = @ - 1]
    /\ thing'.hosts <= MaxHosts
    /\ UNCHANGED <<held, node_activity, thing_activity, now, reported, used, visited>>

\* A node that falls silent for too long has lost what it did.
Tick ==
    /\ now < MaxTime
    /\ now' = now + 1
    /\ used' = [n \in Node |-> IF InTouch(n) /\ now + 1 - reported[n] <= ForgetAfter THEN used[n]
                               ELSE [k \in KeyType |-> None]]
    /\ UNCHANGED <<held, thing, node_activity, thing_activity, reported, visited>>

SchedulerNext ==
    \/ \E n \in Node : record_node_activity(n) \/ \E k \in KeyType : record_key_use(n, k)
    \/ record_thing_access
    \/ process_epoch
    \/ cleanup_inactive_nodes
    \/ NodeChanges
    \/ ThingChanges
    \/ Tick

-----------------------------------------------------------------------------
(* The runner *)

Init ==
    /\ SchedulerInit
    /\ running = FALSE /\ trigger = FALSE /\ worker = "none"
    /\ stopping = FALSE /\ calling = FALSE /\ asked = FALSE

-----------------------------------------------------------------------------
(* The callers *)

\* running_ is false only when the thread has been joined.
start ==
    /\ ~running /\ ~stopping
    /\ running' = TRUE
    /\ worker' = "wait"
    /\ UNCHANGED <<scheduler_vars, trigger, stopping, calling, asked>>

stop ==
    /\ running
    /\ running' = FALSE
    /\ stopping' = TRUE
    /\ UNCHANGED <<scheduler_vars, trigger, worker, calling, asked>>

join ==
    /\ stopping /\ worker = "done"
    /\ stopping' = FALSE
    /\ worker' = "none"
    /\ UNCHANGED <<scheduler_vars, running, trigger, calling, asked>>

\* trigger_check, up to its test of running_.
trigger_check ==
    /\ running /\ ~calling
    /\ calling' = TRUE
    /\ UNCHANGED <<scheduler_vars, running, trigger, worker, stopping, asked>>

\* The runner may have been stopped, even started again, since.
SetTrigger ==
    /\ calling
    /\ trigger' = TRUE
    /\ calling' = FALSE
    /\ asked' = TRUE
    /\ UNCHANGED <<scheduler_vars, running, worker, stopping>>

-----------------------------------------------------------------------------
(* The worker *)

\* Either loop ends because running_ is false.
Leave ==
    /\ worker \in {"wait", "due"} /\ ~running
    /\ worker' = "done"
    /\ UNCHANGED <<scheduler_vars, running, trigger, stopping, calling, asked>>

WakeUp ==
    /\ worker = "wait" /\ running
    /\ worker' = "due"
    /\ UNCHANGED <<scheduler_vars, running, trigger, stopping, calling, asked>>

IntervalElapsed == WakeUp

Triggered == trigger /\ WakeUp

LookAgain ==
    /\ worker = "due" /\ running
    /\ worker' = IF trigger THEN "clear" ELSE "begin"
    /\ UNCHANGED <<scheduler_vars, running, trigger, stopping, calling, asked>>

ClearTrigger ==
    /\ worker = "clear"
    /\ trigger' = FALSE
    /\ worker' = "begin"
    /\ UNCHANGED <<scheduler_vars, running, stopping, calling, asked>>

\* perform_decay_check, up to the end of check_key_decay.
CheckKeys ==
    /\ worker = "begin"
    /\ check_key_decay
    /\ worker' = "things"
    /\ asked' = FALSE
    /\ UNCHANGED <<running, trigger, stopping, calling>>

CheckThings ==
    /\ worker = "things"
    /\ check_thing_decay
    /\ worker' = "report"
    /\ UNCHANGED <<running, trigger, stopping, calling, asked>>

\* Mutant: the trigger is cleared again when the check is over.
EndCheckClearing ==
    /\ worker = "report"
    /\ worker' = "wait"
    /\ trigger' = FALSE
    /\ UNCHANGED <<scheduler_vars, running, stopping, calling, asked>>

\* The decays are recorded and the callback called; the interval starts anew.
EndCheck ==
    /\ worker = "report"
    /\ worker' = "wait"
    /\ UNCHANGED <<scheduler_vars, running, trigger, stopping, calling, asked>>

Worker == Leave \/ Triggered \/ LookAgain \/ ClearTrigger \/ CheckKeys \/ CheckThings \/ EndCheck

Next ==
    \/ start
    \/ stop
    \/ join
    \/ trigger_check
    \/ SetTrigger
    \/ Worker
    \/ IntervalElapsed
    \/ SchedulerNext /\ UNCHANGED runner_vars

Spec == Init /\ [][Next]_vars

\* The worker thread runs, and so does whoever has begun a call.  Nothing is
\* assumed of the interval: no property below waits for it.
FairSpec == Spec /\ WF_vars(Worker) /\ WF_vars(join) /\ WF_vars(SetTrigger)

-----------------------------------------------------------------------------
(* Properties *)

IsRecent(t, threshold) == t # None /\ now - t <= threshold

\* "INACTIVITY,          // Node offline too long" (decay.hpp): no key is found
\* inactive whose node reported in time and, where the policy asks for it, used
\* it in time; and no Thing that was accessed in time and not for the first
\* time; whatever checks, epochs, clean-ups and changes of the state lie in
\* between.
NoFalseInactivity ==
    /\ \A n \in Node, k \in KeyType :
           KeyDecay(n, k) = "INACTIVITY" =>
               \/ ~IsRecent(reported[n], Policy[k].threshold)
               \/ Policy[k].requires_activity /\ ~IsRecent(used[n][k], Policy[k].threshold)
    /\ ThingDecay = "INACTIVITY" => ~IsRecent(visited, ThingIdle)

\* A request is served by a check that begins after it, without waiting for
\* the interval and though it comes at any moment of a check under way, unless
\* the runner is stopped.
TriggerServed == asked ~> (~asked \/ ~running)

\* stop returns: the worker leaves its loops from wherever it is.
StopReturns == stopping ~> ~stopping

\* Nobody waits for the runner for ever: requests are served and stop returns.
CallersServed == TriggerServed /\ StopReturns
=============================================================================
