----------------------------- MODULE MCOverlay ------------------------------
(***************************************************************************)
(* The parts that move messages and content between nodes: Gossip and      *)
(* Replication. They share no state, so each behaviour follows one of      *)
(* them, chosen by part: a behaviour of all together projects to one of    *)
(* each. The values TLC checks it for are in the .cfg file.                *)
(***************************************************************************)
EXTENDS Gossip

CONSTANTS
    Target, Worker, None, Priority, MaxConcurrent, MaxRetries,
    ReplicationMaxAge, NanosPerSecond, MaxJobs, MaxRequests, MaxLost,
    ReplicationMaxTime

ASSUME ReplicationAssumption ==
    /\ IsFiniteSet(Worker) /\ None \notin Target
    /\ Priority \subseteq Int
    /\ {MaxRetries, MaxRequests, MaxLost, ReplicationMaxTime} \subseteq Nat

VARIABLES
    part,
    jobs, worker, job_clock, requested, lost

J == INSTANCE Replication WITH
    MaxAge <- ReplicationMaxAge, MaxTime <- ReplicationMaxTime,
    clock <- job_clock

J_vars == <<jobs, worker, job_clock, requested, lost>>

all_vars == <<part, vars, J_vars>>

OverlayInit ==
    /\ part \in {"gossip", "replication"}
    /\ Init
    /\ J!Init
    /\ (part = "gossip" \/ clock = [n \in Node |-> 0])

OverlayNext ==
    \/ part = "gossip" /\ Next /\ UNCHANGED <<part, J_vars>>
    \/ part = "replication" /\ J!Next /\ UNCHANGED <<part, vars>>

\* The fairness of each part: packets that are not lost arrive, and workers
\* that have not stopped go on.
OverlayFairness ==
    /\ WF_vars(part = "gossip" /\ (\E pkt \in wire : Receive(pkt)))
    /\ \A w \in Worker : WF_J_vars(part = "replication" /\ J!Work(w))

OverlaySpec == OverlayInit /\ [][OverlayNext]_all_vars /\ OverlayFairness

\* The job list stays in order and its slots accounted for under concurrent
\* workers, cancellations, retries and clean-ups (Replication).
QueueSound == part = "replication" => J!QueueSound

\* No pending job waits for ever, unless as many workers stopped without a
\* report as there are slots (Replication).
PendingServed == J!PendingServed
=============================================================================
