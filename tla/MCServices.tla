------------------------------- MODULE MCServices -------------------------------
(* The smaller services, one a behaviour: a data bucket in several zone processes, the task
   scheduler, a servertalk link. *)
EXTENDS DataBuckets

CONSTANTS Workers, Callers, MaxTasks, MaxConnections, MaxSent

ASSUME ServicesAssumption == MaxConnections \in Nat

VARIABLES
    service,
    running, tasks, added, worker, caller, done, owner, missed,
    m_connection, made, open, wire, buffer, m_buffer, out, sent, got, torn

pool == <<running, tasks, added, worker, caller, done, owner, missed>>
link == <<m_connection, made, open, wire, buffer, m_buffer, out, sent, got, torn>>

Pool == INSTANCE TaskScheduler
Link == INSTANCE ServertalkLink

\* A pool that has been stopped: its fairness asks nothing of the other services.
NoPool ==
    /\ running = FALSE /\ tasks = <<>> /\ added = 0 /\ done = {} /\ owner = "stopped" /\ missed = {}
    /\ worker = [w \in Workers |-> Pool!Doing("ended")]
    /\ caller = [c \in Callers |-> Pool!Doing("idle")]

MCInit ==
    /\ service \in {"buckets", "pool", "link"} /\ Init /\ Link!Init
    /\ IF service = "pool" THEN Pool!Init ELSE NoPool

MCNext ==
    /\ UNCHANGED service
    /\ \/ service = "buckets" /\ Next /\ UNCHANGED <<pool, link>>
       \/ service = "pool" /\ Pool!Next /\ UNCHANGED <<vars, link>>
       \/ service = "link" /\ Link!Next /\ UNCHANGED <<vars, pool>>

MCSpec == MCInit /\ [][MCNext]_<<service, vars, pool, link>> /\ Pool!Fairness /\ Link!Fairness

\* The types of all three.
Types == TypeOK /\ Pool!TypeOK /\ Link!TypeOK

\* TaskScheduler: every task is queued, being run by one worker or done, in order.
OnceEach == Pool!OnceEach

\* TaskScheduler: an enqueued task is run, unless the scheduler is stopped; Stop returns,
\* unless it missed a worker that was about to sleep.
PoolServes == Pool!Served /\ Pool!StopReturns

\* ServertalkLink: both ends read whole messages in order, without a gap, from each
\* connection, the clients if no connection ends in the middle of a frame.
LinkFaithful == Link!LinkFaithful

\* ServertalkLink: what is written to a connection that holds comes out.
Arrives == Link!Arrives
=================================================================================
