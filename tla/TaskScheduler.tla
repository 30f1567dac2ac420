----------------------------- MODULE TaskScheduler -----------------------------
(***************************************************************************)
(* The pool of threads that runs blocking work (common/event/             *)
(* task_scheduler.cpp): the login server's main and web threads enqueue    *)
(* checks of credentials and wait for them, the world's boot one DNS       *)
(* lookup.  Callers and workers are threads; a worker tests the condition  *)
(* under the lock and gives the lock up only once it sleeps, but Stop      *)
(* clears `running' and notifies without the lock.                         *)
(***************************************************************************)
EXTENDS Naturals, Sequences, FiniteSets

CONSTANTS Workers, Callers,
          MaxTasks           \* bound: tasks ever enqueued

VARIABLES
    running,   \* the flag
    tasks,     \* the queue, of the numbers of the tasks
    added,     \* how many have been enqueued
    worker,    \* each worker: what it does, and the task it runs
    caller,    \* each caller: what it does, and the task it waits for
    done,      \* the tasks that have been run
    owner,     \* the thread that stops the scheduler
    missed     \* the workers that had tested the flag before it was cleared and were not
               \* asleep yet when Stop notified them

vars == <<running, tasks, added, worker, caller, done, owner, missed>>

Doing(what) == [pc |-> what, task |-> 0]

\* Start: every worker begins with the test.
Init ==
    /\ running = TRUE /\ tasks = <<>> /\ added = 0
    /\ worker = [w \in Workers |-> Doing("test")]
    /\ caller = [c \in Callers |-> Doing("idle")]
    /\ done = {} /\ owner = "up" /\ missed = {}

\* A worker between its test and its wait still has the lock.
Unlocked == \A w \in Workers : worker[w].pc # "parking"

-------------------------------------------------------------------------------
(* ProcessWork. *)

\* Mutant: the task is copied, and stays in the queue.
TestKeeps(w) ==
    /\ worker[w].pc = "test" /\ Unlocked
    /\ worker' = [worker EXCEPT ![w] = IF ~running THEN Doing("ended")
                                       ELSE IF tasks = <<>> THEN Doing("parking")
                                       ELSE [pc |-> "working", task |-> Head(tasks)]]
    /\ UNCHANGED <<running, tasks, added, caller, done, owner, missed>>

Test(w) ==
    /\ worker[w].pc = "test" /\ Unlocked
    /\ \/ ~running /\ worker' = [worker EXCEPT ![w] = Doing("ended")] /\ UNCHANGED tasks
       \/ running /\ tasks = <<>> /\ worker' = [worker EXCEPT ![w] = Doing("parking")] /\ UNCHANGED tasks
       \/ /\ running /\ tasks # <<>>
          /\ worker' = [worker EXCEPT ![w] = [pc |-> "working", task |-> Head(tasks)]]
          /\ tasks' = Tail(tasks)
    /\ UNCHANGED <<running, added, caller, done, owner, missed>>

\* cv.wait gives the lock up and sleeps; it may wake for no reason.
Park(w) ==
    /\ worker[w].pc = "parking"
    /\ worker' = [worker EXCEPT ![w] = Doing("waiting")]
    /\ UNCHANGED <<running, tasks, added, caller, done, owner, missed>>

Wake(w) ==
    /\ worker[w].pc = "waiting"
    /\ worker' = [worker EXCEPT ![w] = Doing("test")]
    /\ UNCHANGED <<running, tasks, added, caller, done, owner, missed>>

Run(w) ==
    /\ worker[w].pc = "working"
    /\ done' = done \cup {worker[w].task}
    /\ worker' = [worker EXCEPT ![w] = Doing("test")]
    /\ UNCHANGED <<running, tasks, added, caller, owner, missed>>

-------------------------------------------------------------------------------
(* Enqueue: AddTask, and the caller waits for the result. *)

\* `running' is read without the lock; on a stopped scheduler AddTask throws.
CheckRunning(c) ==
    /\ caller[c].pc = "idle" /\ running
    /\ caller' = [caller EXCEPT ![c] = Doing("checked")]
    /\ UNCHANGED <<running, tasks, added, worker, done, owner, missed>>

Push(c) ==
    /\ caller[c].pc = "checked" /\ added < MaxTasks /\ Unlocked
    /\ tasks' = Append(tasks, added + 1) /\ added' = added + 1
    /\ caller' = [caller EXCEPT ![c] = [pc |-> "pushed", task |-> added + 1]]
    /\ UNCHANGED <<running, worker, done, owner, missed>>

Waiting == {w \in Workers : worker[w].pc = "waiting"}

\* notify_one.
Notify(c) ==
    /\ caller[c].pc = "pushed"
    /\ caller' = [caller EXCEPT ![c].pc = "awaiting"]
    /\ \/ Waiting = {} /\ UNCHANGED worker
       \/ \E w \in Waiting : worker' = [worker EXCEPT ![w] = Doing("test")]
    /\ UNCHANGED <<running, tasks, added, done, owner, missed>>

\* The future is ready.
Return(c) ==
    /\ caller[c].pc = "awaiting" /\ caller[c].task \in done
    /\ caller' = [caller EXCEPT ![c] = Doing("idle")]
    /\ UNCHANGED <<running, tasks, added, worker, done, owner, missed>>

-------------------------------------------------------------------------------
(* Stop, of the destructor. *)

ClearRunning ==
    /\ owner = "up"
    /\ running' = FALSE /\ owner' = "cleared"
    /\ UNCHANGED <<tasks, added, worker, caller, done, missed>>

\* Mutant: one worker is notified.
NotifyOne ==
    /\ owner = "cleared"
    /\ owner' = "joining"
    /\ \/ Waiting = {} /\ UNCHANGED worker
       \/ \E w \in Waiting : worker' = [worker EXCEPT ![w] = Doing("test")]
    /\ missed' = {w \in Workers : worker[w].pc = "parking"}
    /\ UNCHANGED <<running, tasks, added, caller, done>>

NotifyAll ==
    /\ owner = "cleared"
    /\ owner' = "joining"
    /\ worker' = [w \in Workers |-> IF w \in Waiting THEN Doing("test") ELSE worker[w]]
    /\ missed' = {w \in Workers : worker[w].pc = "parking"}
    /\ UNCHANGED <<running, tasks, added, caller, done>>

Join ==
    /\ owner = "joining" /\ \A w \in Workers : worker[w].pc = "ended"
    /\ owner' = "stopped"
    /\ UNCHANGED <<running, tasks, added, worker, caller, done, missed>>

Next ==
    \/ \E w \in Workers : Test(w) \/ Park(w) \/ Wake(w) \/ Run(w)
    \/ \E c \in Callers : CheckRunning(c) \/ Push(c) \/ Notify(c) \/ Return(c)
    \/ ClearRunning \/ NotifyAll \/ Join

Spec == Init /\ [][Next]_vars

\* Threads run and get the lock in the end, work ends, and a notified worker wakes; none
\* wakes for no reason by any right, and nobody has to enqueue or to stop.
Fairness ==
    /\ \A w \in Workers : SF_vars(Test(w)) /\ WF_vars(Park(w)) /\ WF_vars(Run(w))
    /\ \A c \in Callers : SF_vars(Push(c)) /\ WF_vars(Notify(c))
    /\ WF_vars(NotifyAll) /\ WF_vars(Join)

-------------------------------------------------------------------------------
\* Types.
TypeOK ==
    /\ running \in BOOLEAN /\ tasks \in Seq(Nat) /\ added \in Nat
    /\ worker \in [Workers -> [pc : {"test", "parking", "waiting", "working", "ended"}, task : Nat]]
    /\ caller \in [Callers -> [pc : {"idle", "checked", "pushed", "awaiting"}, task : Nat]]
    /\ done \subseteq Nat
    /\ owner \in {"up", "cleared", "joining", "stopped"}
    /\ missed \subseteq Workers

\* The tasks a worker has taken and not finished.
Running == {worker[w].task : w \in {v \in Workers : worker[v].pc = "working"}}

\* Tasks are taken in the order in which they were enqueued, each by one worker: what is
\* queued is what has not been taken, and nothing is run by two workers or again.
OnceEach ==
    /\ \E taken \in 0 .. added : /\ tasks = [i \in 1 .. added - taken |-> taken + i]
                                 /\ done \cup Running = 1 .. taken
    /\ done \cap Running = {}
    /\ \A v, w \in Workers : worker[v].pc = "working" /\ worker[w].pc = "working" /\ v # w =>
                                worker[v].task # worker[w].task

\* Stop wakes every worker but those that had tested the flag and were not asleep yet.
SleepersMissed == owner \in {"joining", "stopped"} => Waiting \subseteq missed

\* A task that is enqueued is run, unless the scheduler is stopped: no notification is lost.
Served == \A n \in 1 .. MaxTasks : n <= added ~> n \in done \/ ~running

\* Stop returns, unless it missed a worker that was about to sleep.
StopReturns == owner = "cleared" ~> owner = "stopped" \/ missed # {}
===============================================================================
