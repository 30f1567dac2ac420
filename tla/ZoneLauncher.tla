----------------------------- MODULE ZoneLauncher -----------------------------
(***************************************************************************)
(* The launcher (eqlaunch/): one process that starts a zone process for    *)
(* every zone the world server names, starts it again when it dies, and    *)
(* restarts or stops it on request.  Modelled together are the zone's      *)
(* state machine (zone_launch.cpp), the table of children and the SIGCHLD  *)
(* handler (common/proc_launcher.cpp), the world's requests                *)
(* (eqlaunch/worldserver.cpp) and the main loop (eqlaunch.cpp).            *)
(*                                                                         *)
(* A timer that is on may be over at any time.  s_startTimer, which only   *)
(* spaces the launches, is left out.                                       *)
(***************************************************************************)
EXTENDS Integers, Sequences, FiniteSets, Functions

CONSTANTS Zones,
          Coalesce,    \* whether two children may die before SIGCHLD is taken
          Stubborn,    \* whether a zone may ignore SIGTERM
          Unkillable,  \* whether a child may outlive SIGKILL for TerminateWait
          KillMayFail, \* whether kill() may fail
          MayShutDown, \* whether the launcher is told to end
          KillLimit,   \* the literal 5 of ZoneLaunch::Process
          MaxObjects,  \* bound: requests that create a ZoneLaunch
          MaxLaunches  \* bound: zone processes

ASSUME LauncherAssumption ==
    /\ {Coalesce, Stubborn, Unkillable, KillMayFail, MayShutDown} \subseteq BOOLEAN
    /\ {KillLimit, MaxObjects, MaxLaunches} \subseteq Nat

VARIABLES
    zones,         \* zone -> its ZoneLaunch
    objects,       \* how many ZoneLaunch were ever made
    s_running,
    m_running,     \* pid -> handler, the ZoneLaunch that started it
    child,         \* pid -> process
    sigchld,       \* SIGCHLD is pending
    m_signalCount,
    up,            \* what the world was told last of a zone
    phase          \* of main()

\* Auxiliary, read by no step: the children the launcher has stopped waiting
\* for, because kill() failed or because they outlived the last timeout.
VARIABLES refused, outlived

given_up == refused \cup outlived
aux  == <<refused, outlived>>
vars == <<zones, objects, s_running, m_running, child, sigchld, m_signalCount,
          up, phase, aux>>

Pids == DOMAIN child
IsRunning(state) == state \in {"Started", "StopPending", "RestartPending"}

Init == /\ zones = <<>> /\ objects = 0 /\ s_running = 0
        /\ m_running = <<>> /\ child = <<>>
        /\ sigchld = FALSE /\ m_signalCount = 0
        /\ up = [z \in Zones |-> FALSE] /\ phase = "Loop"
        /\ refused = {} /\ outlived = {}

-------------------------------------------------------------------------------
(* The operating system. *)

\* kill(): the process may catch SIGTERM, but not SIGKILL.
Signal(pid, graceful) ==
    child' = IF graceful THEN [child EXCEPT ![pid].term = TRUE]
             ELSE [child EXCEPT ![pid].kill = TRUE]

Die(pid) ==
    /\ child[pid].status = "Alive"
    /\ Coalesce \/ ~sigchld
    /\ child' = [child EXCEPT ![pid].status = "Dead"]
    /\ sigchld' = TRUE
    /\ UNCHANGED <<zones, objects, s_running, m_running, m_signalCount, up, phase,
                   aux>>

DieOfSignal(pid) == /\ child[pid].kill \/ (child[pid].term /\ ~Stubborn)
                    /\ Die(pid)

HandleSigChild ==
    /\ sigchld
    /\ sigchld' = FALSE
    /\ m_signalCount' = m_signalCount + 1
    /\ UNCHANGED <<zones, objects, s_running, m_running, child, up, phase, aux>>

-------------------------------------------------------------------------------
(* ZoneLaunch. *)

SetZone(z, state, timer) ==
    zones' = [zones EXCEPT ![z].state = state, ![z].timer = timer]

\* A launch that fails only restarts the timer.
Start(z) ==
    LET pid == Len(child) + 1
    IN  /\ phase = "Loop" /\ zones[z].state = "StartPending" /\ zones[z].timer
        /\ pid <= MaxLaunches
        /\ child' = Append(child, [zone |-> z, status |-> "Alive",
                                   term |-> FALSE, kill |-> FALSE])
        /\ m_running' = [p \in DOMAIN m_running \cup {pid} |->
                           IF p = pid THEN zones[z].object ELSE m_running[p]]
        /\ zones' = [zones EXCEPT ![z] = [@ EXCEPT !.state = "Started", !.pid = pid,
                                            !.timer = FALSE, !.kill_fails = 0]]
        /\ s_running' = s_running + 1
        /\ up' = [up EXCEPT ![z] = TRUE]
        /\ UNCHANGED <<objects, sigchld, m_signalCount, phase, aux>>

\* Mutants: a restart counts as a stop; a restart does not wait for the death.
RestartUncounted(z) ==
    /\ phase = "Loop" /\ zones[z].state = "Started"
    /\ Signal(zones[z].pid, TRUE)
    /\ SetZone(z, "RestartPending", TRUE)
    /\ s_running' = s_running - 1
    /\ UNCHANGED <<objects, m_running, sigchld, m_signalCount, up, phase, aux>>
RestartAtOnce(z) ==
    /\ phase = "Loop" /\ zones[z].state = "Started"
    /\ Signal(zones[z].pid, TRUE)
    /\ SetZone(z, "StartPending", TRUE)
    /\ UNCHANGED <<objects, s_running, m_running, sigchld, m_signalCount, up, phase,
                   aux>>

\* Restart() of a zone that runs; in any other state it does nothing, in
\* RestartPending as well, although Process calls it there to "kill again".
Restart(z) ==
    /\ phase = "Loop" /\ zones[z].state = "Started"
    /\ \/ /\ Signal(zones[z].pid, TRUE)
          /\ SetZone(z, "RestartPending", TRUE)
          /\ UNCHANGED refused
       \/ /\ KillMayFail
          /\ SetZone(z, "Stopped", zones[z].timer)
          /\ refused' = refused \cup {zones[z].pid}
          /\ UNCHANGED child
    /\ UNCHANGED <<objects, s_running, m_running, sigchld, m_signalCount, up, phase,
                   outlived>>

StopWith(z, graceful, fails) ==
    \/ /\ zones[z].state = "StartPending"
       /\ SetZone(z, "Stopped", zones[z].timer)
       /\ UNCHANGED <<child, refused>>
    \/ /\ IsRunning(zones[z].state)
       /\ Signal(zones[z].pid, graceful)
       /\ zones' = [zones EXCEPT ![z] = [@ EXCEPT !.state = "StopPending",
                                           !.timer = TRUE, !.kill_fails = fails]]
       /\ UNCHANGED refused
    \/ /\ IsRunning(zones[z].state) /\ KillMayFail
       /\ zones' = [zones EXCEPT ![z] = [@ EXCEPT !.state = "Stopped",
                                           !.kill_fails = fails]]
       /\ refused' = refused \cup {zones[z].pid}
       /\ UNCHANGED child

Stop(z) ==
    /\ phase = "Loop"
    /\ StopWith(z, TRUE, zones[z].kill_fails)
    /\ UNCHANGED <<objects, s_running, m_running, sigchld, m_signalCount, up, phase,
                   outlived>>

\* The child has not died in time.  That it does die of SIGKILL, and is
\* reaped, before the timer is over again is an assumption.
TimedOut(z) ==
    /\ phase = "Loop" /\ zones[z].state = "StopPending" /\ zones[z].timer
    /\ LET c == child[zones[z].pid]
       IN  Unkillable \/ ~c.kill \/ (Coalesce /\ c.status = "Dead")

\* Mutant: the attempts are not limited.
KillAgainForEver(z) ==
    /\ TimedOut(z)
    /\ StopWith(z, FALSE, zones[z].kill_fails + 1)
    /\ UNCHANGED <<objects, s_running, m_running, sigchld, m_signalCount, up, phase,
                   outlived>>

KillAgain(z) ==
    /\ TimedOut(z) /\ zones[z].kill_fails < KillLimit
    /\ StopWith(z, FALSE, zones[z].kill_fails + 1)
    /\ UNCHANGED <<objects, s_running, m_running, sigchld, m_signalCount, up, phase,
                   outlived>>

GiveUp(z) ==
    /\ TimedOut(z) /\ zones[z].kill_fails = KillLimit
    /\ SetZone(z, "Stopped", TRUE)
    /\ s_running' = s_running - 1
    /\ up' = [up EXCEPT ![z] = FALSE]
    /\ outlived' = outlived \cup {zones[z].pid}
    /\ UNCHANGED <<objects, m_running, child, sigchld, m_signalCount, phase, refused>>

\* Mutant: a zone is deleted as soon as it is told to stop.
RemoveEarly(z) ==
    /\ phase = "Loop" /\ zones[z].state \in {"StopPending", "Stopped"}
    /\ zones' = Restrict(zones, DOMAIN zones \ {z})
    /\ UNCHANGED <<objects, s_running, m_running, child, sigchld, m_signalCount,
                   up, phase, aux>>

\* The main loop deletes a ZoneLaunch whose Process returns false.
Remove(z) ==
    /\ phase = "Loop" /\ zones[z].state = "Stopped"
    /\ zones' = Restrict(zones, DOMAIN zones \ {z})
    /\ UNCHANGED <<objects, s_running, m_running, child, sigchld, m_signalCount,
                   up, phase, aux>>

\* Mutants: the world is not told; a stopped zone is started again; the timer
\* of a zone that crashed stays off.
OnTerminateSilent(z) ==
    /\ SetZone(z, IF zones[z].state \in {"StopPending", "Stopped"} THEN "Stopped"
                  ELSE "StartPending", TRUE)
    /\ s_running' = s_running - 1
    /\ UNCHANGED up
OnTerminateRevive(z) ==
    /\ SetZone(z, "StartPending", TRUE)
    /\ s_running' = s_running - 1
    /\ up' = [up EXCEPT ![z] = FALSE]
OnTerminateIdle(z) ==
    /\ SetZone(z, IF zones[z].state \in {"StopPending", "Stopped"} THEN "Stopped"
                  ELSE "StartPending", zones[z].timer)
    /\ s_running' = s_running - 1
    /\ up' = [up EXCEPT ![z] = FALSE]

OnTerminate(z) ==
    LET old == zones[z].state
        new == CASE old \in {"StopPending", "Stopped"} -> "Stopped"
                 [] OTHER -> "StartPending"
    IN  /\ SetZone(z, new, zones[z].timer \/ old \in {"StartPending", "Started"})
        /\ s_running' = s_running - 1
        /\ up' = [up EXCEPT ![z] = IsRunning(new)]

-------------------------------------------------------------------------------
(* ProcLauncher::Process, one round of its loop. *)

Alive(handler) == \E z \in DOMAIN zones : zones[z].object = handler

\* One of the dead children is reaped and its handler called, if there is one.
\* Every signal counted has a death of its own, so that waitpid never comes
\* back with nothing.
Reap(pid) ==
    /\ phase # "Exited" /\ m_signalCount > 0
    /\ m_signalCount' = m_signalCount - 1
    /\ child[pid].status = "Dead"
    /\ child' = [child EXCEPT ![pid].status = "Reaped"]
    /\ m_running' = Restrict(m_running, DOMAIN m_running \ {pid})
    /\ \/ /\ Alive(m_running[pid])
          /\ OnTerminate(child[pid].zone)
          /\ UNCHANGED phase
       \/ /\ ~Alive(m_running[pid])  \* the ZoneLaunch is gone: anything goes
          /\ \/ phase' = "Exited" /\ UNCHANGED s_running
             \/ s_running' = s_running - 1 /\ UNCHANGED phase
          /\ UNCHANGED <<zones, up>>
    /\ UNCHANGED <<objects, sigchld, aux>>

-------------------------------------------------------------------------------
(* The world's requests, and the end. *)

\* ZR_Start; ignored when the zone is known, even if it is about to stop.
StartZone(z) ==
    /\ phase = "Loop" /\ z \notin DOMAIN zones /\ objects < MaxObjects
    /\ objects' = objects + 1
    /\ zones' = [y \in DOMAIN zones \cup {z} |->
                   IF y = z THEN [object |-> objects', state |-> "StartPending",
                                  pid |-> 0, timer |-> TRUE, kill_fails |-> 0]
                   ELSE zones[y]]
    /\ UNCHANGED <<s_running, m_running, child, sigchld, m_signalCount, up, phase, aux>>

\* main() after the loop: every zone is stopped, and TerminateAll(false)
\* sends SIGTERM to every child;
ShutDown ==
    /\ MayShutDown /\ phase = "Loop"
    /\ phase' = "Ending"
    /\ zones' = [z \in DOMAIN zones |->
                   [zones[z] EXCEPT !.state = IF IsRunning(@) THEN "StopPending"
                                              ELSE "Stopped"]]
    /\ child' = [pid \in Pids |-> IF pid \in DOMAIN m_running
                                  THEN [child[pid] EXCEPT !.term = TRUE]
                                  ELSE child[pid]]
    /\ UNCHANGED <<objects, s_running, m_running, sigchld, m_signalCount, up, aux>>

\* ... then TerminateAll(true), which empties the table before it looks the
\* children up in it, so that Terminate finds none of them.
Exit ==
    /\ phase = "Ending"
    /\ phase' = "Exited"
    /\ m_running' = <<>>
    /\ UNCHANGED <<zones, objects, s_running, child, sigchld, m_signalCount, up, aux>>

Next == \/ HandleSigChild \/ ShutDown \/ Exit
        \/ \E pid \in Pids : Die(pid) \/ Reap(pid)
        \/ \E z \in Zones : StartZone(z)
        \/ \E z \in DOMAIN zones :
             \/ Start(z) \/ Restart(z) \/ Stop(z)
             \/ KillAgain(z) \/ GiveUp(z) \/ Remove(z)

Spec == Init /\ [][Next]_vars

\* The loop goes round every 32 milliseconds and every timer that is on ends;
\* signals are delivered, and kill those they can.
SomeReap == \E pid \in Pids : Reap(pid)
Again(z) == z \in DOMAIN zones /\ (Start(z) \/ KillAgain(z) \/ GiveUp(z) \/ Remove(z))

Fairness == /\ WF_vars(HandleSigChild) /\ WF_vars(SomeReap)
            /\ \A z \in Zones : WF_vars(Again(z))
            /\ \A pid \in 1 .. MaxLaunches :
                 WF_vars(pid \in Pids /\ DieOfSignal(pid))

FairSpec == Spec /\ Fairness
-------------------------------------------------------------------------------
(* Properties. *)

ZoneStates == {"StartPending", "Started", "RestartPending", "StopPending",
               "Stopped"}
ZoneLaunch == [object : 1 .. MaxObjects, state : ZoneStates,
               pid : 0 .. MaxLaunches, timer : BOOLEAN,
               kill_fails : 0 .. KillLimit]
ChildType  == [zone : Zones, status : {"Alive", "Dead", "Reaped"},
               term : BOOLEAN, kill : BOOLEAN]

\* Every variable has its type.
TypeOK == /\ DOMAIN zones \subseteq Zones
          /\ zones \in [DOMAIN zones -> ZoneLaunch]
          /\ objects \in 0 .. MaxObjects /\ s_running \in Int
          /\ child \in Seq(ChildType) /\ Len(child) <= MaxLaunches
          /\ DOMAIN m_running \subseteq Pids
          /\ m_running \in [DOMAIN m_running -> 1 .. MaxObjects]
          /\ sigchld \in BOOLEAN /\ m_signalCount \in Nat
          /\ up \in [Zones -> BOOLEAN] /\ phase \in {"Loop", "Ending", "Exited"}
          /\ given_up \subseteq 0 .. MaxLaunches

State(z) == IF z \in DOMAIN zones THEN zones[z].state ELSE "Stopped"
Running  == {z \in Zones : IsRunning(State(z))}

Reaped(pids) == {pid \in pids : child[pid].status = "Reaped"}

\* By how much the children given up falsify s_running.
Off == Cardinality(refused \ Reaped(refused)) - Cardinality(Reaped(outlived))

\* s_running, from which the interval to the next launch is chosen, is "the
\* number of zones running under this launcher", through every restart, crash,
\* stop and repeated kill.  What it is off by is what the launcher has given
\* up: a child that kill() did not reach counts until it is reaped, and one
\* that outlived its timeouts is counted off again when it is.
RunningCount == phase = "Loop" => s_running = Cardinality(Running) + Off

\* The handler of every child that may yet be reaped is a ZoneLaunch that has
\* not been deleted, unless the launcher has given the child up.
HandlersAlive == phase = "Loop" =>
                     \A pid \in DOMAIN m_running \ given_up : Alive(m_running[pid])

\* No zone ever runs in two processes, whatever requests come while one dies,
\* unless the launcher has given up the older.
OneProcess == \A p, q \in Pids :
                  /\ child[p].status = "Alive" /\ child[q].status = "Alive"
                  /\ child[p].zone = child[q].zone /\ p < q
                  => p \in given_up

\* What the world was told last of a zone is so, also after the launcher has
\* given up waiting for its process, unless a kill() failed.
WorldInformed ==
    phase = "Loop" =>
        \A z \in Zones : (\A pid \in refused : child[pid].zone # z) =>
                             (up[z] <=> z \in Running)

\* The strengthening of these four that every step keeps: the table of
\* children and the zones' states tell of the same processes, apart from those
\* given up, and one of these has a handler that is stopped, or none.
Registered ==
    \A pid \in DOMAIN m_running \ given_up :
        LET z == child[pid].zone
        IN  /\ z \in Running /\ zones[z].pid = pid
            /\ zones[z].object = m_running[pid]

Hosted ==
    \A z \in Running :
        LET pid == zones[z].pid
        IN  pid \in DOMAIN m_running \ given_up /\ child[pid].zone = z

Abandoned ==
    /\ given_up \subseteq Pids /\ refused \cap outlived = {}
    /\ \A pid \in DOMAIN m_running : \A z \in DOMAIN zones :
           zones[z].object = m_running[pid] =>
               /\ z = child[pid].zone
               /\ pid \in given_up => zones[z].state = "Stopped"

Numbered ==
    /\ \A z \in DOMAIN zones : zones[z].object <= objects
    /\ \A pid \in DOMAIN m_running : m_running[pid] <= objects
    /\ \A y, z \in DOMAIN zones : zones[y].object = zones[z].object => y = z

Unreaped == DOMAIN m_running = {pid \in Pids : child[pid].status # "Reaped"}

Books == /\ Registered /\ Hosted /\ Abandoned /\ Numbered /\ Unreaped
         /\ IsFiniteSet(Running)

Inductive == /\ TypeOK /\ OneProcess /\ RunningCount /\ WorldInformed
             /\ phase = "Loop" => Books

\* A ZoneLaunch that is stopping or stopped is never started again: no restart
\* request, timer or late death undoes a stop.
StopKept ==
    \A z \in DOMAIN zones :
        zones[z].state \in {"StopPending", "Stopped"} =>
            \/ z \notin DOMAIN zones' \/ zones'[z].object # zones[z].object
            \/ zones'[z].state \in {"StopPending", "Stopped"}

StopIsFinal == [][StopKept]_vars

\* The deaths that no SIGCHLD tells of any more: two that share one count once.
Untold == Cardinality({pid \in Pids : child[pid].status = "Dead"})
          - m_signalCount - (IF sigchld THEN 1 ELSE 0)

\* The death of a zone is noticed ("called when the process actually dies
\* off..."), and unless the zone is stopped it is started again, whatever else
\* dies, hangs or cannot be killed, as long as no two deaths share a SIGCHLD.
Recovers ==
    \A z \in Zones :
        State(z) = "Started" /\ child[zones[z].pid].status = "Dead"
            ~> \/ State(z) = "Started" /\ child[zones[z].pid].status = "Alive"
               \/ State(z) \in {"StopPending", "Stopped"} \/ phase # "Loop"
               \/ Untold > 0 \/ Len(child) = MaxLaunches

\* A restart that was asked for takes place ("we have timed out, try to kill
\* the child again").
RestartEnds == \A z \in Zones :
    State(z) = "RestartPending" ~> State(z) # "RestartPending" \/ phase # "Loop"

\* When the launcher exits, a zone that still runs has at least been killed
\* ("kill each process and remove it from the list").
NoneLeft == phase = "Exited" =>
                \A pid \in Pids : child[pid].status # "Alive" \/ child[pid].kill
===============================================================================
