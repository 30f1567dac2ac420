-------------------------- MODULE ZoneLauncherProofs --------------------------
(***************************************************************************)
(* For any zones and any number of requests and processes, whatever        *)
(* signals coalesce, kill() refuses and children survive: the types of the *)
(* launcher, that a stop is final, and that the launcher's books agree     *)
(* with its children, apart from those it has given up.                    *)
(***************************************************************************)
EXTENDS ZoneLauncher, FiniteSetTheorems, TLAPS

\* What the assumption says, one part at a time.
LEMMA ConstantTypes ==
    /\ Coalesce \in BOOLEAN /\ Stubborn \in BOOLEAN /\ Unkillable \in BOOLEAN
    /\ KillMayFail \in BOOLEAN /\ MayShutDown \in BOOLEAN
    /\ KillLimit \in Nat /\ MaxObjects \in Nat /\ MaxLaunches \in Nat
BY LauncherAssumption

-------------------------------------------------------------------------------
(* Types. *)

\* The ZoneLaunch of one zone may change, the others do not.
ZoneStep(z) ==
    /\ DOMAIN zones' = DOMAIN zones
    /\ zones' \in [DOMAIN zones -> ZoneLaunch]
    /\ \A y \in DOMAIN zones : y # z => zones'[y] = zones[y]

\* A step that touches one child leaves the table's shape.
LEMMA ChildUpdate ==
    ASSUME TypeOK, NEW pid, NEW c, pid \in Pids => c \in ChildType,
           child' = [child EXCEPT ![pid] = c]
    PROVE  /\ child' \in Seq(ChildType) /\ Len(child') = Len(child)
           /\ Pids' = Pids
           /\ \A p \in Pids : child'[p] = IF p = pid THEN c ELSE child[p]
<1>1. child \in Seq(ChildType) /\ Len(child) \in Nat
  BY DEF TypeOK
<1>2. child \in [1 .. Len(child) -> ChildType] /\ Pids = 1 .. Len(child)
  BY <1>1 DEF Pids
<1>3. child' = [p \in 1 .. Len(child) |-> IF p = pid THEN c ELSE child[p]]
  BY <1>2
<1>4. child' \in [1 .. Len(child) -> ChildType]
  BY <1>2, <1>3
<1>5. child' \in Seq(ChildType) /\ Len(child') = Len(child)
  BY <1>1, <1>4
<1> QED
  BY <1>2, <1>3, <1>5 DEF Pids

\* kill() marks one child.
LEMMA SignalType ==
    ASSUME TypeOK, NEW pid, NEW graceful \in BOOLEAN, Signal(pid, graceful)
    PROVE  /\ child' \in Seq(ChildType) /\ Len(child') = Len(child)
           /\ Pids' = Pids
           /\ \A p \in Pids : /\ child'[p].zone = child[p].zone
                              /\ child'[p].status = child[p].status
                              /\ child[p].kill => child'[p].kill
           /\ ~graceful /\ pid \in Pids => child'[pid].kill
<1> DEFINE c == IF graceful THEN [child[pid] EXCEPT !.term = TRUE]
                ELSE [child[pid] EXCEPT !.kill = TRUE]
<1>1. child' = [child EXCEPT ![pid] = c]
  BY DEF Signal
<1>2. pid \in Pids => /\ c \in ChildType
                      /\ c.zone = child[pid].zone /\ c.status = child[pid].status
                      /\ child[pid].kill => c.kill
                      /\ ~graceful => c.kill
  <2> SUFFICES ASSUME pid \in Pids
               PROVE  /\ c \in ChildType
                      /\ c.zone = child[pid].zone /\ c.status = child[pid].status
                      /\ child[pid].kill => c.kill
                      /\ ~graceful => c.kill
    OBVIOUS
  <2>1. child[pid] \in ChildType
    BY DEF TypeOK, Pids
  <2> QED
    BY <2>1, Zenon DEF ChildType
<1> HIDE DEF c
<1>3. pid \in Pids => c \in ChildType
  BY <1>2
<1>4. /\ child' \in Seq(ChildType) /\ Len(child') = Len(child)
      /\ Pids' = Pids
      /\ \A p \in Pids : child'[p] = IF p = pid THEN c ELSE child[p]
  BY <1>1, <1>3, ChildUpdate, Zenon
<1> QED
  BY <1>2, <1>4

\* The three ways in which a stop goes.
LEMMA StopWithStep ==
    ASSUME TypeOK, NEW z \in DOMAIN zones, NEW graceful \in BOOLEAN,
           NEW fails \in 0 .. KillLimit, StopWith(z, graceful, fails)
    PROVE  /\ ZoneStep(z)
           /\ zones'[z].object = zones[z].object /\ zones'[z].pid = zones[z].pid
           /\ zones'[z].state \in {"StopPending", "Stopped"}
           /\ \/ UNCHANGED child
              \/ IsRunning(zones[z].state) /\ Signal(zones[z].pid, graceful)
<1>1. zones[z] \in ZoneLaunch /\ zones \in [DOMAIN zones -> ZoneLaunch]
  BY DEF TypeOK
<1>2. CASE /\ zones[z].state = "StartPending"
           /\ SetZone(z, "Stopped", zones[z].timer)
           /\ UNCHANGED child
  BY <1>1, <1>2 DEF SetZone, ZoneStep, ZoneLaunch, ZoneStates
<1>3. CASE /\ IsRunning(zones[z].state)
           /\ Signal(zones[z].pid, graceful)
           /\ zones' = [zones EXCEPT ![z] = [@ EXCEPT !.state = "StopPending",
                                           !.timer = TRUE, !.kill_fails = fails]]
  BY <1>1, <1>3 DEF ZoneStep, ZoneLaunch, ZoneStates
<1>4. CASE /\ IsRunning(zones[z].state) /\ KillMayFail
           /\ zones' = [zones EXCEPT ![z] = [@ EXCEPT !.state = "Stopped",
                                           !.kill_fails = fails]]
           /\ UNCHANGED child
  BY <1>1, <1>4 DEF ZoneStep, ZoneLaunch, ZoneStates
<1> QED
  BY <1>2, <1>3, <1>4 DEF StopWith

\* The types hold in the beginning.
LEMMA InitType == Init => TypeOK
<1> SUFFICES ASSUME Init PROVE TypeOK
  OBVIOUS
<1>1. zones = <<>> /\ m_running = <<>> /\ child = <<>> /\ objects = 0
  BY DEF Init
<1>2. child \in Seq(ChildType) /\ Len(child) <= MaxLaunches
  BY <1>1, ConstantTypes
<1>3. DOMAIN zones = {} /\ zones \in [DOMAIN zones -> ZoneLaunch]
  BY <1>1
<1>4. DOMAIN m_running \subseteq Pids
      /\ m_running \in [DOMAIN m_running -> 1 .. MaxObjects]
      /\ given_up = {}
  BY <1>1 DEF Init, given_up
<1>5. up \in [Zones -> BOOLEAN] /\ sigchld \in BOOLEAN
      /\ phase \in {"Loop", "Ending", "Exited"}
  BY Zenon DEF Init
<1> QED
  BY <1>1, <1>2, <1>3, <1>4, <1>5, ConstantTypes DEF Init, TypeOK

\* The handler's step on the zone whose child died.
LEMMA OnTerminateStep ==
    ASSUME TypeOK, NEW z, OnTerminate(z)
    PROVE  /\ ZoneStep(z)
           /\ z \in DOMAIN zones =>
                /\ zones'[z].object = zones[z].object
                /\ zones'[z].pid = zones[z].pid
                /\ zones'[z].state = IF zones[z].state \in {"StopPending", "Stopped"}
                                     THEN "Stopped" ELSE "StartPending"
           /\ s_running' = s_running - 1
           /\ up' = [up EXCEPT ![z] = FALSE]
<1>1. zones \in [DOMAIN zones -> ZoneLaunch]
  BY DEF TypeOK
<1> DEFINE old == zones[z].state
           new == IF old \in {"StopPending", "Stopped"} THEN "Stopped"
                  ELSE "StartPending"
<1>2. /\ SetZone(z, new, zones[z].timer \/ old \in {"StartPending", "Started"})
      /\ s_running' = s_running - 1
      /\ up' = [up EXCEPT ![z] = IsRunning(new)]
  BY DEF OnTerminate
<1>3. new \in {"Stopped", "StartPending"} /\ IsRunning(new) = FALSE
  BY DEF IsRunning
<1>4. up' = [up EXCEPT ![z] = FALSE]
  BY <1>2, <1>3
<1>5. ZoneStep(z)
  <2>1. z \in DOMAIN zones => /\ zones[z] \in ZoneLaunch
                              /\ zones[z].timer \in BOOLEAN
    BY <1>1 DEF ZoneLaunch
  <2> QED
    BY <1>1, <1>2, <1>3, <2>1 DEF SetZone, ZoneStep, ZoneLaunch, ZoneStates
<1>6. z \in DOMAIN zones =>
        /\ zones'[z].object = zones[z].object
        /\ zones'[z].pid = zones[z].pid
        /\ zones'[z].state = new
  BY <1>1, <1>2 DEF SetZone, ZoneLaunch
<1> QED
  BY <1>2, <1>4, <1>5, <1>6

\* What is given up are numbers of processes.
LEMMA GivenUpType ==
    ASSUME TypeOK, [Next]_vars
    PROVE  given_up' \subseteq 0 .. MaxLaunches
<1>1. /\ given_up \subseteq 0 .. MaxLaunches
      /\ \A z \in DOMAIN zones : zones[z].pid \in 0 .. MaxLaunches
  BY DEF TypeOK, ZoneLaunch
<1>2. UNCHANGED aux => given_up' \subseteq 0 .. MaxLaunches
  BY <1>1 DEF aux, given_up
<1>3. \A z \in DOMAIN zones :
        /\ refused' \in {refused, refused \cup {zones[z].pid}}
        /\ outlived' \in {outlived, outlived \cup {zones[z].pid}}
        => given_up' \subseteq 0 .. MaxLaunches
  BY <1>1 DEF given_up
<1>4. ASSUME NEW z \in DOMAIN zones, Restart(z) \/ Stop(z) \/ KillAgain(z)
      PROVE  given_up' \subseteq 0 .. MaxLaunches
  <2>1. outlived' = outlived
    BY <1>4 DEF Restart, Stop, KillAgain
  <2>2. refused' \in {refused, refused \cup {zones[z].pid}}
    BY <1>4 DEF Restart, Stop, KillAgain, StopWith
  <2> QED
    BY <1>3, <2>1, <2>2
<1>5. ASSUME NEW z \in DOMAIN zones, GiveUp(z)
      PROVE  given_up' \subseteq 0 .. MaxLaunches
  BY <1>3, <1>5 DEF GiveUp
<1>6. CASE HandleSigChild \/ ShutDown \/ Exit \/ UNCHANGED vars
  BY <1>2, <1>6 DEF HandleSigChild, ShutDown, Exit, vars
<1>7. ASSUME NEW pid \in Pids, Die(pid) \/ Reap(pid) PROVE UNCHANGED aux
  BY <1>7 DEF Die, Reap
<1>8. ASSUME NEW z, StartZone(z) \/ Start(z) \/ Remove(z) PROVE UNCHANGED aux
  BY <1>8 DEF StartZone, Start, Remove
<1> QED
  BY <1>2, <1>4, <1>5, <1>6, <1>7, <1>8 DEF Next

\* Every step of the launcher and of its children keeps the types.
LEMMA NextType == TypeOK /\ [Next]_vars => TypeOK'
<1> SUFFICES ASSUME TypeOK, [Next]_vars PROVE TypeOK'
  OBVIOUS
<1>1. /\ DOMAIN zones \subseteq Zones /\ zones \in [DOMAIN zones -> ZoneLaunch]
      /\ objects \in 0 .. MaxObjects /\ s_running \in Int
      /\ child \in Seq(ChildType) /\ Len(child) <= MaxLaunches
      /\ DOMAIN m_running \subseteq Pids
      /\ m_running \in [DOMAIN m_running -> 1 .. MaxObjects]
      /\ m_signalCount \in Nat
  BY DEF TypeOK
<1>2. /\ sigchld \in BOOLEAN /\ up \in [Zones -> BOOLEAN]
      /\ phase \in {"Loop", "Ending", "Exited"}
  BY DEF TypeOK
<1> DEFINE Table == /\ child' \in Seq(ChildType) /\ Len(child') <= MaxLaunches
                    /\ DOMAIN m_running' \subseteq Pids'
                    /\ m_running' \in [DOMAIN m_running' -> 1 .. MaxObjects]
           Objects == /\ DOMAIN zones' \subseteq Zones
                      /\ zones' \in [DOMAIN zones' -> ZoneLaunch]
                      /\ objects' \in 0 .. MaxObjects
           Counts == s_running' \in Int /\ m_signalCount' \in Nat
           Flags == /\ sigchld' \in BOOLEAN /\ up' \in [Zones -> BOOLEAN]
                    /\ phase' \in {"Loop", "Ending", "Exited"}
<1>3. Table /\ Objects /\ Counts /\ Flags => TypeOK'
  BY GivenUpType DEF TypeOK
<1>4. UNCHANGED <<child, m_running>> => Table
  BY <1>1 DEF Pids
<1>5. UNCHANGED <<zones, objects>> => Objects
  BY <1>1
<1>6. UNCHANGED <<s_running, m_signalCount>> => Counts
  BY <1>1
<1>7. UNCHANGED <<sigchld, up, phase>> => Flags
  BY <1>2
<1>8. \A z \in DOMAIN zones : ZoneStep(z) /\ UNCHANGED objects => Objects
  BY <1>1 DEF ZoneStep
<1>9. \A pid : Signal(pid, TRUE) \/ Signal(pid, FALSE) =>
              (UNCHANGED m_running => Table)
  BY <1>1, SignalType
<1> HIDE DEF Table, Objects, Counts, Flags
<1>a. CASE HandleSigChild
  <2>1. m_signalCount' \in Nat /\ s_running' = s_running
    BY <1>1, <1>a DEF HandleSigChild
  <2>2. Flags
    BY <1>2, <1>a, Zenon DEF HandleSigChild, Flags
  <2> QED
    BY <1>1, <1>a, <1>3, <1>4, <1>5, <2>1, <2>2 DEF HandleSigChild, Counts
<1>b. CASE ShutDown
  <2>1. child' = [pid \in Pids |-> IF pid \in DOMAIN m_running
                                   THEN [child[pid] EXCEPT !.term = TRUE]
                                   ELSE child[pid]]
    BY <1>b DEF ShutDown
  <2>2. \A pid \in Pids : [child[pid] EXCEPT !.term = TRUE] \in ChildType
    <3> SUFFICES ASSUME NEW pid \in Pids
                 PROVE  [child[pid] EXCEPT !.term = TRUE] \in ChildType
      OBVIOUS
    <3>1. child[pid] \in ChildType
      BY <1>1 DEF Pids
    <3> QED
      BY <3>1, Zenon DEF ChildType
  <2>3. /\ child' \in Seq(ChildType) /\ Len(child') = Len(child)
        /\ Pids' = Pids
    <3>1. Pids = 1 .. Len(child) /\ Len(child) \in Nat
      BY <1>1 DEF Pids
    <3>2. child' \in [1 .. Len(child) -> ChildType]
      <4> SUFFICES ASSUME NEW pid \in Pids
                   PROVE (IF pid \in DOMAIN m_running
                          THEN [child[pid] EXCEPT !.term = TRUE]
                          ELSE child[pid]) \in ChildType
        BY <2>1, <3>1, Zenon
      <4> QED
        BY <1>1, <2>2 DEF Pids
    <3>3. child' \in Seq(ChildType) /\ Len(child') = Len(child)
      BY <3>1, <3>2
    <3> QED
      BY <3>1, <3>3 DEF Pids
  <2>4. Table
    BY <1>1, <1>b, <2>3 DEF ShutDown, Table
  <2>5. Objects
    <3>1. zones' = [z \in DOMAIN zones |->
                      [zones[z] EXCEPT !.state = IF IsRunning(@) THEN "StopPending"
                                                 ELSE "Stopped"]]
      BY <1>b DEF ShutDown
    <3>2. \A z \in DOMAIN zones :
            [zones[z] EXCEPT !.state = IF IsRunning(@) THEN "StopPending"
                                       ELSE "Stopped"] \in ZoneLaunch
      BY <1>1 DEF ZoneLaunch, ZoneStates
    <3> QED
      BY <1>1, <1>b, <3>1, <3>2 DEF ShutDown, Objects
  <2>6. Flags
    BY <1>2, <1>b, Zenon DEF ShutDown, Flags
  <2> QED
    BY <1>3, <1>6, <1>b, <2>4, <2>5, <2>6 DEF ShutDown
<1>c. CASE Exit
  <2>1. Table
    BY <1>1, <1>c DEF Exit, Table, Pids
  <2>2. Flags
    BY <1>2, <1>c, Zenon DEF Exit, Flags
  <2> QED
    BY <1>3, <1>5, <1>6, <1>c, <2>1, <2>2 DEF Exit
<1>d. ASSUME NEW pid \in Pids, Die(pid) PROVE TypeOK'
  <2>1. child[pid] \in ChildType
    BY <1>1 DEF Pids
  <2>2. [child[pid] EXCEPT !.status = "Dead"] \in ChildType
    BY <2>1, Zenon DEF ChildType
  <2>3. child' = [child EXCEPT ![pid] = [child[pid] EXCEPT !.status = "Dead"]]
    BY <1>d DEF Die
  <2>4. /\ child' \in Seq(ChildType) /\ Len(child') = Len(child)
        /\ Pids' = Pids
    BY <2>2, <2>3, ChildUpdate, Zenon
  <2>5. Table
    BY <1>1, <1>d, <2>4 DEF Die, Table
  <2>6. Flags
    BY <1>2, <1>d, Zenon DEF Die, Flags
  <2> QED
    BY <1>3, <1>5, <1>6, <1>d, <2>5, <2>6 DEF Die
<1>e. ASSUME NEW pid \in Pids, Reap(pid) PROVE TypeOK'
  <2>1. child[pid] \in ChildType
    BY <1>1 DEF Pids
  <2>2. [child[pid] EXCEPT !.status = "Reaped"] \in ChildType
    BY <2>1, Zenon DEF ChildType
  <2>3. child' = [child EXCEPT ![pid] = [child[pid] EXCEPT !.status = "Reaped"]]
    BY <1>e DEF Reap
  <2>4. /\ child' \in Seq(ChildType) /\ Len(child') = Len(child)
        /\ Pids' = Pids
    BY <2>2, <2>3, ChildUpdate, Zenon
  <2>5. m_running' = [p \in DOMAIN m_running \ {pid} |-> m_running[p]]
    BY <1>e DEF Reap, Restrict
  <2>6. Table
    BY <1>1, <2>4, <2>5 DEF Table
  <2>7. m_signalCount' \in Nat /\ sigchld' = sigchld /\ objects' = objects
    BY <1>1, <1>e DEF Reap
  <2>8. CASE OnTerminate(child[pid].zone) /\ UNCHANGED phase
    <3> DEFINE z == child[pid].zone
    <3>1. ZoneStep(z) /\ s_running' = s_running - 1 /\ up' = [up EXCEPT ![z] = FALSE]
      BY <2>8, OnTerminateStep
    <3>2. Objects
      BY <1>1, <2>7, <3>1 DEF ZoneStep, Objects
    <3>3. Flags
      BY <1>2, <2>7, <2>8, <3>1, Zenon DEF Flags
    <3>4. Counts
      BY <1>1, <2>7, <3>1 DEF Counts
    <3> QED
      BY <1>3, <2>6, <3>2, <3>3, <3>4
  <2>9. CASE /\ \/ phase' = "Exited" /\ UNCHANGED s_running
                \/ s_running' = s_running - 1 /\ UNCHANGED phase
             /\ UNCHANGED <<zones, up>>
    <3>1. Flags
      BY <1>2, <2>7, <2>9, Zenon DEF Flags
    <3>2. Counts
      BY <1>1, <2>7, <2>9 DEF Counts
    <3> QED
      BY <1>3, <1>5, <2>6, <2>7, <2>9, <3>1, <3>2
  <2> QED
    BY <1>e, <2>8, <2>9 DEF Reap
<1>f. ASSUME NEW z \in Zones, StartZone(z) PROVE TypeOK'
  <2>1. objects' = objects + 1 /\ objects' \in 1 .. MaxObjects
    BY <1>1, <1>f, ConstantTypes DEF StartZone
  <2> DEFINE new == [object |-> objects', state |-> "StartPending",
                     pid |-> 0, timer |-> TRUE, kill_fails |-> 0]
  <2>2. new \in ZoneLaunch
    BY <2>1, ConstantTypes DEF ZoneLaunch, ZoneStates
  <2>3. zones' = [y \in DOMAIN zones \cup {z} |-> IF y = z THEN new ELSE zones[y]]
    BY <1>f DEF StartZone
  <2> HIDE DEF new
  <2>4. Objects
    BY <1>1, <1>f, <2>1, <2>2, <2>3 DEF Objects
  <2> QED
    BY <1>3, <1>4, <1>6, <1>7, <1>f, <2>4 DEF StartZone
<1>g. ASSUME NEW z \in DOMAIN zones, Start(z) PROVE TypeOK'
  <2> DEFINE pid == Len(child) + 1
             new == [zone |-> z, status |-> "Alive", term |-> FALSE, kill |-> FALSE]
  <2>1. /\ pid <= MaxLaunches /\ child' = Append(child, new)
        /\ m_running' = [p \in DOMAIN m_running \cup {pid} |->
                           IF p = pid THEN zones[z].object ELSE m_running[p]]
        /\ zones' = [zones EXCEPT ![z] = [@ EXCEPT !.state = "Started", !.pid = pid,
                                            !.timer = FALSE, !.kill_fails = 0]]
        /\ s_running' = s_running + 1
        /\ up' = [up EXCEPT ![z] = TRUE]
        /\ UNCHANGED <<objects, sigchld, m_signalCount, phase>>
    BY <1>g DEF Start
  <2>2. zones[z] \in ZoneLaunch /\ pid \in 1 .. MaxLaunches
    BY <1>1, <2>1, ConstantTypes
  <2>3. new \in ChildType
    BY <1>1, Zenon DEF ChildType
  <2> HIDE DEF new
  <2>4. child' \in Seq(ChildType) /\ Len(child') = pid /\ Pids' = Pids \cup {pid}
    BY <1>1, <2>1, <2>3 DEF Pids
  <2>5. Table
    BY <1>1, <2>1, <2>2, <2>4 DEF Table, ZoneLaunch
  <2>6. Objects
    <3> DEFINE r == [zones[z] EXCEPT !.state = "Started", !.pid = pid,
                                     !.timer = FALSE, !.kill_fails = 0]
    <3>0. pid \in 0 .. MaxLaunches /\ 0 \in 0 .. KillLimit
          /\ "Started" \in ZoneStates
      BY <2>2, ConstantTypes DEF ZoneStates
    <3> HIDE DEF pid
    <3>1. r \in ZoneLaunch
      BY <2>2, <3>0, Zenon DEF ZoneLaunch
    <3>2. zones' = [zones EXCEPT ![z] = r]
      BY <2>1
    <3> HIDE DEF r
    <3> QED
      BY <1>1, <2>1, <3>1, <3>2 DEF Objects
  <2>7. Flags
    BY <1>2, <2>1, Zenon DEF Flags
  <2>8. Counts
    BY <1>1, <2>1 DEF Counts
  <2> QED
    BY <1>3, <2>5, <2>6, <2>7, <2>8
<1>h. ASSUME NEW z \in DOMAIN zones, Restart(z) PROVE TypeOK'
  <2>1. UNCHANGED <<objects, s_running, m_running, sigchld, m_signalCount, up, phase>>
    BY <1>h DEF Restart
  <2>2. CASE /\ Signal(zones[z].pid, TRUE)
             /\ SetZone(z, "RestartPending", TRUE)
    <3>1. ZoneStep(z)
      BY <1>1, <2>2 DEF SetZone, ZoneStep, ZoneLaunch, ZoneStates
    <3> QED
      BY <1>3, <1>6, <1>7, <1>8, <1>9, <2>1, <2>2, <3>1
  <2>3. CASE SetZone(z, "Stopped", zones[z].timer) /\ UNCHANGED child
    <3>1. ZoneStep(z)
      BY <1>1, <2>3 DEF SetZone, ZoneStep, ZoneLaunch, ZoneStates
    <3> QED
      BY <1>3, <1>4, <1>6, <1>7, <1>8, <2>1, <2>3, <3>1
  <2> QED
    BY <1>h, <2>2, <2>3 DEF Restart
<1>i. ASSUME NEW z \in DOMAIN zones, NEW graceful \in BOOLEAN,
             NEW fails \in 0 .. KillLimit, StopWith(z, graceful, fails),
             UNCHANGED <<objects, s_running, m_running, sigchld, m_signalCount,
                         up, phase>>
      PROVE  TypeOK'
  <2>1. /\ ZoneStep(z)
        /\ \/ UNCHANGED child
           \/ Signal(zones[z].pid, graceful)
    BY <1>i, StopWithStep
  <2>2. Table
    BY <1>4, <1>9, <1>i, <2>1
  <2> QED
    BY <1>3, <1>6, <1>7, <1>8, <1>i, <2>1, <2>2
<1>j. ASSUME NEW z \in DOMAIN zones, Stop(z) PROVE TypeOK'
  <2>1. zones[z].kill_fails \in 0 .. KillLimit
    BY <1>1 DEF ZoneLaunch
  <2> QED
    BY <1>i, <1>j, <2>1 DEF Stop
<1>k. ASSUME NEW z \in DOMAIN zones, KillAgain(z) PROVE TypeOK'
  <2>1. zones[z].kill_fails + 1 \in 0 .. KillLimit
    BY <1>1, <1>k, ConstantTypes DEF KillAgain, ZoneLaunch
  <2> QED
    BY <1>i, <1>k, <2>1 DEF KillAgain
<1>l. ASSUME NEW z \in DOMAIN zones, GiveUp(z) PROVE TypeOK'
  <2>1. /\ SetZone(z, "Stopped", TRUE) /\ s_running' = s_running - 1
        /\ up' = [up EXCEPT ![z] = FALSE]
        /\ UNCHANGED <<objects, m_running, child, sigchld, m_signalCount, phase>>
    BY <1>l DEF GiveUp
  <2>2. ZoneStep(z)
    BY <1>1, <2>1 DEF SetZone, ZoneStep, ZoneLaunch, ZoneStates
  <2>3. Flags
    BY <1>2, <2>1, Zenon DEF Flags
  <2>4. Counts
    BY <1>1, <2>1 DEF Counts
  <2> QED
    BY <1>3, <1>4, <1>8, <2>1, <2>2, <2>3, <2>4
<1>m. ASSUME NEW z \in DOMAIN zones, Remove(z) PROVE TypeOK'
  <2>1. Objects
    BY <1>1, <1>m DEF Remove, Restrict, Objects
  <2> QED
    BY <1>3, <1>4, <1>6, <1>7, <1>m, <2>1 DEF Remove
<1>n. CASE UNCHANGED vars
  BY <1>3, <1>4, <1>5, <1>6, <1>7, <1>n DEF vars
<1> QED
  BY <1>a, <1>b, <1>c, <1>d, <1>e, <1>f, <1>g, <1>h, <1>j, <1>k, <1>l, <1>m, <1>n
  DEF Next

\* Every reachable state of the launcher has the types its classes declare,
\* kill_fails within its limit among them, whatever signals, requests and
\* timers come.
THEOREM LauncherTypeCorrect == Spec => []TypeOK
BY InitType, NextType, PTL DEF Spec

-------------------------------------------------------------------------------
(* A stop is final. *)

\* Every step keeps a stop final.
LEMMA StopStep == TypeOK /\ Next => StopKept
<1> SUFFICES ASSUME TypeOK, Next PROVE StopKept
  OBVIOUS
<1> DEFINE Stopping == {"StopPending", "Stopped"}
<1>1. zones \in [DOMAIN zones -> ZoneLaunch]
  BY DEF TypeOK
<1>2. UNCHANGED zones => StopKept
  BY DEF StopKept
<1>3. ASSUME NEW z, ZoneStep(z),
             z \in DOMAIN zones /\ zones[z].state \in Stopping =>
               zones'[z].state \in Stopping
      PROVE  StopKept
  BY <1>3 DEF ZoneStep, StopKept
<1>4. CASE HandleSigChild \/ Exit
  BY <1>2, <1>4 DEF HandleSigChild, Exit
<1>5. CASE ShutDown
  <2>1. zones' = [z \in DOMAIN zones |->
                    [zones[z] EXCEPT !.state = IF IsRunning(@) THEN "StopPending"
                                               ELSE "Stopped"]]
    BY <1>5 DEF ShutDown
  <2>2. \A z \in DOMAIN zones : zones'[z].state \in Stopping
    BY <1>1, <2>1 DEF ZoneLaunch
  <2> QED
    BY <2>2 DEF StopKept
<1>6. ASSUME NEW pid \in Pids, Die(pid) PROVE StopKept
  BY <1>2, <1>6 DEF Die
<1>7. ASSUME NEW pid \in Pids, Reap(pid) PROVE StopKept
  <2>1. CASE OnTerminate(child[pid].zone)
    BY <1>3, <2>1, OnTerminateStep
  <2>2. CASE UNCHANGED zones
    BY <1>2, <2>2
  <2> QED
    BY <1>7, <2>1, <2>2 DEF Reap
<1>8. ASSUME NEW z \in Zones, StartZone(z) PROVE StopKept
  <2>1. z \notin DOMAIN zones
        /\ \A y \in DOMAIN zones : y \in DOMAIN zones' /\ zones'[y] = zones[y]
    BY <1>8 DEF StartZone
  <2> QED
    BY <2>1 DEF StopKept
<1>9. ASSUME NEW z \in DOMAIN zones, Start(z) PROVE StopKept
  <2>1. zones[z].state = "StartPending"
        /\ \A y \in DOMAIN zones : y # z => zones'[y] = zones[y]
    BY <1>1, <1>9 DEF Start
  <2> QED
    BY <2>1 DEF StopKept
<1>10. ASSUME NEW z \in DOMAIN zones, Restart(z) PROVE StopKept
  <2>1. zones[z].state = "Started"
        /\ \A y \in DOMAIN zones : y # z => zones'[y] = zones[y]
    BY <1>1, <1>10 DEF Restart, SetZone
  <2> QED
    BY <2>1 DEF StopKept
<1>11. ASSUME NEW z \in DOMAIN zones, Stop(z) \/ KillAgain(z) PROVE StopKept
  <2>1. zones[z].kill_fails \in 0 .. KillLimit
    BY <1>1 DEF ZoneLaunch
  <2>2. PICK graceful \in BOOLEAN, fails \in 0 .. KillLimit :
          StopWith(z, graceful, fails)
    <3>1. CASE Stop(z)
      BY <2>1, <3>1 DEF Stop
    <3>2. CASE KillAgain(z)
      <4>1. zones[z].kill_fails + 1 \in 0 .. KillLimit
        BY <2>1, <3>2, ConstantTypes DEF KillAgain
      <4> QED
        BY <3>2, <4>1 DEF KillAgain
    <3> QED
      BY <1>11, <3>1, <3>2
  <2>3. ZoneStep(z) /\ zones'[z].state \in Stopping
    BY <2>2, StopWithStep
  <2> QED
    BY <1>3, <2>3
<1>12. ASSUME NEW z \in DOMAIN zones, GiveUp(z) PROVE StopKept
  <2>1. SetZone(z, "Stopped", TRUE)
    BY <1>12 DEF GiveUp
  <2>2. ZoneStep(z) /\ zones'[z].state \in Stopping
    BY <1>1, <2>1 DEF SetZone, ZoneStep, ZoneLaunch, ZoneStates
  <2> QED
    BY <1>3, <2>2
<1>13. ASSUME NEW z \in DOMAIN zones, Remove(z) PROVE StopKept
  <2>1. \A y \in DOMAIN zones : y \in DOMAIN zones' => zones'[y] = zones[y]
    BY <1>13 DEF Remove, Restrict
  <2> QED
    BY <2>1 DEF StopKept
<1> QED
  BY <1>4, <1>5, <1>6, <1>7, <1>8, <1>9, <1>10, <1>11, <1>12, <1>13 DEF Next

\* No restart request, timer or late death makes a ZoneLaunch that is stopping
\* or stopped run again, even when signals coalesce, kill() fails or children
\* do not die.
THEOREM StopStaysFinal == Spec => StopIsFinal
<1>1. TypeOK /\ [Next]_vars => [StopKept]_vars
  BY StopStep
<1> QED
  BY <1>1, LauncherTypeCorrect, PTL DEF Spec, StopIsFinal

-------------------------------------------------------------------------------
(* The books. *)

\* The running zones are those in a state that runs, ...
LEMMA RunningZones ==
    ASSUME TypeOK
    PROVE  Running = {z \in DOMAIN zones : IsRunning(zones[z].state)}
<1>1. DOMAIN zones \subseteq Zones
  BY DEF TypeOK
<1> QED
  BY <1>1 DEF Running, State, IsRunning

\* ... and after a step.
LEMMA RunningZonesNext ==
    ASSUME TypeOK'
    PROVE  Running' = {z \in DOMAIN zones' : IsRunning(zones'[z].state)}
<1>1. DOMAIN zones' \subseteq Zones
  BY DEF TypeOK
<1> QED
  BY <1>1 DEF Running, State, IsRunning

\* A step on one zone that neither starts nor ends it.
LEMMA RunningKept ==
    ASSUME TypeOK, TypeOK', NEW z \in DOMAIN zones, ZoneStep(z),
           IsRunning(zones'[z].state) <=> IsRunning(zones[z].state)
    PROVE  Running' = Running
BY RunningZones, RunningZonesNext DEF ZoneStep

\* What is given up are finitely many processes.
LEMMA GivenUpFinite ==
    ASSUME given_up \subseteq 0 .. MaxLaunches
    PROVE  /\ IsFiniteSet(refused) /\ IsFiniteSet(outlived)
           /\ IsFiniteSet(refused \ Reaped(refused))
           /\ IsFiniteSet(Reaped(outlived))
           /\ Cardinality(refused \ Reaped(refused)) \in Nat
           /\ Cardinality(Reaped(outlived)) \in Nat
<1>1. IsFiniteSet(0 .. MaxLaunches)
  BY FS_Interval, ConstantTypes
<1>2. /\ refused \subseteq 0 .. MaxLaunches /\ outlived \subseteq 0 .. MaxLaunches
      /\ refused \ Reaped(refused) \subseteq 0 .. MaxLaunches
      /\ Reaped(outlived) \subseteq 0 .. MaxLaunches
  BY DEF given_up, Reaped
<1>3. /\ IsFiniteSet(refused) /\ IsFiniteSet(outlived)
      /\ IsFiniteSet(refused \ Reaped(refused))
      /\ IsFiniteSet(Reaped(outlived))
  BY <1>1, <1>2, FS_Subset
<1> QED
  BY <1>3, FS_CardinalityType

\* What the steps that neither start a process nor reap one leave of the books.
SameChildren ==
    /\ Pids' = Pids
    /\ \A p \in Pids : /\ child'[p].zone = child[p].zone
                       /\ child'[p].status = "Alive" => child[p].status = "Alive"
                       /\ child'[p].status = "Reaped" <=> child[p].status = "Reaped"

\* What the steps that stop no zone leave of the ZoneLaunch objects: they are
\* the same, or one is new, and what is stopped stays so.
SameObjects ==
    /\ objects' \in {objects, objects + 1}
    /\ \A z \in DOMAIN zones' :
           \/ /\ z \in DOMAIN zones /\ zones'[z].object = zones[z].object
              /\ zones[z].state = "Stopped" => zones'[z].state = "Stopped"
           \/ /\ z \notin DOMAIN zones /\ zones'[z].object = objects + 1
              /\ objects' = objects + 1
    /\ \A y, z \in DOMAIN zones' \ DOMAIN zones : y = z

\* Objects that keep their numbers stay told apart.
LEMMA NumberedKept ==
    ASSUME TypeOK, Numbered, SameObjects,
           DOMAIN m_running' \subseteq DOMAIN m_running,
           \A p \in DOMAIN m_running' : m_running'[p] = m_running[p]
    PROVE  Numbered'
<1>1. /\ objects \in Nat /\ \A z \in DOMAIN zones : zones[z].object \in Nat
      /\ \A p \in DOMAIN m_running : m_running[p] \in Nat
  BY ConstantTypes DEF TypeOK, ZoneLaunch
<1>2. /\ \A z \in DOMAIN zones : zones[z].object <= objects
      /\ \A p \in DOMAIN m_running : m_running[p] <= objects
      /\ \A y, z \in DOMAIN zones : zones[y].object = zones[z].object => y = z
  BY DEF Numbered
<1>3. \A z \in DOMAIN zones' : zones'[z].object <= objects'
  BY <1>1, <1>2 DEF SameObjects
<1>4. \A p \in DOMAIN m_running' : m_running'[p] <= objects'
  BY <1>1, <1>2 DEF SameObjects
<1>5. \A y, z \in DOMAIN zones' : zones'[y].object = zones'[z].object => y = z
  BY <1>1, <1>2 DEF SameObjects
<1> QED
  BY <1>3, <1>4, <1>5 DEF Numbered

\* What has been given up stays with a handler that is stopped, or none.
LEMMA AbandonedKept ==
    ASSUME TypeOK, Abandoned, Numbered, SameObjects, UNCHANGED aux,
           Pids' = Pids, \A p \in Pids : child'[p].zone = child[p].zone,
           DOMAIN m_running' \subseteq DOMAIN m_running,
           \A p \in DOMAIN m_running' : m_running'[p] = m_running[p]
    PROVE  Abandoned'
<1>1. /\ objects \in Nat /\ DOMAIN m_running \subseteq Pids
      /\ \A p \in DOMAIN m_running : m_running[p] \in Nat
  BY ConstantTypes DEF TypeOK
<1>2. given_up' = given_up /\ refused' = refused /\ outlived' = outlived
  BY DEF aux, given_up
<1>3. given_up' \subseteq Pids' /\ refused' \cap outlived' = {}
  BY <1>2 DEF Abandoned
<1>4. ASSUME NEW p \in DOMAIN m_running', NEW z \in DOMAIN zones',
             zones'[z].object = m_running'[p]
      PROVE  /\ z = child'[p].zone
             /\ p \in given_up' => zones'[z].state = "Stopped"
  <2>1. p \in DOMAIN m_running /\ m_running'[p] = m_running[p] /\ m_running[p] <= objects
    BY DEF Numbered
  <2>2. z \in DOMAIN zones /\ zones'[z].object = zones[z].object
        /\ (zones[z].state = "Stopped" => zones'[z].state = "Stopped")
    BY <1>1, <1>4, <2>1 DEF SameObjects
  <2> QED
    BY <1>1, <1>2, <1>4, <2>1, <2>2 DEF Abandoned
<1> QED
  BY <1>3, <1>4 DEF Abandoned

\* A step that neither starts nor ends a child and gives none up leaves what
\* s_running is off by, ...
LEMMA OffKept ==
    ASSUME SameChildren, UNCHANGED aux, given_up \subseteq Pids
    PROVE  Off' = Off
<1>1. refused' = refused /\ outlived' = outlived
      /\ refused \subseteq Pids /\ outlived \subseteq Pids
  BY DEF aux, given_up
<1>2. Reaped(refused)' = Reaped(refused) /\ Reaped(outlived)' = Reaped(outlived)
  BY <1>1 DEF SameChildren, Reaped
<1> QED
  BY <1>1, <1>2 DEF Off

\* ... and no second process of a zone.
LEMMA OneProcessKept ==
    ASSUME OneProcess, SameChildren, given_up \subseteq given_up'
    PROVE  OneProcess'
BY DEF OneProcess, SameChildren

\* Marking a child to be killed starts and reaps nothing.
LEMMA SignalKeeps ==
    ASSUME TypeOK, NEW pid, NEW graceful \in BOOLEAN, Signal(pid, graceful)
    PROVE  SameChildren
BY SignalType DEF SameChildren

\* The steps after which the same processes run for the same zones.
LEMMA QuietInductive ==
    ASSUME Inductive, TypeOK', SameChildren, UNCHANGED aux,
           phase' = "Loop" =>
             /\ phase = "Loop" /\ Running' = Running /\ SameObjects
             /\ UNCHANGED <<m_running, s_running, up>>
             /\ \A z \in Running : /\ zones'[z].pid = zones[z].pid
                                   /\ zones'[z].object = zones[z].object
    PROVE  Inductive'
<1>1. TypeOK /\ OneProcess /\ given_up' = given_up
  BY DEF Inductive, aux, given_up
<1>2. OneProcess'
  BY <1>1, OneProcessKept
<1>3. ASSUME phase' = "Loop" PROVE Books' /\ RunningCount' /\ WorldInformed'
  <2>1. /\ phase = "Loop" /\ Running' = Running /\ SameObjects /\ Books
        /\ UNCHANGED <<m_running, s_running, up>>
        /\ \A z \in Running : /\ zones'[z].pid = zones[z].pid
                              /\ zones'[z].object = zones[z].object
    BY <1>3 DEF Inductive
  <2>2. DOMAIN m_running \subseteq Pids /\ given_up \subseteq Pids
    BY <1>1, <2>1 DEF TypeOK, Books, Abandoned
  <2>3. Registered'
    BY <1>1, <2>1, <2>2 DEF Books, SameChildren, Registered
  <2>4. Hosted'
    BY <1>1, <2>1, <2>2 DEF Books, SameChildren, Hosted
  <2>5. Unreaped'
    BY <2>1 DEF Books, SameChildren, Unreaped
  <2>6. Numbered'
    BY <1>1, <2>1, NumberedKept DEF Books
  <2>7. Abandoned'
    BY <1>1, <2>1, AbandonedKept DEF Books, SameChildren
  <2>8. RunningCount'
    BY <2>1, <2>2, OffKept DEF Inductive, RunningCount
  <2>9. WorldInformed'
    <3>1. \A pid \in refused : child'[pid].zone = child[pid].zone
      BY <2>2 DEF SameChildren, given_up
    <3> QED
      BY <2>1, <3>1 DEF Inductive, WorldInformed, aux
  <2> QED
    BY <2>1, <2>3, <2>4, <2>5, <2>6, <2>7, <2>8, <2>9 DEF Books
<1>4. phase' # "Loop" => RunningCount' /\ WorldInformed'
  BY DEF RunningCount, WorldInformed
<1> QED
  BY <1>2, <1>3, <1>4 DEF Inductive

\* In the beginning the books are empty.
LEMMA InitInductive == Init => Inductive
<1> SUFFICES ASSUME Init PROVE Inductive
  OBVIOUS
<1>1. /\ zones = <<>> /\ m_running = <<>> /\ child = <<>> /\ s_running = 0
      /\ up = [z \in Zones |-> FALSE] /\ refused = {} /\ outlived = {}
  BY DEF Init
<1>2. Pids = {} /\ DOMAIN m_running = {} /\ given_up = {} /\ DOMAIN zones = {}
  BY <1>1 DEF Pids, given_up
<1>3. Running = {} /\ TypeOK
  BY <1>2, RunningZones, InitType
<1>4. OneProcess /\ Registered /\ Hosted /\ Unreaped
  BY <1>2, <1>3 DEF OneProcess, Registered, Hosted, Unreaped
<1>5. Abandoned /\ Numbered
  BY <1>1, <1>2 DEF Abandoned, Numbered
<1>6. IsFiniteSet(Running) /\ Cardinality(Running) = 0
  BY <1>3, FS_EmptySet
<1>7. RunningCount
  <2>1. Reaped(refused) = {} /\ Reaped(outlived) = {}
    BY <1>1 DEF Reaped
  <2>2. Cardinality({}) = 0
    BY FS_EmptySet
  <2>3. refused \ Reaped(refused) = {}
    BY <1>1
  <2>4. Off = 0 - 0
    BY <2>1, <2>2, <2>3 DEF Off
  <2> QED
    BY <1>1, <1>6, <2>4 DEF RunningCount
<1>8. WorldInformed
  <2>1. \A z \in Zones : up[z] = FALSE
    BY <1>1
  <2> QED
    BY <1>3, <2>1, Zenon DEF WorldInformed
<1> QED
  BY <1>3, <1>4, <1>5, <1>6, <1>7, <1>8 DEF Inductive, Books

\* A launch adds one process and one running zone to the books.
LEMMA StartInductive ==
    ASSUME Inductive, TypeOK', NEW z \in DOMAIN zones, Start(z)
    PROVE  Inductive'
<1> DEFINE pid == Len(child) + 1
           new == [zone |-> z, status |-> "Alive", term |-> FALSE, kill |-> FALSE]
<1>1. /\ phase = "Loop" /\ zones[z].state = "StartPending"
      /\ child' = Append(child, new)
      /\ m_running' = [p \in DOMAIN m_running \cup {pid} |->
                         IF p = pid THEN zones[z].object ELSE m_running[p]]
      /\ zones' = [zones EXCEPT ![z] = [@ EXCEPT !.state = "Started", !.pid = pid,
                                          !.timer = FALSE, !.kill_fails = 0]]
      /\ s_running' = s_running + 1
      /\ up' = [up EXCEPT ![z] = TRUE]
      /\ objects' = objects /\ refused' = refused /\ outlived' = outlived
  BY DEF Start, aux
<1>2. TypeOK /\ OneProcess /\ Books /\ RunningCount /\ WorldInformed
  BY <1>1 DEF Inductive
<1>3. /\ child \in Seq(ChildType) /\ zones \in [DOMAIN zones -> ZoneLaunch]
      /\ DOMAIN zones \subseteq Zones /\ DOMAIN m_running \subseteq Pids
      /\ up \in [Zones -> BOOLEAN] /\ given_up \subseteq 0 .. MaxLaunches
      /\ s_running \in Int
  BY <1>2 DEF TypeOK
<1>4. /\ Pids = 1 .. Len(child) /\ Len(child) \in Nat
      /\ Pids' = Pids \cup {pid} /\ pid \notin Pids
      /\ child'[pid] = new
      /\ \A p \in Pids : child'[p] = child[p]
  <2> HIDE DEF new
  <2> QED
    BY <1>1, <1>3 DEF Pids
<1>5. new.zone = z /\ new.status = "Alive"
  OBVIOUS
<1> HIDE DEF new
<1>6. /\ DOMAIN zones' = DOMAIN zones
      /\ zones'[z].state = "Started" /\ zones'[z].pid = pid
      /\ zones'[z].object = zones[z].object
      /\ \A y \in DOMAIN zones : y # z => zones'[y] = zones[y]
  BY <1>1, <1>3 DEF ZoneLaunch
<1>7. z \notin Running /\ Running' = Running \cup {z}
  BY <1>1, <1>2, <1>6, RunningZones, RunningZonesNext DEF IsRunning
<1>8. /\ DOMAIN m_running' = DOMAIN m_running \cup {pid}
      /\ m_running'[pid] = zones[z].object
      /\ \A p \in DOMAIN m_running : m_running'[p] = m_running[p]
  BY <1>1, <1>3, <1>4
<1>9. /\ given_up' = given_up /\ given_up \subseteq Pids /\ pid \notin given_up
      /\ refused \subseteq Pids /\ outlived \subseteq Pids
      /\ refused \cap outlived = {}
  BY <1>1, <1>2, <1>4 DEF Books, Abandoned, given_up
<1> HIDE DEF pid
<1>10. Registered'
  <2> SUFFICES ASSUME NEW p \in DOMAIN m_running' \ given_up'
               PROVE  /\ child'[p].zone \in Running'
                      /\ zones'[child'[p].zone].pid = p
                      /\ zones'[child'[p].zone].object = m_running'[p]
    BY DEF Registered
  <2>1. CASE p = pid
    BY <1>4, <1>5, <1>6, <1>7, <1>8, <2>1
  <2>2. CASE p # pid
    <3>1. /\ p \in DOMAIN m_running \ given_up /\ m_running'[p] = m_running[p]
          /\ child'[p] = child[p]
      BY <1>3, <1>4, <1>8, <1>9, <2>2
    <3>2. /\ child[p].zone \in Running /\ zones[child[p].zone].pid = p
          /\ zones[child[p].zone].object = m_running[p]
      BY <1>2, <3>1 DEF Books, Registered
    <3> QED
      BY <1>2, <1>6, <1>7, <3>1, <3>2, RunningZones
  <2> QED
    BY <2>1, <2>2
<1>11. Hosted'
  <2> SUFFICES ASSUME NEW y \in Running'
               PROVE  /\ zones'[y].pid \in DOMAIN m_running' \ given_up'
                      /\ child'[zones'[y].pid].zone = y
    BY DEF Hosted
  <2>1. CASE y = z
    BY <1>4, <1>5, <1>6, <1>8, <1>9, <2>1
  <2>2. CASE y # z
    <3>1. y \in Running /\ zones'[y] = zones[y]
      BY <1>2, <1>6, <1>7, <2>2, RunningZones
    <3>2. /\ zones[y].pid \in DOMAIN m_running \ given_up
          /\ child[zones[y].pid].zone = y
      BY <1>2, <3>1 DEF Books, Hosted
    <3>3. child'[zones[y].pid] = child[zones[y].pid]
      BY <1>3, <1>4, <3>2
    <3> QED
      BY <1>8, <1>9, <3>1, <3>2, <3>3
  <2> QED
    BY <2>1, <2>2
<1>12. Abandoned'
  <2>1. given_up' \subseteq Pids' /\ refused' \cap outlived' = {}
    BY <1>1, <1>4, <1>9
  <2>2. ASSUME NEW p \in DOMAIN m_running', NEW y \in DOMAIN zones',
               zones'[y].object = m_running'[p]
        PROVE  /\ y = child'[p].zone
               /\ p \in given_up' => zones'[y].state = "Stopped"
    <3>1. y \in DOMAIN zones /\ zones'[y].object = zones[y].object
      BY <1>6
    <3>2. CASE p = pid
      <4>1. y = z
        BY <1>2, <1>8, <2>2, <3>1, <3>2 DEF Books, Numbered
      <4> QED
        BY <1>4, <1>5, <1>9, <3>2, <4>1
    <3>3. CASE p # pid
      <4>1. /\ p \in DOMAIN m_running /\ zones[y].object = m_running[p]
            /\ child'[p] = child[p]
        BY <1>3, <1>4, <1>8, <2>2, <3>1, <3>3
      <4>2. y = child[p].zone /\ (p \in given_up => zones[y].state = "Stopped")
        BY <1>2, <3>1, <4>1 DEF Books, Abandoned
      <4> QED
        BY <1>1, <1>6, <1>9, <3>1, <4>1, <4>2
    <3> QED
      BY <3>2, <3>3
  <2> QED
    BY <2>1, <2>2 DEF Abandoned
<1>13. Numbered'
  BY <1>1, <1>2, <1>6, <1>8 DEF Books, Numbered
<1>14. Unreaped'
  BY <1>2, <1>4, <1>5, <1>8 DEF Books, Unreaped
<1>15. /\ IsFiniteSet(Running') /\ Cardinality(Running') = Cardinality(Running) + 1
       /\ Cardinality(Running) \in Nat
  BY <1>2, <1>7, FS_AddElement, FS_CardinalityType DEF Books
<1>16. Off' = Off
  <2>1. Reaped(refused)' = Reaped(refused) /\ Reaped(outlived)' = Reaped(outlived)
    BY <1>1, <1>4, <1>9 DEF Reaped
  <2> QED
    BY <1>1, <2>1 DEF Off
<1>17. RunningCount'
  <2>1. Off \in Int /\ s_running = Cardinality(Running) + Off
    BY <1>1, <1>2, <1>3, GivenUpFinite DEF Off, RunningCount
  <2> QED
    BY <1>1, <1>15, <1>16, <2>1 DEF RunningCount
<1>18. WorldInformed'
  <2> SUFFICES ASSUME NEW y \in Zones, \A p \in refused' : child'[p].zone # y
               PROVE  up'[y] <=> y \in Running'
    BY DEF WorldInformed
  <2>1. \A p \in refused : child[p].zone # y
    BY <1>1, <1>4, <1>9
  <2>2. up[y] <=> y \in Running
    BY <1>1, <1>2, <2>1 DEF WorldInformed
  <2>3. up'[y] = IF y = z THEN TRUE ELSE up[y]
    BY <1>1, <1>3
  <2> QED
    BY <1>7, <2>2, <2>3
<1>19. OneProcess'
  <2> SUFFICES ASSUME NEW p \in Pids', NEW q \in Pids',
                      child'[p].status = "Alive", child'[q].status = "Alive",
                      child'[p].zone = child'[q].zone, p < q
               PROVE  p \in given_up'
    BY DEF OneProcess
  <2>1. p \in Pids
    BY <1>4 DEF pid
  <2>2. CASE q \in Pids
    BY <1>2, <1>4, <1>9, <2>1, <2>2 DEF OneProcess
  <2>3. CASE q = pid
    <3>1. child[p].status = "Alive" /\ child[p].zone = z
      BY <1>4, <1>5, <2>1, <2>3
    <3>2. p \in DOMAIN m_running
      BY <1>2, <2>1, <3>1 DEF Books, Unreaped
    <3> QED
      BY <1>2, <1>7, <1>9, <3>1, <3>2 DEF Books, Registered
  <2> QED
    BY <1>4, <2>2, <2>3
<1> QED
  BY <1>10, <1>11, <1>12, <1>13, <1>14, <1>15, <1>17, <1>18, <1>19 DEF Inductive, Books

\* Giving a child up takes its zone off the running ones, and counts it as the
\* ghosts do: one that kill() did not reach is still counted, one that
\* outlived its timeouts is not.
LEMMA GiveUpInductive ==
    ASSUME Inductive, TypeOK', NEW z \in DOMAIN zones, phase = "Loop",
           z \in Running, ZoneStep(z), zones'[z].state = "Stopped",
           zones'[z].object = zones[z].object,
           UNCHANGED <<objects, m_running, child, phase>>,
           \/ /\ refused' = refused \cup {zones[z].pid}
              /\ UNCHANGED <<outlived, s_running, up>>
           \/ /\ outlived' = outlived \cup {zones[z].pid}
              /\ s_running' = s_running - 1 /\ up' = [up EXCEPT ![z] = FALSE]
              /\ UNCHANGED refused
    PROVE  Inductive'
<1> DEFINE pid == zones[z].pid
<1>1. TypeOK /\ OneProcess /\ Books /\ RunningCount /\ WorldInformed
  BY DEF Inductive
<1>2. /\ DOMAIN m_running \subseteq Pids /\ up \in [Zones -> BOOLEAN]
      /\ given_up \subseteq 0 .. MaxLaunches /\ s_running \in Int
  BY <1>1 DEF TypeOK
<1>3. /\ pid \in DOMAIN m_running \ given_up /\ child[pid].zone = z /\ pid \in Pids
      /\ child[pid].status # "Reaped"
  BY <1>1, <1>2 DEF Books, Hosted, Unreaped
<1>4. /\ given_up' = given_up \cup {pid} /\ given_up \subseteq Pids
      /\ pid \notin refused /\ pid \notin outlived /\ refused \cap outlived = {}
  BY <1>1, <1>3 DEF given_up, Books, Abandoned
<1>5. Pids' = Pids /\ child' = child
  BY DEF Pids
<1>6. /\ DOMAIN zones' = DOMAIN zones
      /\ \A y \in DOMAIN zones : y # z => zones'[y] = zones[y]
  BY DEF ZoneStep
<1>7. Running' = Running \ {z}
  BY <1>1, <1>6, RunningZones, RunningZonesNext DEF IsRunning
<1>8. \A y \in Running' : y \in Running /\ y # z /\ zones'[y] = zones[y]
  BY <1>1, <1>6, <1>7, RunningZones
<1>9. Registered'
  <2> SUFFICES ASSUME NEW p \in DOMAIN m_running \ given_up'
               PROVE  /\ child[p].zone \in Running'
                      /\ zones'[child[p].zone].pid = p
                      /\ zones'[child[p].zone].object = m_running[p]
    BY <1>5 DEF Registered
  <2>1. p \in DOMAIN m_running \ given_up /\ p # pid
    BY <1>4
  <2>2. /\ child[p].zone \in Running /\ zones[child[p].zone].pid = p
        /\ zones[child[p].zone].object = m_running[p]
    BY <1>1, <2>1 DEF Books, Registered
  <2> QED
    BY <1>7, <1>8, <2>1, <2>2
<1>10. Hosted'
  <2> SUFFICES ASSUME NEW y \in Running'
               PROVE  /\ zones'[y].pid \in DOMAIN m_running \ given_up'
                      /\ child[zones'[y].pid].zone = y
    BY <1>5 DEF Hosted
  <2>1. y \in Running /\ y # z /\ zones'[y] = zones[y]
    BY <1>8
  <2>2. zones[y].pid \in DOMAIN m_running \ given_up /\ child[zones[y].pid].zone = y
    BY <1>1, <2>1 DEF Books, Hosted
  <2> QED
    BY <1>3, <1>4, <2>1, <2>2
<1>11. Abandoned'
  <2>1. given_up' \subseteq Pids' /\ refused' \cap outlived' = {}
    BY <1>3, <1>4, <1>5
  <2>2. ASSUME NEW p \in DOMAIN m_running, NEW y \in DOMAIN zones,
               zones'[y].object = m_running[p]
        PROVE  /\ y = child[p].zone
               /\ p \in given_up' => zones'[y].state = "Stopped"
    <3>1. zones[y].object = m_running[p]
      BY <1>6, <2>2
    <3>2. y = child[p].zone /\ (p \in given_up => zones[y].state = "Stopped")
      BY <1>1, <3>1 DEF Books, Abandoned
    <3> QED
      BY <1>3, <1>4, <1>6, <3>2
  <2> QED
    BY <1>5, <1>6, <2>1, <2>2 DEF Abandoned
<1>12. Numbered'
  BY <1>1, <1>6 DEF Books, Numbered
<1>13. Unreaped'
  BY <1>1, <1>5 DEF Books, Unreaped
<1>14. /\ IsFiniteSet(Running') /\ Cardinality(Running') = Cardinality(Running) - 1
       /\ Cardinality(Running) \in Nat
  BY <1>1, <1>7, FS_RemoveElement, FS_CardinalityType DEF Books
<1>15. OneProcess'
  BY <1>1, <1>4, <1>5 DEF OneProcess
<1>16. /\ s_running = Cardinality(Running) + Off
       /\ Cardinality(refused \ Reaped(refused)) \in Nat
       /\ Cardinality(Reaped(outlived)) \in Nat
       /\ IsFiniteSet(refused \ Reaped(refused))
  BY <1>1, <1>2, GivenUpFinite DEF RunningCount
<1> HIDE DEF pid
<1>17. CASE /\ refused' = refused \cup {pid}
            /\ UNCHANGED <<outlived, s_running, up>>
  <2>1. Reaped(refused)' = Reaped(refused) /\ Reaped(outlived)' = Reaped(outlived)
    BY <1>3, <1>5, <1>17 DEF Reaped
  <2>2. refused' \ Reaped(refused)' = (refused \ Reaped(refused)) \cup {pid}
    BY <1>3, <1>17, <2>1 DEF Reaped
  <2>3. Cardinality((refused \ Reaped(refused)) \cup {pid})
          = Cardinality(refused \ Reaped(refused)) + 1
    BY <1>4, <1>16, FS_AddElement
  <2>4. Off' = Off + 1
    <3>1. Off' = Cardinality(refused' \ Reaped(refused)') - Cardinality(Reaped(outlived)')
      BY DEF Off
    <3>2. Off' = (Cardinality(refused \ Reaped(refused)) + 1)
                   - Cardinality(Reaped(outlived))
      BY <2>1, <2>2, <2>3, <3>1
    <3>3. Off = Cardinality(refused \ Reaped(refused)) - Cardinality(Reaped(outlived))
      BY DEF Off
    <3> QED
      BY <1>16, <3>2, <3>3
  <2>5. RunningCount'
    BY <1>2, <1>14, <1>16, <1>17, <2>4 DEF RunningCount, Off
  <2>6. WorldInformed'
    <3> SUFFICES ASSUME NEW y \in Zones, \A p \in refused' : child[p].zone # y
                 PROVE  up[y] <=> y \in Running'
      BY <1>5, <1>17 DEF WorldInformed
    <3>1. y # z /\ \A p \in refused : child[p].zone # y
      BY <1>3, <1>17
    <3>2. up[y] <=> y \in Running
      BY <1>1, <3>1 DEF WorldInformed
    <3> QED
      BY <1>7, <3>1, <3>2
  <2> QED
    BY <1>9, <1>10, <1>11, <1>12, <1>13, <1>14, <1>15, <2>5, <2>6
    DEF Inductive, Books
<1>18. CASE /\ outlived' = outlived \cup {pid}
            /\ s_running' = s_running - 1 /\ up' = [up EXCEPT ![z] = FALSE]
            /\ UNCHANGED refused
  <2>1. Reaped(refused)' = Reaped(refused) /\ Reaped(outlived)' = Reaped(outlived)
    BY <1>3, <1>5, <1>18 DEF Reaped
  <2>2. Off' = Off
    BY <1>18, <2>1 DEF Off
  <2>3. RunningCount'
    BY <1>2, <1>14, <1>16, <1>18, <2>2 DEF RunningCount, Off
  <2>4. WorldInformed'
    <3> SUFFICES ASSUME NEW y \in Zones, \A p \in refused : child[p].zone # y
                 PROVE  up'[y] <=> y \in Running'
      BY <1>5, <1>18 DEF WorldInformed
    <3>1. up[y] <=> y \in Running
      BY <1>1 DEF WorldInformed
    <3>2. up'[y] = IF y = z THEN FALSE ELSE up[y]
      BY <1>2, <1>18
    <3> QED
      BY <1>7, <3>1, <3>2
  <2> QED
    BY <1>9, <1>10, <1>11, <1>12, <1>13, <1>14, <1>15, <2>3, <2>4
    DEF Inductive, Books
<1> QED
  BY <1>17, <1>18 DEF pid

\* Reaping calls the handler of the zone that ran, and takes both off the
\* books; a child given up is counted off whether its handler is there or not.
LEMMA ReapInductive ==
    ASSUME Inductive, TypeOK', NEW pid \in Pids, Reap(pid)
    PROVE  Inductive'
<1>1. /\ child[pid].status = "Dead" /\ phase # "Exited"
      /\ child' = [child EXCEPT ![pid] = [child[pid] EXCEPT !.status = "Reaped"]]
      /\ m_running' = [p \in DOMAIN m_running \ {pid} |-> m_running[p]]
      /\ refused' = refused /\ outlived' = outlived /\ objects' = objects
  BY DEF Reap, Restrict, aux
<1>2. TypeOK /\ OneProcess
  BY DEF Inductive
<1>3. /\ child[pid] \in ChildType
      /\ DOMAIN m_running \subseteq Pids /\ up \in [Zones -> BOOLEAN]
      /\ given_up \subseteq 0 .. MaxLaunches /\ s_running \in Int
  BY <1>2 DEF TypeOK, Pids
<1> DEFINE c == [child[pid] EXCEPT !.status = "Reaped"]
<1>4. /\ c \in ChildType /\ c.status = "Reaped"
      /\ c.zone = child[pid].zone
  BY <1>3, Zenon DEF ChildType
<1>5. c \in ChildType /\ child' = [child EXCEPT ![pid] = c]
  BY <1>1, <1>4
<1> HIDE DEF c
<1>6. /\ Pids' = Pids
      /\ \A p \in Pids : child'[p] = IF p = pid THEN c ELSE child[p]
  BY <1>2, <1>5, ChildUpdate, Zenon
<1>7. given_up' = given_up
  BY <1>1 DEF given_up
<1>8. OneProcess'
  <2>1. \A p \in Pids :
          /\ child'[p].zone = child[p].zone
          /\ child'[p].status = "Alive" => child[p].status = "Alive"
    BY <1>1, <1>4, <1>6
  <2>2. Pids' = Pids
    BY <1>6
  <2> QED
    BY <1>2, <1>7, <2>1, <2>2 DEF OneProcess
<1>9. ASSUME phase' = "Loop" PROVE Books' /\ RunningCount' /\ WorldInformed'
  <2> DEFINE z == child[pid].zone
  <2>1. phase = "Loop" /\ Books /\ RunningCount /\ WorldInformed
    <3>1. phase' = phase \/ phase' = "Exited"
      BY DEF Reap
    <3> QED
      BY <1>9, <3>1 DEF Inductive
  <2>2. pid \in DOMAIN m_running /\ given_up \subseteq Pids /\ refused \cap outlived = {}
    BY <1>1, <2>1 DEF Books, Unreaped, Abandoned
  <2>3. DOMAIN m_running' = DOMAIN m_running \ {pid}
        /\ \A p \in DOMAIN m_running' : m_running'[p] = m_running[p]
    BY <1>1
  <2>4. \A p \in Pids : child'[p].zone = child[p].zone
    BY <1>4, <1>6
  <2>5. /\ s_running' = s_running - 1 /\ z \in Zones
        /\ \/ ZoneStep(z) /\ up' = [up EXCEPT ![z] = FALSE]
              /\ (z \in DOMAIN zones =>
                    /\ zones'[z].object = zones[z].object
                    /\ zones'[z].state = IF zones[z].state \in {"StopPending", "Stopped"}
                                         THEN "Stopped" ELSE "StartPending")
              /\ Alive(m_running[pid])
           \/ UNCHANGED <<zones, up>> /\ ~Alive(m_running[pid])
    <3>1. z \in Zones
      BY <1>3 DEF ChildType
    <3>2. CASE Alive(m_running[pid]) /\ OnTerminate(z)
      BY <1>2, <3>1, <3>2, OnTerminateStep
    <3>3. CASE ~Alive(m_running[pid]) /\ UNCHANGED <<zones, up>>
      BY <1>9, <3>1, <3>3 DEF Reap
    <3> QED
      BY <3>2, <3>3 DEF Reap
  <2>6. CASE pid \notin given_up
    <3>1. /\ z \in Running /\ z \in DOMAIN zones
          /\ zones[z].pid = pid /\ zones[z].object = m_running[pid]
      BY <1>2, <2>1, <2>2, <2>6, RunningZones DEF Books, Registered
    <3>2. Alive(m_running[pid])
      BY <3>1 DEF Alive
    <3> HIDE DEF z
    <3>3. /\ ZoneStep(z) /\ up' = [up EXCEPT ![z] = FALSE]
          /\ zones'[z].object = zones[z].object
          /\ zones'[z].state \in {"Stopped", "StartPending"}
      BY <2>5, <3>1, <3>2
    <3>4. Running' = Running \ {z}
      BY <1>2, <3>3, RunningZones, RunningZonesNext DEF ZoneStep, IsRunning
    <3>5. \A y \in Running' : y \in Running /\ y # z /\ zones'[y] = zones[y]
      BY <1>2, <3>3, <3>4, RunningZones DEF ZoneStep
    <3>6. Registered'
      <4> SUFFICES ASSUME NEW p \in DOMAIN m_running' \ given_up'
                   PROVE  /\ child'[p].zone \in Running'
                          /\ zones'[child'[p].zone].pid = p
                          /\ zones'[child'[p].zone].object = m_running'[p]
        BY DEF Registered
      <4>1. p \in DOMAIN m_running \ given_up /\ p # pid /\ p \in Pids
        BY <1>3, <1>7, <2>3
      <4>2. /\ child[p].zone \in Running /\ zones[child[p].zone].pid = p
            /\ zones[child[p].zone].object = m_running[p]
        BY <2>1, <4>1 DEF Books, Registered
      <4>3. child[p].zone # z
        BY <3>1, <4>1, <4>2
      <4> QED
        BY <2>3, <2>4, <3>4, <3>5, <4>1, <4>2, <4>3
    <3>7. Hosted'
      <4> SUFFICES ASSUME NEW y \in Running'
                   PROVE  /\ zones'[y].pid \in DOMAIN m_running' \ given_up'
                          /\ child'[zones'[y].pid].zone = y
        BY DEF Hosted
      <4>1. y \in Running /\ y # z /\ zones'[y] = zones[y]
        BY <3>5
      <4>2. /\ zones[y].pid \in DOMAIN m_running \ given_up
            /\ child[zones[y].pid].zone = y
        BY <2>1, <4>1 DEF Books, Hosted
      <4>3. zones[y].pid # pid
        BY <4>1, <4>2 DEF z
      <4> QED
        BY <1>3, <1>7, <2>3, <2>4, <4>1, <4>2, <4>3
    <3>8. Abandoned'
      <4>1. given_up' \subseteq Pids' /\ refused' \cap outlived' = {}
        BY <1>1, <1>6, <1>7, <2>2
      <4>2. ASSUME NEW p \in DOMAIN m_running', NEW y \in DOMAIN zones',
                   zones'[y].object = m_running'[p]
            PROVE  /\ y = child'[p].zone
                   /\ p \in given_up' => zones'[y].state = "Stopped"
        <5>1. y \in DOMAIN zones /\ zones'[y].object = zones[y].object
          BY <3>3 DEF ZoneStep
        <5>2. p \in DOMAIN m_running /\ zones[y].object = m_running[p] /\ p \in Pids
          BY <1>3, <2>3, <4>2, <5>1
        <5>3. y = child[p].zone /\ (p \in given_up => zones[y].state = "Stopped")
          BY <2>1, <5>1, <5>2 DEF Books, Abandoned
        <5>4. zones[y].state = "Stopped" => y # z
          BY <1>2, <3>1, RunningZones DEF IsRunning
        <5> QED
          BY <1>7, <2>4, <3>3, <5>1, <5>2, <5>3, <5>4 DEF ZoneStep
      <4> QED
        BY <4>1, <4>2 DEF Abandoned
    <3>9. Numbered'
      <4>1. DOMAIN zones' = DOMAIN zones
            /\ \A y \in DOMAIN zones : zones'[y].object = zones[y].object
        BY <3>3 DEF ZoneStep
      <4> QED
        BY <1>1, <2>1, <2>3, <4>1 DEF Books, Numbered
    <3>10. Unreaped'
      BY <1>4, <1>6, <2>1, <2>3 DEF Books, Unreaped
    <3>11. /\ IsFiniteSet(Running') /\ Cardinality(Running') = Cardinality(Running) - 1
           /\ Cardinality(Running) \in Nat
      BY <2>1, <3>1, <3>4, FS_RemoveElement, FS_CardinalityType DEF Books
    <3>12. Off' = Off
      <4>1. pid \notin refused /\ pid \notin outlived
            /\ refused \subseteq Pids /\ outlived \subseteq Pids
        BY <2>2, <2>6 DEF given_up
      <4>2. Reaped(refused)' = Reaped(refused) /\ Reaped(outlived)' = Reaped(outlived)
        BY <1>1, <1>6, <4>1 DEF Reaped
      <4> QED
        BY <1>1, <4>2 DEF Off
    <3>13. RunningCount'
      <4>1. Off \in Int
        BY <1>3, GivenUpFinite DEF Off
      <4> QED
        BY <1>3, <2>1, <2>5, <3>11, <3>12, <4>1 DEF RunningCount
    <3>14. WorldInformed'
      <4> SUFFICES ASSUME NEW y \in Zones, \A p \in refused' : child'[p].zone # y
                   PROVE  up'[y] <=> y \in Running'
        BY DEF WorldInformed
      <4>1. \A p \in refused : child[p].zone # y
        BY <1>1, <2>2, <2>4 DEF given_up
      <4>2. up[y] <=> y \in Running
        BY <2>1, <4>1 DEF WorldInformed
      <4>3. up'[y] = IF y = z THEN FALSE ELSE up[y]
        BY <1>3, <3>3
      <4> QED
        BY <3>4, <4>2, <4>3
    <3> QED
      BY <3>6, <3>7, <3>8, <3>9, <3>10, <3>11, <3>13, <3>14 DEF Books
  <2>7. CASE pid \in given_up
    <3>1. /\ DOMAIN zones' = DOMAIN zones
          /\ \A y \in DOMAIN zones : /\ zones'[y].object = zones[y].object
                                     /\ zones'[y].pid = zones[y].pid
                                     /\ zones'[y].state = zones[y].state
      <4>1. CASE UNCHANGED zones
        BY <4>1
      <4>2. CASE Alive(m_running[pid]) /\ OnTerminate(z)
        <5>1. PICK y \in DOMAIN zones : zones[y].object = m_running[pid]
          BY <4>2 DEF Alive
        <5>2. y = z /\ zones[z].state = "Stopped" /\ z \in DOMAIN zones
          BY <2>1, <2>2, <2>7, <5>1 DEF Books, Abandoned
        <5>3. ZoneStep(z) /\ zones'[z].object = zones[z].object
              /\ zones'[z].pid = zones[z].pid /\ zones'[z].state = "Stopped"
          BY <1>2, <4>2, <5>2, OnTerminateStep
        <5> QED
          BY <5>2, <5>3 DEF ZoneStep
      <4> QED
        BY <4>1, <4>2 DEF Reap
    <3>2. \A y \in Zones : up'[y] = up[y] \/ (up'[y] = FALSE /\ y \notin Running)
      <4>1. CASE UNCHANGED up
        BY <4>1
      <4>2. CASE up' = [up EXCEPT ![z] = FALSE] /\ Alive(m_running[pid])
        <5>1. PICK y \in DOMAIN zones : zones[y].object = m_running[pid]
          BY <4>2 DEF Alive
        <5>2. y = z /\ zones[z].state = "Stopped" /\ z \in DOMAIN zones
          BY <2>1, <2>2, <2>7, <5>1 DEF Books, Abandoned
        <5>3. z \notin Running
          BY <1>2, <5>2, RunningZones DEF IsRunning
        <5> QED
          BY <1>3, <4>2, <5>3
      <4> QED
        BY <2>5, <4>1, <4>2
    <3> HIDE DEF z
    <3>3. Running' = Running
      BY <1>2, <3>1, RunningZones, RunningZonesNext
    <3>4. Registered'
      <4> SUFFICES ASSUME NEW p \in DOMAIN m_running' \ given_up'
                   PROVE  /\ child'[p].zone \in Running'
                          /\ zones'[child'[p].zone].pid = p
                          /\ zones'[child'[p].zone].object = m_running'[p]
        BY DEF Registered
      <4>1. p \in DOMAIN m_running \ given_up /\ p \in Pids /\ m_running'[p] = m_running[p]
        BY <1>3, <1>7, <2>3
      <4>2. /\ child[p].zone \in Running /\ zones[child[p].zone].pid = p
            /\ zones[child[p].zone].object = m_running[p]
        BY <2>1, <4>1 DEF Books, Registered
      <4> QED
        BY <1>2, <2>4, <3>1, <3>3, <4>1, <4>2, RunningZones
    <3>5. Hosted'
      <4> SUFFICES ASSUME NEW y \in Running
                   PROVE  /\ zones'[y].pid \in DOMAIN m_running' \ given_up'
                          /\ child'[zones'[y].pid].zone = y
        BY <3>3 DEF Hosted
      <4>1. /\ zones[y].pid \in DOMAIN m_running \ given_up
            /\ child[zones[y].pid].zone = y /\ zones'[y].pid = zones[y].pid
        BY <1>2, <2>1, <3>1, RunningZones DEF Books, Hosted
      <4> QED
        BY <1>3, <1>7, <2>3, <2>4, <2>7, <4>1
    <3>6. Abandoned'
      <4>1. given_up' \subseteq Pids' /\ refused' \cap outlived' = {}
        BY <1>1, <1>6, <1>7, <2>2
      <4>2. ASSUME NEW p \in DOMAIN m_running', NEW y \in DOMAIN zones',
                   zones'[y].object = m_running'[p]
            PROVE  /\ y = child'[p].zone
                   /\ p \in given_up' => zones'[y].state = "Stopped"
        <5>1. /\ y \in DOMAIN zones /\ p \in DOMAIN m_running /\ p \in Pids
              /\ zones[y].object = m_running[p] /\ zones'[y].state = zones[y].state
          BY <1>3, <2>3, <3>1, <4>2
        <5>2. y = child[p].zone /\ (p \in given_up => zones[y].state = "Stopped")
          BY <2>1, <5>1 DEF Books, Abandoned
        <5> QED
          BY <1>7, <2>4, <5>1, <5>2
      <4> QED
        BY <4>1, <4>2 DEF Abandoned
    <3>7. Numbered'
      BY <1>1, <2>1, <2>3, <3>1 DEF Books, Numbered
    <3>8. Unreaped'
      BY <1>4, <1>6, <2>1, <2>3 DEF Books, Unreaped
    <3>9. Off' = Off - 1 /\ Off \in Int
      <4>1. /\ Cardinality(refused \ Reaped(refused)) \in Nat
            /\ IsFiniteSet(refused \ Reaped(refused))
            /\ Cardinality(Reaped(outlived)) \in Nat /\ IsFiniteSet(Reaped(outlived))
        BY <1>3, GivenUpFinite
      <4>2. refused \subseteq Pids /\ outlived \subseteq Pids
        BY <2>2 DEF given_up
      <4>3. Off = Cardinality(refused \ Reaped(refused)) - Cardinality(Reaped(outlived))
            /\ Off' = Cardinality((refused \ Reaped(refused))')
                        - Cardinality(Reaped(outlived)')
        BY DEF Off
      <4>4. CASE pid \in refused
        <5>1. pid \in refused \ Reaped(refused) /\ pid \notin outlived
          BY <1>1, <2>2, <4>4 DEF Reaped
        <5>2. (refused \ Reaped(refused))' = (refused \ Reaped(refused)) \ {pid}
          BY <1>1, <1>4, <1>6, <4>2 DEF Reaped
        <5>3. Reaped(outlived)' = Reaped(outlived)
          BY <1>1, <1>6, <4>2, <5>1 DEF Reaped
        <5>4. Cardinality((refused \ Reaped(refused)) \ {pid})
                = Cardinality(refused \ Reaped(refused)) - 1
          BY <4>1, <5>1, FS_RemoveElement
        <5>5. Off' = Cardinality(refused \ Reaped(refused)) - 1
                       - Cardinality(Reaped(outlived))
          BY <4>3, <5>2, <5>3, <5>4
        <5> QED
          BY <4>1, <4>3, <5>5
      <4>5. CASE pid \in outlived
        <5>1. pid \notin Reaped(outlived) /\ pid \notin refused
          BY <1>1, <2>2, <4>5 DEF Reaped
        <5>2. (refused \ Reaped(refused))' = refused \ Reaped(refused)
          BY <1>1, <1>6, <4>2, <5>1 DEF Reaped
        <5>3. Reaped(outlived)' = Reaped(outlived) \cup {pid}
          BY <1>1, <1>4, <1>6, <4>2, <4>5 DEF Reaped
        <5>4. Cardinality(Reaped(outlived) \cup {pid}) = Cardinality(Reaped(outlived)) + 1
          BY <4>1, <5>1, FS_AddElement
        <5>5. Off' = Cardinality(refused \ Reaped(refused))
                       - (Cardinality(Reaped(outlived)) + 1)
          BY <4>3, <5>2, <5>3, <5>4
        <5> QED
          BY <4>1, <4>3, <5>5
      <4> QED
        BY <2>7, <4>4, <4>5 DEF given_up
    <3>10. Cardinality(Running) \in Nat /\ IsFiniteSet(Running)
      BY <2>1, FS_CardinalityType DEF Books
    <3>11. RunningCount'
      BY <1>3, <2>1, <2>5, <3>3, <3>9, <3>10 DEF RunningCount
    <3>12. WorldInformed'
      <4> SUFFICES ASSUME NEW y \in Zones, \A p \in refused' : child'[p].zone # y
                   PROVE  up'[y] <=> y \in Running'
        BY DEF WorldInformed
      <4>1. \A p \in refused : child[p].zone # y
        BY <1>1, <2>2, <2>4 DEF given_up
      <4>2. up[y] <=> y \in Running
        BY <2>1, <4>1 DEF WorldInformed
      <4> QED
        BY <3>2, <3>3, <4>2
    <3> QED
      BY <3>3, <3>4, <3>5, <3>6, <3>7, <3>8, <3>10, <3>11, <3>12 DEF Books
  <2> QED
    BY <2>6, <2>7
<1>10. phase' # "Loop" => RunningCount' /\ WorldInformed'
  BY DEF RunningCount, WorldInformed
<1> QED
  BY <1>8, <1>9, <1>10 DEF Inductive

\* The three ways in which a stop goes, with the books.
LEMMA StopWithInductive ==
    ASSUME Inductive, TypeOK', NEW z \in DOMAIN zones, NEW graceful \in BOOLEAN,
           NEW fails \in 0 .. KillLimit, phase = "Loop",
           StopWith(z, graceful, fails),
           UNCHANGED <<objects, m_running, s_running, up, phase, outlived>>
    PROVE  Inductive'
<1>1. TypeOK
  BY DEF Inductive
<1>2. zones[z] \in ZoneLaunch /\ zones \in [DOMAIN zones -> ZoneLaunch]
  BY <1>1 DEF TypeOK
<1>3. ZoneStep(z) /\ zones'[z].object = zones[z].object /\ zones'[z].pid = zones[z].pid
      /\ zones'[z].state \in {"StopPending", "Stopped"}
  BY <1>1, StopWithStep
<1>4. IsRunning(zones[z].state) => zones[z].state # "Stopped"
  BY DEF IsRunning
<1>5. \A y \in Running : zones'[y].pid = zones[y].pid
                         /\ zones'[y].object = zones[y].object
  BY <1>1, <1>3, RunningZones DEF ZoneStep
<1>6. CASE /\ zones[z].state = "StartPending"
           /\ SetZone(z, "Stopped", zones[z].timer)
           /\ UNCHANGED <<child, refused>>
  <2>1. zones'[z].state = "Stopped"
    BY <1>2, <1>6 DEF SetZone, ZoneLaunch
  <2>2. Running' = Running
    BY <1>1, <1>3, <1>6, <2>1, RunningKept DEF IsRunning
  <2>3. SameChildren
    BY <1>6 DEF SameChildren, Pids
  <2>4. SameObjects
    BY <1>3, <2>1 DEF ZoneStep, SameObjects
  <2> QED
    BY <1>5, <1>6, <2>2, <2>3, <2>4, QuietInductive DEF aux
<1>7. CASE /\ IsRunning(zones[z].state)
           /\ Signal(zones[z].pid, graceful)
           /\ zones' = [zones EXCEPT ![z] = [@ EXCEPT !.state = "StopPending",
                                           !.timer = TRUE, !.kill_fails = fails]]
           /\ UNCHANGED refused
  <2>1. zones'[z].state = "StopPending"
    BY <1>2, <1>7 DEF ZoneLaunch
  <2>2. Running' = Running
    BY <1>1, <1>3, <1>7, <2>1, RunningKept DEF IsRunning
  <2>3. SameChildren
    BY <1>1, <1>7, SignalKeeps
  <2>4. SameObjects
    BY <1>3, <1>4, <1>7 DEF ZoneStep, SameObjects
  <2> QED
    BY <1>5, <1>7, <2>2, <2>3, <2>4, QuietInductive DEF aux
<1>8. CASE /\ IsRunning(zones[z].state) /\ KillMayFail
           /\ zones' = [zones EXCEPT ![z] = [@ EXCEPT !.state = "Stopped",
                                           !.kill_fails = fails]]
           /\ refused' = refused \cup {zones[z].pid}
           /\ UNCHANGED child
  <2>1. zones'[z].state = "Stopped"
    BY <1>2, <1>8 DEF ZoneLaunch
  <2>2. z \in Running
    BY <1>1, <1>8, RunningZones
  <2> QED
    BY <1>3, <1>8, <2>1, <2>2, GiveUpInductive
<1> QED
  BY <1>6, <1>7, <1>8 DEF StopWith

\* Every step of the launcher keeps the books.
LEMMA NextInductive == Inductive /\ [Next]_vars => Inductive'
<1> SUFFICES ASSUME Inductive, [Next]_vars PROVE Inductive'
  OBVIOUS
<1>1. TypeOK /\ TypeOK'
  BY NextType DEF Inductive
<1>2. /\ zones \in [DOMAIN zones -> ZoneLaunch] /\ DOMAIN zones \subseteq Zones
      /\ DOMAIN m_running \subseteq Pids
  BY <1>1 DEF TypeOK
<1>3. UNCHANGED child => SameChildren
  BY DEF SameChildren, Pids
<1>4. UNCHANGED zones => Running' = Running
  BY <1>1, RunningZones, RunningZonesNext
<1>5. UNCHANGED <<zones, objects>> => SameObjects
  BY DEF SameObjects
<1>6. CASE HandleSigChild
  BY <1>1, <1>3, <1>4, <1>5, <1>6, QuietInductive DEF HandleSigChild
<1>7. CASE ShutDown
  <2>1. \A pid \in Pids : child[pid] \in ChildType
    BY <1>1 DEF TypeOK, Pids
  <2>2. child' = [pid \in Pids |-> IF pid \in DOMAIN m_running
                                   THEN [child[pid] EXCEPT !.term = TRUE]
                                   ELSE child[pid]]
    BY <1>7 DEF ShutDown
  <2>3. \A pid \in Pids : /\ child'[pid].zone = child[pid].zone
                           /\ child'[pid].status = child[pid].status
    <3> SUFFICES ASSUME NEW pid \in Pids
                 PROVE  /\ child'[pid].zone = child[pid].zone
                        /\ child'[pid].status = child[pid].status
      OBVIOUS
    <3> QED
      BY <2>1, <2>2, Zenon DEF ChildType
  <2>4. Pids' = Pids
    BY <2>2 DEF Pids
  <2>5. SameChildren
    BY <2>3, <2>4 DEF SameChildren
  <2> QED
    BY <1>1, <1>7, <2>5, QuietInductive DEF ShutDown
<1>8. CASE Exit
  BY <1>1, <1>3, <1>8, QuietInductive DEF Exit
<1>9. ASSUME NEW pid \in Pids, Die(pid) PROVE Inductive'
  <2>1. child[pid] \in ChildType
    BY <1>1 DEF TypeOK, Pids
  <2> DEFINE c == [child[pid] EXCEPT !.status = "Dead"]
  <2>2. c \in ChildType /\ c.zone = child[pid].zone /\ c.status = "Dead"
    BY <2>1, Zenon DEF ChildType
  <2>3. child' = [child EXCEPT ![pid] = c] /\ child[pid].status = "Alive"
    BY <1>9 DEF Die
  <2> HIDE DEF c
  <2>4. c \in ChildType /\ child' = [child EXCEPT ![pid] = c]
    BY <2>2, <2>3
  <2>5. /\ Pids' = Pids
        /\ \A p \in Pids : child'[p] = IF p = pid THEN c ELSE child[p]
    BY <1>1, <2>4, ChildUpdate, Zenon
  <2>6. SameChildren
    BY <2>2, <2>3, <2>5 DEF SameChildren
  <2> QED
    BY <1>1, <1>4, <1>5, <1>9, <2>6, QuietInductive DEF Die
<1>10. ASSUME NEW pid \in Pids, Reap(pid) PROVE Inductive'
  BY <1>1, <1>10, ReapInductive
<1>11. ASSUME NEW z \in Zones, StartZone(z) PROVE Inductive'
  <2>1. /\ z \notin DOMAIN zones /\ DOMAIN zones' = DOMAIN zones \cup {z}
        /\ \A y \in DOMAIN zones : zones'[y] = zones[y]
        /\ zones'[z].state = "StartPending" /\ zones'[z].object = objects + 1
        /\ objects' = objects + 1
    BY <1>11 DEF StartZone
  <2>2. Running' = Running
    BY <1>1, <2>1, RunningZones, RunningZonesNext DEF IsRunning
  <2>3. \A y \in Running : zones'[y] = zones[y]
    BY <1>1, <2>1, RunningZones
  <2>4. SameObjects
    BY <2>1 DEF SameObjects
  <2> QED
    BY <1>1, <1>3, <1>11, <2>2, <2>3, <2>4, QuietInductive DEF StartZone
<1>12. ASSUME NEW z \in DOMAIN zones, Start(z) PROVE Inductive'
  BY <1>1, <1>12, StartInductive
<1>13. ASSUME NEW z \in DOMAIN zones, Restart(z) PROVE Inductive'
  <2>1. /\ zones[z].state = "Started" /\ phase = "Loop" /\ z \in Running
        /\ UNCHANGED <<objects, m_running, s_running, up, phase, outlived>>
    BY <1>1, <1>13, RunningZones DEF Restart, IsRunning
  <2>2. zones[z] \in ZoneLaunch
    BY <1>2
  <2>3. CASE /\ Signal(zones[z].pid, TRUE)
             /\ SetZone(z, "RestartPending", TRUE)
             /\ UNCHANGED refused
    <3>1. /\ ZoneStep(z) /\ zones'[z].state = "RestartPending"
          /\ zones'[z].pid = zones[z].pid /\ zones'[z].object = zones[z].object
      BY <1>2, <2>2, <2>3 DEF SetZone, ZoneStep, ZoneLaunch, ZoneStates
    <3>2. Running' = Running
      BY <1>1, <2>1, <3>1, RunningKept DEF IsRunning
    <3>3. SameChildren
      BY <1>1, <2>3, SignalKeeps
    <3>4. \A y \in Running : /\ zones'[y].pid = zones[y].pid
                              /\ zones'[y].object = zones[y].object
      BY <1>1, <3>1, RunningZones DEF ZoneStep
    <3>5. SameObjects
      BY <2>1, <3>1 DEF ZoneStep, SameObjects
    <3> QED
      BY <1>1, <2>1, <2>3, <3>2, <3>3, <3>4, <3>5, QuietInductive DEF aux
  <2>4. CASE /\ KillMayFail
             /\ SetZone(z, "Stopped", zones[z].timer)
             /\ refused' = refused \cup {zones[z].pid}
             /\ UNCHANGED child
    <3>1. /\ ZoneStep(z) /\ zones'[z].state = "Stopped"
          /\ zones'[z].object = zones[z].object
      BY <1>2, <2>2, <2>4 DEF SetZone, ZoneStep, ZoneLaunch, ZoneStates
    <3> QED
      BY <1>1, <2>1, <2>4, <3>1, GiveUpInductive
  <2> QED
    BY <1>13, <2>3, <2>4 DEF Restart
<1>14. ASSUME NEW z \in DOMAIN zones, Stop(z) PROVE Inductive'
  <2>1. zones[z].kill_fails \in 0 .. KillLimit
    BY <1>2 DEF ZoneLaunch
  <2> QED
    BY <1>1, <1>14, <2>1, StopWithInductive DEF Stop
<1>15. ASSUME NEW z \in DOMAIN zones, KillAgain(z) PROVE Inductive'
  <2>1. zones[z].kill_fails + 1 \in 0 .. KillLimit
    BY <1>2, <1>15, ConstantTypes DEF KillAgain, ZoneLaunch
  <2> QED
    BY <1>1, <1>15, <2>1, StopWithInductive DEF KillAgain, TimedOut
<1>16. ASSUME NEW z \in DOMAIN zones, GiveUp(z) PROVE Inductive'
  <2>1. /\ zones[z].state = "StopPending" /\ phase = "Loop" /\ z \in Running
    BY <1>1, <1>16, RunningZones DEF GiveUp, TimedOut, IsRunning
  <2>2. /\ ZoneStep(z) /\ zones'[z].state = "Stopped"
        /\ zones'[z].object = zones[z].object
    BY <1>2, <1>16 DEF GiveUp, SetZone, ZoneStep, ZoneLaunch, ZoneStates
  <2>3. /\ outlived' = outlived \cup {zones[z].pid}
        /\ s_running' = s_running - 1 /\ up' = [up EXCEPT ![z] = FALSE]
        /\ UNCHANGED <<objects, m_running, child, phase, refused>>
    BY <1>16 DEF GiveUp
  <2> QED
    BY <1>1, <2>1, <2>2, <2>3, GiveUpInductive
<1>17. ASSUME NEW z \in DOMAIN zones, Remove(z) PROVE Inductive'
  <2>1. /\ zones[z].state = "Stopped" /\ DOMAIN zones' = DOMAIN zones \ {z}
        /\ \A y \in DOMAIN zones' : zones'[y] = zones[y]
        /\ UNCHANGED <<objects, m_running, s_running, child, up, phase, aux>>
        /\ phase = "Loop"
    BY <1>17 DEF Remove, Restrict
  <2>2. Running' = Running
    BY <1>1, <2>1, RunningZones, RunningZonesNext DEF IsRunning
  <2>3. \A y \in Running : zones'[y] = zones[y]
    BY <1>1, <2>1, <2>2, RunningZonesNext
  <2>4. SameObjects
    BY <2>1 DEF SameObjects
  <2> QED
    BY <1>1, <1>3, <2>1, <2>2, <2>3, <2>4, QuietInductive
<1>18. CASE UNCHANGED vars
  BY <1>1, <1>3, <1>4, <1>5, <1>18, QuietInductive DEF vars
<1> QED
  BY <1>6, <1>7, <1>8, <1>9, <1>10, <1>11, <1>12, <1>13, <1>14, <1>15, <1>16,
     <1>17, <1>18 DEF Next

\* So the books agree with the children always.
LEMMA SpecInductive == Spec => []Inductive
BY InitInductive, NextInductive, PTL DEF Spec

\* s_running counts the running zones, through restarts, crashes, stops,
\* repeated kills and deaths that share a signal; what it is off by is exactly
\* what the children given up account for.
THEOREM RunningCounted == Spec => []RunningCount
<1>1. Inductive => RunningCount
  BY DEF Inductive
<1> QED
  BY <1>1, SpecInductive, PTL

\* The main loop never deletes a ZoneLaunch that ProcLauncher will still call,
\* unless the launcher has given its child up.
THEOREM HandlersNeverDangle == Spec => []HandlersAlive
<1>1. Inductive => HandlersAlive
  <2> SUFFICES ASSUME Inductive, phase = "Loop", NEW pid \in DOMAIN m_running \ given_up
               PROVE  Alive(m_running[pid])
    BY DEF HandlersAlive
  <2>1. /\ child[pid].zone \in DOMAIN zones
        /\ zones[child[pid].zone].object = m_running[pid]
    BY RunningZones DEF Inductive, Books, Registered
  <2> QED
    BY <2>1 DEF Alive
<1> QED
  BY <1>1, SpecInductive, PTL

\* However requests race the death of a zone, it never runs twice, unless the
\* launcher has given the older process up.
THEOREM OneProcessPerZone == Spec => []OneProcess
<1>1. Inductive => OneProcess
  BY DEF Inductive
<1> QED
  BY <1>1, SpecInductive, PTL

\* The last status the world was sent of a zone says whether it runs, unless a
\* kill() of one of the zone's processes failed.
THEOREM WorldKnows == Spec => []WorldInformed
<1>1. Inductive => WorldInformed
  BY DEF Inductive
<1> QED
  BY <1>1, SpecInductive, PTL
===============================================================================
